---------------------------- MODULE FepCsiProofs ----------------------------
(***************************************************************************)
(* Proofs about FepCsi, for all strings of bytes: what the folds of the    *)
(* model compute, step by step; where the tokens of a string are; and      *)
(* where a control sequence ends.                                          *)
(***************************************************************************)
EXTENDS FepCsi, SequenceTheorems, FiniteSetTheorems, WellFoundedInduction, TLAPS

(* A set of numbers that is not empty has a least element. *)
LEMMA LeastOf ==
  ASSUME NEW T \in SUBSET Nat, T # {}
  PROVE  \E m \in T : \A k \in T : m <= k
<1>1. PICK m \in T : \A y \in T : ~(<<y, m>> \in OpToRel(<, Nat))
  BY NatLessThanWellFounded, WFMin
<1>2. \A y \in T : ~(y < m)
  BY <1>1 DEF OpToRel
<1> QED BY <1>2

(* Induction over the numbers, for a set in place of a predicate. *)
LEMMA NumberInduction ==
  ASSUME NEW S \in SUBSET Nat, 0 \in S, \A n \in S : n + 1 \in S
  PROVE  S = Nat
<1> SUFFICES ASSUME Nat \ S # {} PROVE FALSE
  OBVIOUS
<1>1. PICK m \in Nat \ S : \A k \in Nat \ S : m <= k
  BY LeastOf
<1>2. m # 0 /\ m - 1 \in Nat
  BY <1>1
<1>3. m - 1 \in S
  BY <1>1, <1>2
<1> QED BY <1>3

LEMMA MaxIn ==
  ASSUME NEW n \in Nat, NEW s \in SUBSET (1 .. n), s # {}
  PROVE  /\ Max(s) \in s /\ \A x \in s : x <= Max(s)
<1> DEFINE T == {n - x : x \in s}
<1>1. T \in SUBSET Nat /\ T # {}
  <2>1. ASSUME NEW k \in T PROVE k \in Nat
    <3>1. PICK x \in s : k = n - x
      OBVIOUS
    <3>2. x \in 1 .. n
      OBVIOUS
    <3> HIDE DEF T
    <3> QED BY SMT, <3>1, <3>2
  <2>2. T # {}
    OBVIOUS
  <2> QED BY <2>1, <2>2
<1>2. PICK m \in T : \A k \in T : m <= k
  BY <1>1, LeastOf
<1>3. PICK y \in s : m = n - y
  BY <1>2
<1>4. \A x \in s : x <= y
  <2> SUFFICES ASSUME NEW x \in s PROVE x <= y
    OBVIOUS
  <2>1. m <= n - x
    BY <1>2
  <2>2. x \in Int /\ y \in Int /\ n \in Int
    BY <1>3
  <2> QED BY <1>3, <2>1, <2>2
<1>5. \A x \in s : y >= x
  BY <1>3, <1>4
<1>6. \E z \in s : \A x \in s : z >= x
  BY <1>5, <1>3
<1>7. Max(s) \in s /\ \A x \in s : Max(s) >= x
  BY Zenon, <1>6 DEF Max
<1> QED BY <1>7

LEMMA MaxRun ==
  ASSUME NEW n \in Nat, n # 0
  PROVE  Max(1 .. n) = n /\ (1 .. n) \ {n} = 1 .. (n - 1)
<1>1. Max(1 .. n) \in 1 .. n /\ \A x \in 1 .. n : x <= Max(1 .. n)
  <2>1. 1 .. n # {}
    BY SMT
  <2> QED BY <2>1, MaxIn
<1>2. n <= Max(1 .. n)
  BY <1>1
<1> QED BY <1>1, <1>2

(* A fold over n elements whose k-th step is step[k]: there is a function  *)
(* that FoldLeft may choose, from sets of indices to what has been         *)
(* computed when these have been gone through.                             *)
Folds(T, base, step, n, f) ==
  /\ f \in [SUBSET (1 .. n) -> T]
  /\ \A s \in SUBSET (1 .. n) :
       f[s] = IF s = {} THEN base ELSE step[Max(s)][f[s \ {Max(s)}]]

LEMMA WithoutMax ==
  ASSUME NEW m \in Nat, NEW s \in SUBSET (1 .. (m + 1)), s # {}
  PROVE  Max(s) \in 1 .. (m + 1) /\ s \ {Max(s)} \in SUBSET (1 .. m)
<1>0. m + 1 \in Nat
  OBVIOUS
<1>1. Max(s) \in s /\ \A x \in s : x <= Max(s)
  BY <1>0, MaxIn
<1>2. ASSUME NEW x \in s \ {Max(s)} PROVE x \in 1 .. m
  <2>1. PICK y : y = Max(s)
    OBVIOUS
  <2>2. x <= y /\ x # y /\ x \in 1 .. (m + 1) /\ y \in 1 .. (m + 1)
    BY Zenon, <1>1, <2>1
  <2> QED BY SMT, <2>2
<1> QED BY Zenon, <1>1, <1>2

LEMMA FoldsExist ==
  ASSUME NEW T, NEW base \in T, NEW n \in Nat, NEW step \in [1 .. n -> [T -> T]]
  PROVE  \E f : Folds(T, base, step, n, f)
<1> DEFINE S == {m \in Nat : m <= n => \E f : Folds(T, base, step, m, f)}
<1>1. 0 \in S
  <2>1. \A s \in SUBSET (1 .. 0) : s = {}
    BY SMT
  <2>2. PICK f : f = [s \in SUBSET (1 .. 0) |-> base]
    OBVIOUS
  <2>3. Folds(T, base, step, 0, f)
    BY Zenon, <2>1, <2>2 DEF Folds
  <2> QED BY <2>3
<1>2. ASSUME NEW m \in S PROVE m + 1 \in S
  <2>0. m \in Nat /\ m + 1 \in Nat
    OBVIOUS
  <2> SUFFICES ASSUME m + 1 <= n PROVE \E f : Folds(T, base, step, m + 1, f)
    BY <2>0
  <2>1. PICK f : Folds(T, base, step, m, f)
    <3>1. m <= n
      BY SMT, <2>0
    <3> QED BY <3>1
  <2>2. PICK g : g = [s \in SUBSET (1 .. (m + 1)) |->
                        IF s = {} THEN base ELSE step[Max(s)][f[s \ {Max(s)}]]]
    OBVIOUS
  <2>3. \A s \in SUBSET (1 .. (m + 1)) :
          s # {} => Max(s) \in 1 .. n /\ s \ {Max(s)} \in SUBSET (1 .. m)
    <3>1. \A k \in 1 .. (m + 1) : k \in 1 .. n
      BY SMT, <2>0
    <3> HIDE DEF S
    <3> QED BY Zenon, <2>0, <3>1, WithoutMax
  <2>4. \A r \in SUBSET (1 .. m) : r \in SUBSET (1 .. (m + 1))
    BY SMT, <2>0
  <2> HIDE DEF S
  <2>5. \A r \in SUBSET (1 .. m) : g[r] = f[r]
    BY Zenon, <2>1, <2>2, <2>4 DEF Folds
  <2>6. g \in [SUBSET (1 .. (m + 1)) -> T]
    <3>1. \A s \in SUBSET (1 .. (m + 1)) :
            s # {} => step[Max(s)][f[s \ {Max(s)}]] \in T
      <4> SUFFICES ASSUME NEW s \in SUBSET (1 .. (m + 1)), s # {}
                   PROVE  step[Max(s)][f[s \ {Max(s)}]] \in T
        OBVIOUS
      <4>1. step[Max(s)] \in [T -> T]
        BY Zenon, <2>3
      <4>2. f[s \ {Max(s)}] \in T
        BY Zenon, <2>1, <2>3 DEF Folds
      <4> QED BY Zenon, <4>1, <4>2
    <3> QED BY Zenon, <2>2, <3>1
  <2>7. Folds(T, base, step, m + 1, g)
    BY Zenon, <2>2, <2>3, <2>5, <2>6 DEF Folds
  <2> QED BY <2>7
<1> HIDE DEF S
<1>3. S = Nat
  <2>1. S \in SUBSET Nat
    BY DEF S
  <2> QED BY <1>1, <1>2, <2>1, NumberInduction
<1>4. n \in S /\ n <= n
  BY <1>3
<1> QED BY <1>4 DEF S

(* The indices of a sequence, one after the other. *)
LEMMA Chain ==
  ASSUME NEW n \in Nat, NEW k \in 1 .. n
  PROVE  /\ k - 1 \in 0 .. n /\ k \in 0 .. n
         /\ 1 .. k \in SUBSET (1 .. n) /\ 1 .. k # {}
         /\ Max(1 .. k) = k /\ (1 .. k) \ {Max(1 .. k)} = 1 .. (k - 1)
<1>1. k \in Nat /\ k # 0 /\ k - 1 \in 0 .. n /\ k \in 0 .. n
  BY SMT
<1>2. \A x \in 1 .. k : x \in 1 .. n
  BY SMT
<1>3. k \in 1 .. k
  BY SMT
<1> QED BY Zenon, <1>1, <1>2, <1>3, MaxRun

(* What is true in the beginning, and after each step if it was before, is *)
(* true in the end.                                                        *)
LEMMA Along ==
  ASSUME NEW n \in Nat, NEW A, 0 \in A,
         \A k \in 1 .. n : k - 1 \in A => k \in A
  PROVE  \A k \in 0 .. n : k \in A
<1> DEFINE S == {k \in Nat : k <= n => k \in A}
<1>1. 0 \in S
  OBVIOUS
<1>2. ASSUME NEW k \in S PROVE k + 1 \in S
  <2> SUFFICES ASSUME k + 1 <= n PROVE k + 1 \in A
    OBVIOUS
  <2>1. k + 1 \in 1 .. n /\ (k + 1) - 1 = k /\ k <= n
    BY SMT
  <2>2. k \in A
    BY <2>1
  <2> QED BY Zenon, <2>1, <2>2
<1> HIDE DEF S
<1>3. S = Nat
  <2>1. S \in SUBSET Nat
    BY DEF S
  <2> QED BY <1>1, <1>2, <2>1, NumberInduction
<1>4. \A k \in 0 .. n : k \in Nat /\ k <= n
  BY SMT
<1> QED BY <1>3, <1>4 DEF S

-----------------------------------------------------------------------------
(* The value of a token of digits. *)
LEMMA NumberRuns ==
  ASSUME NEW n \in Nat, NEW token \in [1 .. n -> Int]
  PROVE  \E h \in [0 .. n -> Int] :
           /\ h[0] = 0 /\ h[n] = Number(token)
           /\ \A k \in 1 .. n : h[k] = 10 * h[k - 1] + (token[k] - 48)
<1> DEFINE it == CHOOSE f : f = [s \in SUBSET (1 .. n) |->
                    IF s = {} THEN 0 ELSE 10 * f[s \ {Max(s)}] + (token[Max(s)] - 48)]
           step == [k \in 1 .. n |-> [z \in Int |-> 10 * z + (token[k] - 48)]]
<1>1. Number(token) = it[1 .. n]
  <2>1. DOMAIN token = 1 .. n
    OBVIOUS
  <2> QED BY Zenon, <2>1 DEF Number, FoldLeft, MapThenFoldSet
<1>2. step \in [1 .. n -> [Int -> Int]]
  <2>1. \A k \in 1 .. n, z \in Int : 10 * z + (token[k] - 48) \in Int
    BY SMT
  <2> QED BY Zenon, <2>1
<1>3. PICK f : Folds(Int, 0, step, n, f)
  <2>1. 0 \in Int
    OBVIOUS
  <2> HIDE DEF step
  <2> QED BY <1>2, <2>1, FoldsExist
<1>4. f = [s \in SUBSET (1 .. n) |->
             IF s = {} THEN 0 ELSE 10 * f[s \ {Max(s)}] + (token[Max(s)] - 48)]
  <2>1. f = [s \in SUBSET (1 .. n) |-> f[s]]
    BY Zenon, <1>3 DEF Folds
  <2>2. \A s \in SUBSET (1 .. n) :
          f[s] = IF s = {} THEN 0 ELSE 10 * f[s \ {Max(s)}] + (token[Max(s)] - 48)
    <3> SUFFICES ASSUME NEW s \in SUBSET (1 .. n), s # {}
                 PROVE  f[s] = 10 * f[s \ {Max(s)}] + (token[Max(s)] - 48)
      BY Zenon, <1>3 DEF Folds
    <3>1. Max(s) \in 1 .. n
      BY MaxIn
    <3>2. f[s \ {Max(s)}] \in Int
      BY Zenon, <1>3 DEF Folds
    <3>3. f[s] = step[Max(s)][f[s \ {Max(s)}]]
      BY Zenon, <1>3 DEF Folds
    <3> QED BY Zenon, <3>1, <3>2, <3>3
  <2> QED BY Zenon, <2>1, <2>2
<1>5. it = [s \in SUBSET (1 .. n) |->
              IF s = {} THEN 0 ELSE 10 * it[s \ {Max(s)}] + (token[Max(s)] - 48)]
  BY Zenon, <1>4
<1> HIDE DEF it, step
<1>6. PICK h : h = [k \in 0 .. n |-> it[1 .. k]]
  OBVIOUS
<1>7. h[0] = 0
  <2>1. 1 .. 0 = {} /\ 0 \in 0 .. n /\ {} \in SUBSET (1 .. n)
    BY SMT
  <2> QED BY Zenon, <1>5, <1>6, <2>1
<1>8. \A k \in 1 .. n : h[k] = 10 * h[k - 1] + (token[k] - 48)
  <2> SUFFICES ASSUME NEW k \in 1 .. n PROVE h[k] = 10 * h[k - 1] + (token[k] - 48)
    OBVIOUS
  <2>1. /\ k - 1 \in 0 .. n /\ k \in 0 .. n
        /\ 1 .. k \in SUBSET (1 .. n) /\ 1 .. k # {}
        /\ Max(1 .. k) = k /\ (1 .. k) \ {Max(1 .. k)} = 1 .. (k - 1)
    BY Chain
  <2>2. it[1 .. k] = 10 * it[(1 .. k) \ {Max(1 .. k)}] + (token[Max(1 .. k)] - 48)
    BY Zenon, <1>5, <2>1
  <2>3. it[1 .. k] = 10 * it[1 .. (k - 1)] + (token[k] - 48)
    BY Zenon, <2>1, <2>2
  <2> QED BY Zenon, <1>6, <2>1, <2>3
<1>9. h \in [0 .. n -> Int]
  <2>1. \A k \in 0 .. n : k \in {j \in 0 .. n : h[j] \in Int}
    <3>1. 0 \in {j \in 0 .. n : h[j] \in Int}
      BY <1>7
    <3>2. ASSUME NEW k \in 1 .. n, k - 1 \in {j \in 0 .. n : h[j] \in Int}
          PROVE  k \in {j \in 0 .. n : h[j] \in Int}
      BY <1>8, <3>2
    <3> QED BY <3>1, <3>2, Along
  <2> QED BY <1>6, <2>1
<1>10. h[n] = Number(token)
  <2>1. n \in 0 .. n
    OBVIOUS
  <2> QED BY <1>1, <1>6, <2>1
<1> QED BY <1>7, <1>8, <1>9, <1>10

LEMMA NumberType ==
  ASSUME NEW n \in Nat, NEW token \in [1 .. n -> Int]
  PROVE  Number(token) \in Int
<1>1. n \in 0 .. n
  OBVIOUS
<1> QED BY <1>1, NumberRuns

LEMMA NumberOfDigit ==
  ASSUME NEW b \in Int
  PROVE  Number(<<b>>) = b - 48
<1>1. <<b>> \in [1 .. 1 -> Int] /\ 1 \in Nat /\ <<b>>[1] = b
  OBVIOUS
<1>2. PICK h \in [0 .. 1 -> Int] :
        /\ h[0] = 0 /\ h[1] = Number(<<b>>)
        /\ \A k \in 1 .. 1 : h[k] = 10 * h[k - 1] + (<<b>>[k] - 48)
  BY Zenon, <1>1, NumberRuns
<1>3. h[1] = 10 * h[0] + (b - 48)
  BY <1>1, <1>2
<1> QED BY <1>2, <1>3

(* The tokens before what is taken next, and that token as far as it goes. *)
Splits == [tokens : Seq(Seq(Byte)), rest : Seq(Byte)]

LEMMA SplitType ==
  ASSUME NEW d, NEW z \in Splits, NEW b \in Byte
  PROVE  SplitAt(d, z, b) \in Splits
<1>1. z.tokens \in Seq(Seq(Byte)) /\ z.rest \in Seq(Byte)
  BY DEF Splits
<1>2. CASE b = d
  <2>1. SplitAt(d, z, b) = [tokens |-> Append(z.tokens, z.rest), rest |-> <<>>]
    BY <1>2 DEF SplitAt
  <2>2. Append(z.tokens, z.rest) \in Seq(Seq(Byte)) /\ <<>> \in Seq(Byte)
    BY <1>1, AppendProperties, EmptySeq
  <2> QED BY <2>1, <2>2 DEF Splits
<1>3. CASE b # d
  <2>1. SplitAt(d, z, b) = [z EXCEPT !.rest = Append(@, b)]
    BY <1>3 DEF SplitAt
  <2>2. Append(z.rest, b) \in Seq(Byte)
    BY <1>1, AppendProperties
  <2> QED BY <2>1, <2>2 DEF Splits
<1> QED BY <1>2, <1>3

(* What StrSplit makes of how far it has come. *)
Tokens(z) == IF z.rest = <<>> THEN z.tokens ELSE Append(z.tokens, z.rest)

SplitRun(n, s, d, h) ==
  /\ h \in [0 .. n -> Splits]
  /\ h[0] = [tokens |-> <<>>, rest |-> <<>>]
  /\ StrSplit(s, d) = Tokens(h[n])
  /\ \A k \in 1 .. n : h[k] = SplitAt(d, h[k - 1], s[k])

LEMMA SplitRuns ==
  ASSUME NEW n \in Nat, NEW s \in [1 .. n -> Byte], NEW d
  PROVE  \E h : SplitRun(n, s, d, h)
<1> DEFINE base == [tokens |-> <<>>, rest |-> <<>>]
           it == CHOOSE f : f = [x \in SUBSET (1 .. n) |->
                    IF x = {} THEN base ELSE SplitAt(d, f[x \ {Max(x)}], s[Max(x)])]
           step == [k \in 1 .. n |-> [z \in Splits |-> SplitAt(d, z, s[k])]]
<1>0. base \in Splits
  BY EmptySeq DEF Splits
<1>1. StrSplit(s, d) = Tokens(it[1 .. n])
  <2>1. DOMAIN s = 1 .. n
    OBVIOUS
  <2>2. FoldLeft(LAMBDA y, b : SplitAt(d, y, b), base, s) = it[1 .. n]
    BY Zenon, <2>1 DEF FoldLeft, MapThenFoldSet
  <2> HIDE DEF it
  <2> QED BY Zenon, <2>2 DEF StrSplit, Tokens
<1> HIDE DEF base
<1>2. step \in [1 .. n -> [Splits -> Splits]]
  <2>1. \A k \in 1 .. n, z \in Splits : SplitAt(d, z, s[k]) \in Splits
    BY SplitType
  <2> QED BY Zenon, <2>1
<1>3. PICK f : Folds(Splits, base, step, n, f)
  <2> HIDE DEF step
  <2> QED BY <1>0, <1>2, FoldsExist
<1>4. f = [x \in SUBSET (1 .. n) |->
             IF x = {} THEN base ELSE SplitAt(d, f[x \ {Max(x)}], s[Max(x)])]
  <2>1. f = [x \in SUBSET (1 .. n) |-> f[x]]
    BY Zenon, <1>3 DEF Folds
  <2>2. \A x \in SUBSET (1 .. n) :
          f[x] = IF x = {} THEN base ELSE SplitAt(d, f[x \ {Max(x)}], s[Max(x)])
    <3> SUFFICES ASSUME NEW x \in SUBSET (1 .. n), x # {}
                 PROVE  f[x] = SplitAt(d, f[x \ {Max(x)}], s[Max(x)])
      BY Zenon, <1>3 DEF Folds
    <3>1. Max(x) \in 1 .. n
      BY MaxIn
    <3>2. f[x \ {Max(x)}] \in Splits
      BY Zenon, <1>3 DEF Folds
    <3>3. f[x] = step[Max(x)][f[x \ {Max(x)}]]
      BY Zenon, <1>3 DEF Folds
    <3> QED BY Zenon, <3>1, <3>2, <3>3
  <2> QED BY Zenon, <2>1, <2>2
<1>5. it = [x \in SUBSET (1 .. n) |->
              IF x = {} THEN base ELSE SplitAt(d, it[x \ {Max(x)}], s[Max(x)])]
  BY Zenon, <1>4
<1> HIDE DEF it, step
<1>6. PICK h : h = [k \in 0 .. n |-> it[1 .. k]]
  OBVIOUS
<1>7. h[0] = base
  <2>1. 1 .. 0 = {} /\ 0 \in 0 .. n /\ {} \in SUBSET (1 .. n)
    BY SMT
  <2> QED BY Zenon, <1>5, <1>6, <2>1
<1>8. \A k \in 1 .. n : h[k] = SplitAt(d, h[k - 1], s[k])
  <2> SUFFICES ASSUME NEW k \in 1 .. n PROVE h[k] = SplitAt(d, h[k - 1], s[k])
    OBVIOUS
  <2>1. /\ k - 1 \in 0 .. n /\ k \in 0 .. n
        /\ 1 .. k \in SUBSET (1 .. n) /\ 1 .. k # {}
        /\ Max(1 .. k) = k /\ (1 .. k) \ {Max(1 .. k)} = 1 .. (k - 1)
    BY Chain
  <2>2. it[1 .. k] = SplitAt(d, it[(1 .. k) \ {Max(1 .. k)}], s[Max(1 .. k)])
    BY Zenon, <1>5, <2>1
  <2>3. it[1 .. k] = SplitAt(d, it[1 .. (k - 1)], s[k])
    BY Zenon, <2>1, <2>2
  <2> QED BY Zenon, <1>6, <2>1, <2>3
<1>9. h \in [0 .. n -> Splits]
  <2>1. \A k \in 0 .. n : k \in {j \in 0 .. n : h[j] \in Splits}
    <3>1. 0 \in {j \in 0 .. n : h[j] \in Splits}
      BY <1>0, <1>7
    <3>2. ASSUME NEW k \in 1 .. n, k - 1 \in {j \in 0 .. n : h[j] \in Splits}
          PROVE  k \in {j \in 0 .. n : h[j] \in Splits}
      BY <1>8, <3>2, SplitType
    <3> QED BY <3>1, <3>2, Along
  <2> QED BY <1>6, <2>1
<1>10. StrSplit(s, d) = Tokens(h[n])
  <2>1. n \in 0 .. n
    OBVIOUS
  <2> QED BY <1>1, <1>6, <2>1
<1> QED BY <1>7, <1>8, <1>9, <1>10 DEF base, SplitRun

LEMMA StrSplitType ==
  ASSUME NEW s \in Seq(Byte), NEW d
  PROVE  StrSplit(s, d) \in Seq(Seq(Byte))
<1>1. PICK n \in Nat : s \in [1 .. n -> Byte]
  BY SeqDef
<1>2. PICK h : SplitRun(n, s, d, h)
  BY Zenon, <1>1, SplitRuns
<1>3. h[n].tokens \in Seq(Seq(Byte)) /\ h[n].rest \in Seq(Byte)
  <2>1. n \in 0 .. n
    OBVIOUS
  <2> QED BY <1>2, <2>1 DEF Splits, SplitRun
<1>4. Append(h[n].tokens, h[n].rest) \in Seq(Seq(Byte))
  BY <1>3, AppendProperties
<1> QED BY <1>2, <1>3, <1>4 DEF Tokens, SplitRun

LEMMA SplitNothing ==
  ASSUME NEW d
  PROVE  StrSplit(<<>>, d) = <<>>
<1>1. <<>> \in [1 .. 0 -> Byte] /\ 0 \in Nat
  BY SMT
<1>2. PICK h : SplitRun(0, <<>>, d, h)
  BY Zenon, <1>1, SplitRuns
<1> QED BY <1>2 DEF Tokens, SplitRun

LEMMA Appended ==
  ASSUME NEW T, NEW x \in T, NEW y \in T
  PROVE  /\ Append(<<>>, x) = <<x>> /\ <<x>> # <<>>
         /\ Append(<<x>>, y) = <<x, y>>
<1>1. /\ <<>> \in Seq(T) /\ Len(<<>>) = 0
      /\ <<x>> \in Seq(T) /\ Len(<<x>>) = 1 /\ <<x>>[1] = x
      /\ <<x, y>> \in Seq(T) /\ Len(<<x, y>>) = 2 /\ <<x, y>>[1] = x /\ <<x, y>>[2] = y
  OBVIOUS
<1>2. /\ Append(<<>>, x) \in Seq(T) /\ Len(Append(<<>>, x)) = 1
      /\ Append(<<>>, x)[1] = x
  BY <1>1, AppendProperties
<1>3. /\ Append(<<x>>, y) \in Seq(T) /\ Len(Append(<<x>>, y)) = 2
      /\ Append(<<x>>, y)[1] = x /\ Append(<<x>>, y)[2] = y
  BY <1>1, AppendProperties
<1>4. Append(<<>>, x) = <<x>>
  <2>1. \A i \in 1 .. 1 : Append(<<>>, x)[i] = <<x>>[i]
    BY <1>1, <1>2
  <2> QED BY <1>1, <1>2, <2>1, SeqEqual
<1>5. Append(<<x>>, y) = <<x, y>>
  <2>1. \A i \in 1 .. 2 : i = 1 \/ i = 2
    BY SMT
  <2>2. \A i \in 1 .. 2 : Append(<<x>>, y)[i] = <<x, y>>[i]
    BY Zenon, <1>1, <1>3, <2>1
  <2> QED BY <1>1, <1>3, <2>2, SeqEqual
<1>6. <<x>> # <<>>
  BY <1>1
<1> QED BY <1>4, <1>5, <1>6

(* Two tokens of one byte each, as in the parameters of a cursor key. *)
LEMMA SplitTwo ==
  ASSUME NEW a \in Byte, NEW d \in Byte, NEW b \in Byte, a # d, b # d
  PROVE  StrSplit(<<a, d, b>>, d) = <<<<a>>, <<b>>>>
<1> DEFINE s == <<a, d, b>>
<1>1. s \in [1 .. 3 -> Byte] /\ 3 \in Nat /\ s[1] = a /\ s[2] = d /\ s[3] = b
  BY SMT
<1> HIDE DEF s
<1>2. PICK h : SplitRun(3, s, d, h)
  BY Zenon, <1>1, SplitRuns
<1>3. h[1] = SplitAt(d, h[0], a) /\ h[2] = SplitAt(d, h[1], d) /\ h[3] = SplitAt(d, h[2], b)
  <2>1. /\ 1 \in 1 .. 3 /\ 2 \in 1 .. 3 /\ 3 \in 1 .. 3
        /\ 1 - 1 = 0 /\ 2 - 1 = 1 /\ 3 - 1 = 2
    BY SMT
  <2> QED BY <1>1, <1>2, <2>1 DEF SplitRun
<1>4. \A t, r, e : e # d =>
        SplitAt(d, [tokens |-> t, rest |-> r], e) = [tokens |-> t, rest |-> Append(r, e)]
  BY DEF SplitAt
<1>5. \A t, r : SplitAt(d, [tokens |-> t, rest |-> r], d)
                  = [tokens |-> Append(t, r), rest |-> <<>>]
  BY DEF SplitAt
<1>6. h[3] = [tokens |-> Append(<<>>, Append(<<>>, a)), rest |-> Append(<<>>, b)]
  <2>1. h[1] = [tokens |-> <<>>, rest |-> Append(<<>>, a)]
    <3>1. h[1] = SplitAt(d, [tokens |-> <<>>, rest |-> <<>>], a)
      BY Zenon, <1>2, <1>3 DEF SplitRun
    <3> QED BY Zenon, <1>4, <3>1
  <2>2. h[2] = [tokens |-> Append(<<>>, Append(<<>>, a)), rest |-> <<>>]
    <3>1. h[2] = SplitAt(d, [tokens |-> <<>>, rest |-> Append(<<>>, a)], d)
      BY Zenon, <1>3, <2>1
    <3> QED BY Zenon, <1>5, <3>1
  <2>3. h[3] = SplitAt(d, [tokens |-> Append(<<>>, Append(<<>>, a)), rest |-> <<>>], b)
    BY Zenon, <1>3, <2>2
  <2> QED BY Zenon, <1>4, <2>3
<1>7. Tokens(h[3]) = <<<<a>>, <<b>>>>
  <2>1. /\ Append(<<>>, a) = <<a>> /\ Append(<<>>, b) = <<b>> /\ <<b>> # <<>>
        /\ Append(<<>>, <<a>>) = <<<<a>>>>
    <3>1. <<a>> \in Seq(Byte)
      OBVIOUS
    <3> QED BY Zenon, <3>1, Appended
  <2>2. Append(<<<<a>>>>, <<b>>) = <<<<a>>, <<b>>>>
    <3>1. <<a>> \in Seq(Byte) /\ <<b>> \in Seq(Byte)
      OBVIOUS
    <3> QED BY Zenon, <3>1, Appended
  <2>3. h[3] = [tokens |-> <<<<a>>>>, rest |-> <<b>>]
    BY Zenon, <1>6, <2>1
  <2>4. Tokens(h[3]) = Append(<<<<a>>>>, <<b>>)
    <3>1. \A t, r : r # <<>> => Tokens([tokens |-> t, rest |-> r]) = Append(t, r)
      BY DEF Tokens
    <3> QED BY Zenon, <2>1, <2>3, <3>1
  <2> QED BY Zenon, <2>2, <2>4
<1> QED BY <1>2, <1>7 DEF s, SplitRun

-----------------------------------------------------------------------------
(* From i to e the elements of s are in S, and that of e is not, or e is   *)
(* behind the end.                                                         *)
Run(s, i, S, e) ==
  /\ e \in i .. Len(s) + 1
  /\ \A j \in i .. e - 1 : s[j] \in S
  /\ e <= Len(s) => s[e] \notin S

LEMMA RunEndIs ==
  ASSUME NEW s \in Seq(Byte), NEW i \in 1 .. Len(s) + 1, NEW S, NEW e, Run(s, i, S, e)
  PROVE  RunEnd(s, i, S) = e
<1>1. Len(s) \in Nat /\ i \in Int /\ e \in i .. Len(s) + 1
  BY LenProperties DEF Run
<1>2. e \in Int /\ i <= e /\ e <= Len(s) + 1
  BY SMT, <1>1
<1> DEFINE run == {k \in i .. Len(s) : \A j \in i .. k : s[j] \in S}
<1>3. ASSUME NEW k \in i .. e - 1 PROVE k \in run
  <2>1. k \in i .. Len(s) /\ \A j \in i .. k : j \in i .. e - 1
    BY SMT, <1>1, <1>2
  <2>2. \A j \in i .. k : s[j] \in S
    BY <2>1 DEF Run
  <2> QED BY Zenon, <2>1, <2>2
<1>4. ASSUME NEW k \in run PROVE k \in i .. e - 1
  <2> SUFFICES ASSUME k \notin i .. e - 1 PROVE FALSE
    OBVIOUS
  <2>1. k \in i .. Len(s) /\ \A j \in i .. k : s[j] \in S
    OBVIOUS
  <2>2. e \in i .. k /\ e <= Len(s)
    BY SMT, <1>1, <1>2, <2>1
  <2> QED BY Zenon, <2>1, <2>2 DEF Run
<1>5. run = i .. e - 1
  BY <1>3, <1>4
<1>6. Cardinality(i .. e - 1) = e - i
  <2>1. \A a, b \in Int : Cardinality(a .. b) = IF a > b THEN 0 ELSE b - a + 1
    BY FS_Interval
  <2>2. e - 1 \in Int
    BY SMT, <1>2
  <2>3. Cardinality(i .. e - 1) = IF i > e - 1 THEN 0 ELSE (e - 1) - i + 1
    BY Zenon, <1>1, <2>1, <2>2
  <2> QED BY SMT, <1>1, <1>2, <2>3
<1>7. RunEnd(s, i, S) = i + Cardinality(run)
  BY DEF RunEnd
<1> HIDE DEF run
<1> QED BY SMT, <1>1, <1>2, <1>5, <1>6, <1>7

LEMMA RunEndRuns ==
  ASSUME NEW s \in Seq(Byte), NEW i \in 1 .. Len(s) + 1, NEW S
  PROVE  Run(s, i, S, RunEnd(s, i, S))
<1>1. Len(s) \in Nat
  BY LenProperties
<1> DEFINE T == {k \in i .. Len(s) + 1 : k <= Len(s) => s[k] \notin S}
<1>2. T \in SUBSET Nat
  BY SMT, <1>1
<1>3. Len(s) + 1 \in T
  BY SMT, <1>1
<1>4. PICK e \in T : \A k \in T : e <= k
  BY Zenon, <1>2, <1>3, LeastOf
<1>5. e \in i .. Len(s) + 1 /\ (e <= Len(s) => s[e] \notin S)
  OBVIOUS
<1>6. ASSUME NEW j \in i .. e - 1 PROVE s[j] \in S
  <2>1. j \in i .. Len(s) + 1 /\ j <= Len(s) /\ ~(e <= j)
    BY SMT, <1>1, <1>5
  <2>2. j \notin T
    BY <1>4, <2>1
  <2> QED BY Zenon, <2>1, <2>2
<1>7. Run(s, i, S, e)
  BY Zenon, <1>5, <1>6 DEF Run
<1>8. RunEnd(s, i, S) = e
  BY Zenon, <1>7, RunEndIs
<1> QED BY Zenon, <1>7, <1>8

(* A run ends within its string, or right behind it. *)
LEMMA RunEndInRange ==
  ASSUME NEW s \in Seq(Byte), NEW i \in 1 .. Len(s) + 1, NEW S
  PROVE  RunEnd(s, i, S) \in i .. Len(s) + 1
BY RunEndRuns DEF Run

(* The sequence that begins s: where its parameters and where its          *)
(* intermediate bytes end.                                                 *)
Begins(s, introducer, i, f) ==
  /\ Len(s) >= 3 /\ s[1] = ESC /\ s[2] = introducer
  /\ i \in 3 .. Len(s) /\ f \in i .. Len(s)
  /\ Run(s, 3, PBytes, i)
  /\ Run(s, i, IBytes, f)

Sequence(s, i, f) ==
  [params |-> SubSeq(s, 3, i - 1), intermediate |-> SubSeq(s, i, f - 1),
   final |-> s[f], len |-> f]

LEMMA CSIFound ==
  ASSUME NEW s \in Seq(Byte), NEW introducer, NEW i, NEW f, Begins(s, introducer, i, f)
  PROVE  CSIParse(s, introducer) = Sequence(s, i, f)
<1>1. Len(s) \in Nat
  BY LenProperties
<1>2. /\ ~(Len(s) < 3 \/ s[1] # ESC \/ s[2] # introducer)
      /\ 3 \in 1 .. Len(s) + 1 /\ i \in 1 .. Len(s) + 1 /\ ~(f > Len(s))
  BY SMT, <1>1 DEF Begins
<1>3. RunEnd(s, 3, PBytes) = i
  BY Zenon, <1>2, RunEndIs DEF Begins
<1>4. RunEnd(s, i, IBytes) = f
  BY Zenon, <1>2, RunEndIs DEF Begins
<1> QED BY Zenon, <1>2, <1>3, <1>4 DEF CSIParse, Sequence

LEMMA CSIBegins ==
  ASSUME NEW s \in Seq(Byte), NEW introducer, CSIParse(s, introducer) # NoCSI
  PROVE  \E i, f : Begins(s, introducer, i, f)
<1>1. Len(s) \in Nat
  BY LenProperties
<1>2. ~(Len(s) < 3 \/ s[1] # ESC \/ s[2] # introducer)
  BY Zenon DEF CSIParse
<1>3. PICK i : i = RunEnd(s, 3, PBytes)
  OBVIOUS
<1>4. PICK f : f = RunEnd(s, i, IBytes)
  OBVIOUS
<1>5. ~(f > Len(s))
  BY Zenon, <1>2, <1>3, <1>4 DEF CSIParse
<1>6. 3 \in 1 .. Len(s) + 1
  BY SMT, <1>1, <1>2
<1>7. Run(s, 3, PBytes, i)
  BY Zenon, <1>3, <1>6, RunEndRuns
<1>8. i \in 3 .. Len(s) + 1
  BY <1>7 DEF Run
<1>9. i \in 1 .. Len(s) + 1
  BY SMT, <1>1, <1>8
<1>10. Run(s, i, IBytes, f)
  BY Zenon, <1>4, <1>9, RunEndRuns
<1>11. f \in i .. Len(s) + 1
  BY <1>10 DEF Run
<1>12. i \in 3 .. Len(s) /\ f \in i .. Len(s) /\ Len(s) >= 3 /\ s[1] = ESC /\ s[2] = introducer
  BY SMT, <1>1, <1>2, <1>5, <1>8, <1>11
<1> QED BY <1>7, <1>10, <1>12 DEF Begins

LEMMA SequenceFound ==
  ASSUME NEW s \in Seq(Byte), NEW introducer, NEW i, NEW f, Begins(s, introducer, i, f)
  PROVE  Sequence(s, i, f) # NoCSI /\ Sequence(s, i, f).len = f /\ f \in 3 .. Len(s)
<1>1. Len(s) \in Nat
  BY LenProperties
<1>2. f \in 3 .. Len(s)
  BY SMT, <1>1 DEF Begins
<1>3. Sequence(s, i, f).len = f
  BY DEF Sequence
<1>4. f # 0 /\ NoCSI.len = 0
  BY <1>2 DEF NoCSI
<1> QED BY <1>2, <1>3, <1>4

(* A control sequence does not go beyond the string it is found in.        *)
LEMMA CSIWithin ==
  ASSUME NEW s \in Seq(Byte), NEW introducer
  PROVE  CSIParse(s, introducer).len \in 0 .. Len(s)
<1>1. Len(s) \in Nat
  BY LenProperties
<1>2. CASE CSIParse(s, introducer) = NoCSI
  BY SMT, <1>1, <1>2 DEF NoCSI
<1>3. CASE CSIParse(s, introducer) # NoCSI
  <2>1. PICK i, f : Begins(s, introducer, i, f)
    BY <1>3, CSIBegins
  <2>2. CSIParse(s, introducer) = Sequence(s, i, f)
    BY <2>1, CSIFound
  <2>3. Sequence(s, i, f).len = f /\ f \in 3 .. Len(s)
    BY <2>1, SequenceFound
  <2>4. CSIParse(s, introducer).len = f
    BY Zenon, <2>2, <2>3
  <2> QED BY SMT, <1>1, <2>3, <2>4
<1> QED BY <1>2, <1>3

(* What follows a sequence does not change it. *)
LEMMA CSISame ==
  ASSUME NEW s \in Seq(Byte), NEW t \in Seq(Byte), NEW introducer,
         CSIParse(s, introducer) # NoCSI,
         Len(t) >= CSIParse(s, introducer).len,
         \A j \in 1 .. CSIParse(s, introducer).len : t[j] = s[j]
  PROVE  CSIParse(t, introducer) = CSIParse(s, introducer)
<1>1. Len(s) \in Nat /\ Len(t) \in Nat
  BY LenProperties
<1>2. PICK i, f : Begins(s, introducer, i, f)
  BY CSIBegins
<1>3. /\ CSIParse(s, introducer) = Sequence(s, i, f)
      /\ CSIParse(s, introducer).len = f /\ f \in 3 .. Len(s)
  <2>1. CSIParse(s, introducer) = Sequence(s, i, f)
    BY <1>2, CSIFound
  <2>2. Sequence(s, i, f).len = f /\ f \in 3 .. Len(s)
    BY <1>2, SequenceFound
  <2> QED BY Zenon, <2>1, <2>2
<1>4. Len(t) >= f /\ \A j \in 1 .. f : t[j] = s[j]
  BY <1>3
<1>5. i \in 3 .. f /\ f \in 3 .. Len(t)
  BY SMT, <1>1, <1>2, <1>3, <1>4 DEF Begins
<1>6. /\ 1 \in 1 .. f /\ 2 \in 1 .. f /\ i \in 1 .. f /\ f \in 1 .. f
      /\ \A j \in 3 .. i - 1 : j \in 1 .. f
      /\ \A j \in i .. f - 1 : j \in 1 .. f
      /\ i <= Len(s) /\ f <= Len(s)
      /\ i \in 3 .. Len(t) /\ f \in i .. Len(t) /\ Len(t) >= 3
      /\ i \in 3 .. Len(t) + 1 /\ f \in i .. Len(t) + 1
  BY SMT, <1>1, <1>3, <1>5
<1>7. Begins(t, introducer, i, f)
  <2>1. /\ s[1] = ESC /\ s[2] = introducer
        /\ Run(s, 3, PBytes, i) /\ Run(s, i, IBytes, f)
    BY <1>2 DEF Begins
  <2>2. t[1] = ESC /\ t[2] = introducer
    BY <1>4, <1>6, <2>1
  <2>3. Run(t, 3, PBytes, i)
    BY Zenon, <1>4, <1>6, <2>1 DEF Run
  <2>4. Run(t, i, IBytes, f)
    BY Zenon, <1>4, <1>6, <2>1 DEF Run
  <2> QED BY Zenon, <1>6, <2>2, <2>3, <2>4 DEF Begins
<1>8. SubSeq(t, 3, i - 1) = SubSeq(s, 3, i - 1)
  BY <1>4, <1>5, <1>6
<1>9. SubSeq(t, i, f - 1) = SubSeq(s, i, f - 1)
  BY <1>4, <1>5, <1>6
<1>10. Sequence(t, i, f) = Sequence(s, i, f)
  <2>1. t[f] = s[f]
    BY <1>4, <1>6
  <2> QED BY Zenon, <1>8, <1>9, <2>1 DEF Sequence
<1>11. CSIParse(t, introducer) = Sequence(t, i, f)
  BY <1>7, CSIFound
<1> QED BY Zenon, <1>3, <1>10, <1>11

LEMMA CSIParams ==
  ASSUME NEW s \in Seq(Byte), NEW introducer
  PROVE  CSIParse(s, introducer).params \in Seq(Byte)
<1>1. Len(s) \in Nat
  BY LenProperties
<1>2. CASE CSIParse(s, introducer) = NoCSI
  BY <1>2, EmptySeq DEF NoCSI
<1>3. CASE CSIParse(s, introducer) # NoCSI
  <2>1. PICK i, f : Begins(s, introducer, i, f)
    BY <1>3, CSIBegins
  <2>2. CSIParse(s, introducer).params = SubSeq(s, 3, i - 1)
    BY <2>1, CSIFound DEF Sequence
  <2>3. i \in 3 .. Len(s)
    BY <2>1 DEF Begins
  <2>4. SubSeq(s, 3, i - 1) \in Seq(Byte)
    <3>1. 3 \in Int /\ i - 1 \in Int /\ \A j \in 3 .. i - 1 : j \in 1 .. Len(s)
      BY SMT, <1>1, <2>3
    <3>2. \A j \in 3 .. i - 1 : s[j] \in Byte
      BY <3>1, ElementOfSeq
    <3> QED BY <3>1, <3>2, SubSeqProperties
  <2> QED BY <2>2, <2>4
<1> QED BY <1>2, <1>3
=============================================================================
