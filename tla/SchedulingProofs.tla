--------------------------- MODULE SchedulingProofs ---------------------------
(***************************************************************************)
(* Proofs about Scheduling and Analysis, for any number of processes, any  *)
(* bursts and arrivals that fit a word, and any quantum.                   *)
(*                                                                         *)
(* The program's part of the invariant, PInv, says how the array is loaded *)
(* (LoadInv) and what is left at the end (EndInv).  While a scheduler runs *)
(* (RunInv), its queues hold processes with distinct numbers, those that   *)
(* have not ended, and the clock counts what they have run (QueuesInv);    *)
(* and round_robin's ready queue has room for all (RoomInv), so that no    *)
(* push_back fails.  The slices of round_robin (RrInv): the longer a       *)
(* process has waited the nearer it is to the front (TurnsInv).  The sums  *)
(* of the result, where they cannot wrap (CountInv), are those of the      *)
(* processes that have begun and ended.                                    *)
(*                                                                         *)
(* A step of a scheduler is first brought to a form that all four share:   *)
(* Progress(e, n, ends), in which the process e runs for n ticks.          *)
(*                                                                         *)
(* That the shortest comes first is best: in any schedule the shortest of  *)
(* those that can run can be exchanged for whoever runs now, and nobody    *)
(* ends later in all (ShortestIsBest).  So, while such a scheduler runs    *)
(* (BestInv), what has ended and the best that can be done with the rest   *)
(* add up to the best of all (OptimumInv).                                 *)
(***************************************************************************)
EXTENDS Analysis, SequenceTheorems, WellFoundedInduction, TLAPS

-----------------------------------------------------------------------------
(* Sums.                                                                   *)

\* What holds of 0, and of each number up to n if it does of the one before.
LEMMA CountingUp ==
    ASSUME NEW n \in Nat, NEW T, 0 \in T,
           \A m \in 1 .. n : m - 1 \in T => m \in T
    PROVE  \A m \in 0 .. n : m \in T
  <1> DEFINE Less == {ss \in Nat \X Nat : ss[1] < ss[2]}
             Bad  == {m \in 0 .. n : m \notin T}
  <1> SUFFICES ASSUME Bad # {} PROVE FALSE
    OBVIOUS
  <1>1. OpToRel(<, Nat) = Less
    BY Zenon DEF OpToRel
  <1>2. IsWellFoundedOn(Less, Nat)
    BY <1>1, NatLessThanWellFounded
  <1>3. Bad \subseteq Nat
    OBVIOUS
  <1>4. PICK m \in Bad : \A k \in Bad : ~ (<<k, m>> \in Less)
    BY <1>2, <1>3, WFMin
  <1>5. m \in 1 .. n
    OBVIOUS
  <1>6. m - 1 \in Bad
    BY <1>5
  <1>7. <<m - 1, m>> \in Less
    BY <1>5
  <1> QED BY <1>4, <1>6, <1>7

\* A set of numbers up to n that is not empty has a greatest member.
LEMMA GreatestExists ==
    ASSUME NEW n \in Nat, NEW S, S \subseteq 1 .. n, S # {}
    PROVE  \E k \in S : \A j \in S : j <= k
  <1> DEFINE T == {m \in 0 .. n : (\E k \in S : k <= m) =>
                                    \E k \in S : k <= m /\ \A j \in S : j <= m => j <= k}
  <1>1. 0 \in T
    OBVIOUS
  <1>2. ASSUME NEW m \in 1 .. n, m - 1 \in T PROVE m \in T
    <2>1. CASE m \in S
      BY <2>1
    <2>2. CASE m \notin S
      <3>1. \A j \in S : j <= m => j <= m - 1
        BY <2>2
      <3> QED BY <3>1, <1>2
    <2> QED BY <2>1, <2>2
  <1> HIDE DEF T
  <1>3. n \in T
    <2>1. \A m \in 0 .. n : m \in T
      BY <1>1, <1>2, CountingUp
    <2> QED BY <2>1
  <1>4. PICK k \in S : k <= n /\ \A j \in S : j <= n => j <= k
    <2>0. PICK i : i \in S
      OBVIOUS
    <2>1. \E k \in S : k <= n
      BY <2>0
    <2> QED BY <1>3, <2>1 DEF T
  <1>5. \A j \in S : j <= n
    OBVIOUS
  <1> QED BY <1>4, <1>5

Sums(f, sum) ==
    /\ sum \in [0 .. Len(f) -> Int]
    /\ sum[0] = 0
    /\ \A n \in 1 .. Len(f) : sum[n] = sum[n - 1] + f[n]

LEMMA SumsExist ==
    ASSUME NEW f \in Seq(Int)
    PROVE  \E sum : Sums(f, sum)
  <1> DEFINE N == Len(f)
             Upto(n, g) == /\ g \in [0 .. n -> Int]
                           /\ g[0] = 0
                           /\ \A m \in 1 .. n : g[m] = g[m - 1] + f[m]
             T == {n \in 0 .. N : \E g : Upto(n, g)}
  <1>0. N \in Nat /\ f \in [1 .. N -> Int]
    OBVIOUS
  <1>1. 0 \in T
    <2>1. Upto(0, [m \in 0 .. 0 |-> 0])
      OBVIOUS
    <2>2. \E g : Upto(0, g)
      BY <2>1
    <2>3. 0 \in 0 .. N
      BY <1>0
    <2> QED BY <2>2, <2>3
  <1>2. ASSUME NEW n \in 1 .. N, n - 1 \in T PROVE n \in T
    <2>1. PICK g : Upto(n - 1, g)
      BY <1>2
    <2> DEFINE h == [m \in 0 .. n |-> IF m = n THEN g[n - 1] + f[n] ELSE g[m]]
    <2>2. f[n] \in Int /\ n - 1 \in 0 .. n - 1 /\ 0 \in 0 .. n - 1
      BY <1>0
    <2>3. h \in [0 .. n -> Int] /\ h[0] = 0
      BY <2>1, <2>2, <1>0
    <2>4. ASSUME NEW m \in 1 .. n PROVE h[m] = h[m - 1] + f[m]
      <3>1. CASE m = n
        BY <3>1, <2>2
      <3>2. CASE m # n
        <4>1. m \in 1 .. n - 1 /\ m - 1 \in 0 .. n /\ m - 1 # n
          BY <3>2
        <4> QED BY <4>1, <2>1
      <3> QED BY <3>1, <3>2
    <2>5. \E k : Upto(n, k)
      <3> HIDE DEF h
      <3>1. Upto(n, h)
        BY <2>3, <2>4
      <3> QED BY <3>1
    <2>6. n \in 0 .. N
      BY <1>0
    <2> HIDE DEF Upto
    <2> QED BY <2>5, <2>6
  <1> HIDE DEF T
  <1>3. \A n \in 0 .. N : n \in T
    BY <1>0, <1>1, <1>2, CountingUp
  <1>4. N \in T
    BY <1>0, <1>3
  <1> QED BY <1>4 DEF T, Sums

LEMMA SumOfIs ==
    ASSUME NEW f \in Seq(Int), NEW sum, Sums(f, sum)
    PROVE  SumOf(f) = sum[Len(f)]
  <1> DEFINE N == Len(f)
             Rec(g) == g = [n \in 0 .. N |-> IF n = 0 THEN 0 ELSE g[n - 1] + f[n]]
  <1>0. N \in Nat /\ f \in [1 .. N -> Int]
    OBVIOUS
  <1>1. Rec(sum)
    BY <1>0 DEF Sums
  <1>2. Rec(CHOOSE g : Rec(g))
    BY <1>1
  <1> DEFINE other == CHOOSE g : Rec(g)
             T == {n \in 0 .. N : other[n] = sum[n]}
  <1>3. SumOf(f) = other[N]
    BY DEF SumOf
  <1> HIDE DEF other
  <1>4. 0 \in T
    <2>0. 0 \in 0 .. N
      BY <1>0
    <2>1. other[0] = 0
      BY <2>0, <1>2 DEF other
    <2> QED BY <2>1, <1>0 DEF Sums
  <1>5. ASSUME NEW n \in 1 .. N, n - 1 \in T PROVE n \in T
    <2>0. n \in 0 .. N /\ n # 0
      BY <1>0
    <2>1. other[n] = other[n - 1] + f[n]
      BY <1>2, <2>0 DEF other
    <2>2. sum[n] = sum[n - 1] + f[n]
      BY DEF Sums
    <2> QED BY <2>1, <2>2, <1>5
  <1> HIDE DEF T
  <1>6. \A n \in 0 .. N : n \in T
    BY <1>0, <1>4, <1>5, CountingUp
  <1> QED BY <1>0, <1>3, <1>6 DEF T

LEMMA SumIsInt ==
    ASSUME NEW f \in Seq(Int)
    PROVE  SumOf(f) \in Int
  <1>1. PICK sum : Sums(f, sum)
    BY SumsExist
  <1>2. sum[Len(f)] \in Int
    BY <1>1 DEF Sums
  <1> QED BY <1>1, <1>2, SumOfIs

LEMMA SumOfSmaller ==
    ASSUME NEW f \in Seq(Int), NEW g \in Seq(Int), Len(f) = Len(g),
           \A i \in 1 .. Len(f) : f[i] <= g[i]
    PROVE  SumOf(f) <= SumOf(g)
  <1>1. PICK a : Sums(f, a)
    BY SumsExist
  <1>2. PICK b : Sums(g, b)
    BY SumsExist
  <1> DEFINE N == Len(f)
             T == {n \in 0 .. N : a[n] <= b[n]}
  <1>0. N \in Nat /\ f \in [1 .. N -> Int] /\ g \in [1 .. N -> Int]
    OBVIOUS
  <1>3. 0 \in T
    BY <1>0, <1>1, <1>2 DEF Sums
  <1>4. ASSUME NEW n \in 1 .. N, n - 1 \in T PROVE n \in T
    <2>0. n - 1 \in 0 .. N
      BY <1>0
    <2>1. /\ a[n] = a[n - 1] + f[n] /\ b[n] = b[n - 1] + g[n]
          /\ a[n - 1] \in Int /\ b[n - 1] \in Int /\ f[n] \in Int /\ g[n] \in Int
      BY <2>0, <1>0, <1>1, <1>2 DEF Sums
    <2> QED BY <2>1, <1>4
  <1> HIDE DEF T
  <1>5. \A n \in 0 .. N : n \in T
    BY <1>0, <1>3, <1>4, CountingUp
  <1>6. a[N] <= b[N]
    BY <1>0, <1>5 DEF T
  <1> QED BY <1>6, <1>1, <1>2, SumOfIs

LEMMA SumOfZeros ==
    ASSUME NEW f \in Seq(Int), \A i \in 1 .. Len(f) : f[i] = 0
    PROVE  SumOf(f) = 0
  <1> DEFINE zeros == [n \in 0 .. Len(f) |-> 0]
  <1>1. Sums(f, zeros)
    BY DEF Sums
  <1>2. zeros[Len(f)] = 0
    OBVIOUS
  <1> QED BY <1>1, <1>2, SumOfIs

\* A sum of which one term changes.
LEMMA SumOfChanged ==
    ASSUME NEW f \in Seq(Int), NEW g \in Seq(Int), Len(f) = Len(g),
           NEW id \in 1 .. Len(f), \A i \in 1 .. Len(f) : i # id => g[i] = f[i]
    PROVE  SumOf(g) = SumOf(f) + (g[id] - f[id])
  <1>1. PICK a : Sums(f, a)
    BY SumsExist
  <1>2. PICK b : Sums(g, b)
    BY SumsExist
  <1> DEFINE N == Len(f)
             more == g[id] - f[id]
             T == {n \in 0 .. N : b[n] = a[n] + (IF n >= id THEN more ELSE 0)}
  <1>0. /\ N \in Nat /\ f \in [1 .. N -> Int] /\ g \in [1 .. N -> Int]
        /\ id \in 1 .. N /\ more \in Int
    OBVIOUS
  <1>3. 0 \in T
    BY <1>0, <1>1, <1>2 DEF Sums
  <1>4. ASSUME NEW n \in 1 .. N, n - 1 \in T PROVE n \in T
    <2>0. n - 1 \in 0 .. N
      BY <1>0
    <2>1. /\ a[n] = a[n - 1] + f[n] /\ b[n] = b[n - 1] + g[n]
          /\ a[n - 1] \in Int /\ b[n - 1] \in Int /\ f[n] \in Int /\ g[n] \in Int
      BY <2>0, <1>0, <1>1, <1>2 DEF Sums
    <2>2. CASE n = id
      BY <2>1, <2>2, <1>4, <1>0
    <2>3. CASE n # id
      <3>1. n >= id <=> n - 1 >= id
        BY <2>3, <1>0
      <3>2. g[n] = f[n]
        BY <2>3, <1>0
      <3>3. b[n - 1] = a[n - 1] + (IF n - 1 >= id THEN more ELSE 0)
        BY <1>4
      <3>4. b[n] = a[n] + (IF n >= id THEN more ELSE 0)
        <4>1. b[n] = b[n - 1] + f[n] /\ a[n] = a[n - 1] + f[n]
          BY <2>1, <3>2
        <4>2. CASE n >= id
          <5>1. b[n - 1] = a[n - 1] + more
            BY <3>1, <3>3, <4>2
          <5>2. b[n] = a[n] + more
            <6> HIDE DEF more
            <6> QED BY <2>1, <4>1, <5>1, <1>0
          <5> QED BY <4>2, <5>2
        <4>3. CASE ~ (n >= id)
          <5>1. b[n - 1] = a[n - 1]
            BY <2>1, <3>1, <3>3, <4>3
          <5>2. b[n] = a[n]
            BY <2>1, <4>1, <5>1
          <5> QED BY <2>1, <4>3, <5>2
        <4> QED BY <4>2, <4>3
      <3> QED BY <3>4, <1>0
    <2> QED BY <2>2, <2>3
  <1>5. N \in T
    <2> HIDE DEF T
    <2>1. \A n \in 0 .. N : n \in T
      BY <1>0, <1>3, <1>4, CountingUp
    <2> QED BY <1>0, <2>1
  <1>6. b[N] = a[N] + more
    BY <1>0, <1>5
  <1> QED BY <1>6, <1>1, <1>2, SumOfIs

-----------------------------------------------------------------------------
(* Remainders.                                                             *)

LEMMA ModIn ==
    ASSUME NEW w \in Nat \ {0}, NEW a \in Int
    PROVE  a % w \in 0 .. w - 1
  OBVIOUS

LEMMA DivMod ==
    ASSUME NEW w \in Nat \ {0}, NEW a \in Int
    PROVE  a \div w \in Int /\ a = w * (a \div w) + (a % w)
  OBVIOUS

LEMMA SameRest ==
    ASSUME NEW w \in Nat \ {0}, NEW p \in Int, NEW r \in 0 .. w - 1, NEW s \in 0 .. w - 1,
           NEW k \in Int, w * p + r = w * k + s
    PROVE  r = s
  <1>1. w * (p - k) = s - r
    OBVIOUS
  <1>2. CASE p - k >= 1
    <2>1. w * (p - k) >= w
      BY <1>2
    <2> QED BY <1>1, <2>1
  <1>3. CASE p - k <= -1
    <2>1. w * (p - k) <= -w
      BY <1>3
    <2> QED BY <1>1, <2>1
  <1> QED BY <1>1, <1>2, <1>3

LEMMA ModOf ==
    ASSUME NEW w \in Nat \ {0}, NEW p \in Int, NEW r \in 0 .. w - 1
    PROVE  (w * p + r) % w = r
  <1>1. w * p + r \in Int
    OBVIOUS
  <1>2. PICK a \in Int : a = w * p + r
    BY <1>1
  <1>3. a % w \in 0 .. w - 1 /\ a \div w \in Int /\ a = w * (a \div w) + (a % w)
    BY ModIn, DivMod
  <1> QED BY <1>2, <1>3, SameRest

LEMMA ModSmall ==
    ASSUME NEW w \in Nat \ {0}, NEW a \in 0 .. w - 1
    PROVE  a % w = a
  OBVIOUS

LEMMA ModMinus ==
    ASSUME NEW w \in Nat \ {0}
    PROVE  (0 - 1) % w = w - 1
  OBVIOUS

LEMMA ModAdd ==
    ASSUME NEW w \in Nat \ {0}, NEW a \in Int, NEW b \in Int
    PROVE  ((a % w) + b) % w = (a + b) % w
  <1>1. PICK m \in 0 .. w - 1, k \in Int : m = a % w /\ k = a \div w /\ a = w * k + m
    BY DivMod, ModIn
  <1>2. PICK c \in Int : c = m + b
    OBVIOUS
  <1>3. PICK r \in 0 .. w - 1, p \in Int : r = c % w /\ c = w * p + r
    BY DivMod, ModIn
  <1>6. k + p \in Int
    OBVIOUS
  <1>4. a + b = w * (k + p) + r
    <2>1. w * (k + p) = w * k + w * p
      OBVIOUS
    <2>2. PICK x \in Int, y \in Int : x = w * k /\ y = w * p
      OBVIOUS
    <2>3. a = x + m /\ m + b = y + r
      BY <2>2, <1>1, <1>2, <1>3
    <2>4. a + b = x + y + r
      BY <2>3
    <2> QED BY <2>1, <2>2, <2>4
  <1>5. (w * (k + p) + r) % w = r
    BY <1>6, ModOf
  <1> QED BY <1>1, <1>2, <1>3, <1>4, <1>5

-----------------------------------------------------------------------------
(* Arrays.                                                                 *)

ArrayOf(S) == [capacity : Nat, items : Seq(S)]

LEMMA Removed ==
    ASSUME NEW S, NEW s \in Seq(S), NEW k \in 1 .. Len(s)
    PROVE  /\ RemoveAt(s, k) \in Seq(S)
           /\ Len(RemoveAt(s, k)) = Len(s) - 1
           /\ \A j \in 1 .. k - 1 : RemoveAt(s, k)[j] = s[j]
           /\ \A j \in k .. Len(s) - 1 : RemoveAt(s, k)[j] = s[j + 1]
  <1> DEFINE a == SubSeq(s, 1, k - 1)
             b == SubSeq(s, k + 1, Len(s))
  <1>0. Len(s) \in Nat /\ \A j \in 1 .. Len(s) : s[j] \in S
    OBVIOUS
  <1>1. /\ a \in Seq(S) /\ Len(a) = k - 1
        /\ \A j \in 1 .. k - 1 : a[j] = s[j]
    <2>1. \A j \in 1 .. k - 1 : s[j] \in S
      BY <1>0
    <2>2. 1 \in Int /\ k - 1 \in Int
      OBVIOUS
    <2> QED BY <2>1, <2>2, SubSeqProperties
  <1>2. /\ b \in Seq(S) /\ Len(b) = Len(s) - k
        /\ \A j \in 1 .. Len(s) - k : b[j] = s[k + j]
    <2>1. \A j \in k + 1 .. Len(s) : s[j] \in S
      BY <1>0
    <2>2. k + 1 \in Int /\ Len(s) \in Int
      BY <1>0
    <2>3. /\ b \in Seq(S)
          /\ Len(b) = IF k + 1 <= Len(s) THEN Len(s) - (k + 1) + 1 ELSE 0
          /\ \A j \in 1 .. Len(s) - (k + 1) + 1 : b[j] = s[(k + 1) + j - 1]
      BY <2>1, <2>2, SubSeqProperties
    <2> QED BY <2>3, <1>0
  <1>3. RemoveAt(s, k) = a \o b
    BY DEF RemoveAt
  <1> HIDE DEF a, b
  <1>4. /\ a \o b \in Seq(S) /\ Len(a \o b) = Len(s) - 1
        /\ \A j \in 1 .. Len(s) - 1 : (a \o b)[j] = IF j <= k - 1 THEN a[j] ELSE b[j - (k - 1)]
    <2>1. /\ a \o b \in Seq(S)
          /\ Len(a \o b) = Len(a) + Len(b)
          /\ \A j \in 1 .. Len(a) + Len(b) : (a \o b)[j] =
                       IF j <= Len(a) THEN a[j] ELSE b[j - Len(a)]
      BY <1>1, <1>2, ConcatProperties
    <2>2. Len(a) + Len(b) = Len(s) - 1
      BY <1>0, <1>1, <1>2
    <2> QED BY <2>1, <2>2, <1>1
  <1>5. ASSUME NEW j \in 1 .. k - 1 PROVE RemoveAt(s, k)[j] = s[j]
    BY <1>0, <1>1, <1>3, <1>4
  <1>6. ASSUME NEW j \in k .. Len(s) - 1 PROVE RemoveAt(s, k)[j] = s[j + 1]
    <2>1. j \in 1 .. Len(s) - 1 /\ ~ (j <= k - 1) /\ j - (k - 1) \in 1 .. Len(s) - k
      BY <1>0
    <2>2. RemoveAt(s, k)[j] = b[j - (k - 1)]
      BY <2>1, <1>3, <1>4
    <2>3. b[j - (k - 1)] = s[k + (j - (k - 1))]
      BY <2>1, <1>2
    <2>4. k + (j - (k - 1)) = j + 1
      BY <1>0
    <2> QED BY <2>2, <2>3, <2>4
  <1> QED BY <1>3, <1>4, <1>5, <1>6

LEMMA InsertedLast ==
    ASSUME NEW S, NEW s \in Seq(S), NEW e \in S
    PROVE  InsertAt(s, Len(s) + 1, e) = Append(s, e)
  <1> DEFINE N == Len(s)
  <1>0. N \in Nat
    OBVIOUS
  <1>1. SubSeq(s, 1, (N + 1) - 1) = s
    <2>1. (N + 1) - 1 = N
      BY <1>0
    <2> QED BY <2>1, SubSeqFull
  <1>2. SubSeq(s, N + 1, N) = <<>>
    <2>1. N + 1 \in Int /\ N \in Int /\ N < N + 1
      BY <1>0
    <2> QED BY <2>1, SubSeqEmpty
  <1>3. s \o <<e>> = Append(s, e) /\ Append(s, e) \in Seq(S)
    BY AppendIsConcat, AppendProperties
  <1>4. Append(s, e) \o <<>> = Append(s, e)
    BY <1>3, ConcatEmptySeq
  <1>5. InsertAt(s, N + 1, e) = SubSeq(s, 1, (N + 1) - 1) \o <<e>> \o SubSeq(s, N + 1, N)
    BY Zenon DEF InsertAt
  <1>6. InsertAt(s, N + 1, e) = (s \o <<e>>) \o <<>>
    BY <1>1, <1>2, <1>5, Zenon
  <1> QED BY <1>3, <1>4, <1>6, Zenon

LEMMA CreatedArray ==
    ASSUME NEW n \in Nat, NEW arr \in dyn_array_create(n), arr # NULL
    PROVE  /\ arr.items = <<>>
           /\ arr.capacity \in Nat /\ arr.capacity >= n /\ arr.capacity > 0
           /\ \A S : arr \in ArrayOf(S)
  <1>1. PICK c \in Capacities(MinCapacity, n) : arr = Array(c, <<>>)
    BY DEF dyn_array_create, Created
  <1>2. c \in Nat /\ n <= c /\ MinCapacity <= c
    BY <1>1, CapacityAssumption DEF Capacities, IsDoubled
  <1> QED BY <1>1, <1>2, CapacityAssumption DEF Array, ArrayOf

LEMMA PushedBack ==
    ASSUME NEW S, NEW arr \in ArrayOf(S), NEW item \in S,
           NEW pushed \in dyn_array_push_back(arr, item)
    PROVE  /\ \/ pushed.ok = TRUE /\ pushed.array.items = Append(arr.items, item)
                 /\ pushed.array.capacity > 0
              \/ pushed.ok = FALSE /\ pushed.array = arr
           /\ pushed.array \in ArrayOf(S)
           /\ arr.capacity > Len(arr.items) =>
                pushed.ok = TRUE /\ pushed.array.capacity = arr.capacity
  <1>0. arr.items \in Seq(S) /\ arr.capacity \in Nat /\ Len(arr.items) \in Nat
    BY DEF ArrayOf
  <1>1. PICK roomy \in dyn_request_size_increase(arr) :
          pushed = IF roomy = NULL THEN Outcome(FALSE, arr)
                   ELSE Outcome(TRUE, [roomy EXCEPT !.items =
                                         InsertAt(@, Len(arr.items) + 1, item)])
    BY DEF dyn_array_push_back, dyn_shift_insert, dyn_array_size
  <1>2. CASE roomy = NULL
    <2>1. ~ (arr.capacity > Len(arr.items))
      <3> SUFFICES ASSUME arr.capacity > Len(arr.items) PROVE FALSE
        OBVIOUS
      <3>1. roomy = arr
        BY <1>0 DEF dyn_request_size_increase, dyn_array_size
      <3>2. arr.capacity = 0
        BY <3>1, <1>2 DEF NULL, Array
      <3> QED BY <3>2, <1>0
    <2> QED BY <1>1, <1>2, <2>1 DEF Outcome
  <1>3. CASE roomy # NULL
    <2>1. /\ roomy \in ArrayOf(S) /\ roomy.items = arr.items /\ roomy.capacity > 0
          /\ arr.capacity > Len(arr.items) => roomy.capacity = arr.capacity
      <3>1. CASE arr.capacity >= Len(arr.items) + 1
        <4>1. roomy = arr
          BY <3>1 DEF dyn_request_size_increase, dyn_array_size
        <4> QED BY <4>1, <3>1, <1>0 DEF ArrayOf
      <3>2. CASE ~ (arr.capacity >= Len(arr.items) + 1)
        <4>1. PICK c \in Capacities(2 * arr.capacity, Len(arr.items) + 1) :
                roomy = [arr EXCEPT !.capacity = c]
          BY <3>2, <1>3 DEF dyn_request_size_increase, dyn_array_size
        <4>2. c \in Nat /\ c > 0
          <5>1. c \in 2 * arr.capacity .. 2 * (2 * arr.capacity + (Len(arr.items) + 1))
            BY <4>1 DEF Capacities
          <5>2. Len(arr.items) + 1 <= c
            BY <4>1, Zenon DEF Capacities, IsDoubled
          <5> QED BY <5>1, <5>2, <1>0
        <4> QED BY <4>1, <4>2, <3>2, <1>0 DEF ArrayOf
      <3> QED BY <3>1, <3>2
    <2>2. InsertAt(roomy.items, Len(arr.items) + 1, item) = Append(arr.items, item)
      BY <2>1, <1>0, InsertedLast
    <2>3. Append(arr.items, item) \in Seq(S)
      BY <1>0, AppendProperties
    <2>4. /\ pushed.ok = TRUE
          /\ pushed.array = [roomy EXCEPT !.items = Append(arr.items, item)]
      BY <1>1, <1>3, <2>2 DEF Outcome
    <2> QED BY <2>1, <2>3, <2>4 DEF ArrayOf
  <1> QED BY <1>2, <1>3

-----------------------------------------------------------------------------
(* Types.                                                                  *)

PcbType == [id : Nat, remaining : 0 .. Word - 1, arrival : 0 .. Word - 1, started : BOOLEAN]
Pcbs == ArrayOf(PcbType)

Loading == {"main", "records", "dispatch"}
Called == {"running", "returned", "dead", "refused"}

TypeInv ==
    /\ alg \in Algorithms \cup {"none", "other"} /\ quantum \in Nat
    /\ array \in Seq(Jobs) /\ pcbs \in Pcbs /\ ready \in Pcbs
    /\ t \in Nat /\ q \in Nat /\ waiting \in Int /\ turnaround \in Int
    /\ pc \in Loading \cup Called \cup {"unusable", "exit"}
    /\ n_pcbs \in Nat /\ fd \in BOOLEAN /\ wellformed \in BOOLEAN
    /\ pc \in Called => alg \in Algorithms
    /\ alg \in Algorithms => exit \in [Procs -> Int] /\ starving \in [Procs -> Nat]

LEMMA WordIsNat == Word \in Nat /\ Word > 0 /\ 0 \in 0 .. Word - 1
  BY WordAssumption

LEMMA NullIsArray == NULL \in Pcbs /\ NULL.items = <<>> /\ NULL.capacity = 0
  BY DEF NULL, Array, Pcbs, ArrayOf

LEMMA ProcsUpto == TypeInv => Len(array) \in Nat /\ Procs = 1 .. Len(array)
  BY DEF TypeInv, Procs

LEMMA JobTypes ==
    ASSUME TypeInv, NEW i \in Procs
    PROVE  array[i].burst \in 0 .. Word - 1 /\ array[i].arrival \in 0 .. Word - 1
  <1>1. array[i] \in Jobs
    BY DEF TypeInv, Procs
  <1> QED BY <1>1, InputAssumption

LEMMA PcbTypes ==
    ASSUME NEW s \in Seq(PcbType), NEW k \in 1 .. Len(s)
    PROVE  s[k] \in PcbType
  OBVIOUS

LEMMA ClockIsNat ==
    ASSUME NEW n \in Nat
    PROVE  Clock(n) \in Nat
  <1>1. n % Word \in Nat
    BY WordAssumption, ModIn
  <1> QED BY <1>1 DEF Clock

\* A tick of the CPU: a burst of 0 wraps.
LEMMA Ticked ==
    ASSUME NEW pcb \in PcbType
    PROVE  /\ virtual_cpu(pcb) \in PcbType
           /\ virtual_cpu(pcb).id = pcb.id
           /\ virtual_cpu(pcb).arrival = pcb.arrival
           /\ virtual_cpu(pcb).started = pcb.started
           /\ virtual_cpu(pcb).remaining =
                IF pcb.remaining = 0 THEN Word - 1 ELSE pcb.remaining - 1
  <1>1. pcb.remaining \in 0 .. Word - 1
    BY DEF PcbType
  <1>2. (pcb.remaining - 1) % Word = IF pcb.remaining = 0 THEN Word - 1 ELSE pcb.remaining - 1
    <2>1. CASE pcb.remaining = 0
      BY <2>1, ModMinus, WordAssumption
    <2>2. CASE pcb.remaining # 0
      <3>1. pcb.remaining - 1 \in 0 .. Word - 1
        BY <1>1, <2>2, WordAssumption
      <3> QED BY <3>1, <2>2, ModSmall, WordAssumption
    <2> QED BY <2>1, <2>2
  <1>3. (pcb.remaining - 1) % Word \in 0 .. Word - 1
    BY <1>1, <1>2, WordAssumption
  <1> QED BY <1>2, <1>3 DEF virtual_cpu, PcbType

LEMMA StartedIsPcb ==
    ASSUME NEW pcb \in PcbType, NEW b \in BOOLEAN
    PROVE  /\ [pcb EXCEPT !.started = b] \in PcbType
           /\ [pcb EXCEPT !.started = b].id = pcb.id
           /\ [pcb EXCEPT !.started = b].arrival = pcb.arrival
           /\ [pcb EXCEPT !.started = b].remaining = pcb.remaining
           /\ [pcb EXCEPT !.started = b].started = b
  BY DEF PcbType

LEMMA TurnaroundIsInt ==
    ASSUME NEW now \in Int, NEW pcb \in PcbType
    PROVE  Turnaround(now, pcb) \in Int
  <1>1. now - pcb.arrival \in Int
    BY DEF PcbType
  <1>2. (now - pcb.arrival) % Word \in Int
    BY <1>1, ModIn, WordAssumption
  <1> QED BY <1>2, WordAssumption DEF Turnaround

LEMMA RunsTypes ==
    ASSUME TypeInv, alg \in Algorithms, NEW id \in Nat, NEW n \in Nat, NEW ends \in BOOLEAN,
           Runs(id, n, ends), UNCHANGED array
    PROVE  /\ t' \in Nat
           /\ exit' \in [Procs' -> Int] /\ starving' \in [Procs' -> Nat]
  <1>1. Later(n) \in Nat
    <2>1. t + n \in Nat
      BY DEF TypeInv
    <2> QED BY <2>1, ClockIsNat DEF Later
  <1>2. Procs' = Procs
    BY DEF Procs
  <1>3. t' \in Nat
    BY <1>1 DEF Runs
  <1>4. exit' \in [Procs -> Int]
    <2>1. exit \in [Procs -> Int]
      BY DEF TypeInv
    <2>2. exit' = [exit EXCEPT ![id] = IF ends THEN Later(n) ELSE @]
      BY DEF Runs
    <2>3. exit' = [i \in Procs |-> IF i = id /\ ends THEN Later(n) ELSE exit[i]]
      BY <2>1, <2>2
    <2> QED BY <2>1, <2>3, <1>1
  <1>5. starving' \in [Procs -> Nat]
    <2>1. starving \in [Procs -> Nat]
      BY DEF TypeInv
    <2>2. starving' = [i \in Procs |-> IF i \in Waiters(id) THEN starving[i] + n ELSE 0]
      BY DEF Runs
    <2> QED BY <2>1, <2>2
  <1> QED BY <1>2, <1>3, <1>4, <1>5

-----------------------------------------------------------------------------
(* Arrays of process control blocks.                                       *)

LEMMA PcbsItems ==
    ASSUME NEW arr \in Pcbs
    PROVE  /\ arr.items \in Seq(PcbType) /\ Len(arr.items) \in Nat
           /\ \A k \in 1 .. Len(arr.items) : arr.items[k] \in PcbType
           /\ DOMAIN arr.items = 1 .. Len(arr.items)
           /\ arr.capacity \in Nat
           /\ dyn_array_size(arr) = Len(arr.items)
           /\ \A k : dyn_array_at(arr, k) = arr.items[k]
  BY DEF Pcbs, ArrayOf, dyn_array_size, dyn_array_at

LEMMA RemovedAt ==
    ASSUME NEW arr \in Pcbs, NEW k \in 1 .. Len(arr.items)
    PROVE  /\ dyn_shift_remove(arr, k) \in Pcbs
           /\ dyn_shift_remove(arr, k).items = RemoveAt(arr.items, k)
           /\ dyn_shift_remove(arr, k).capacity = arr.capacity
  <1>1. k \in DOMAIN arr.items /\ arr.items \in Seq(PcbType)
    BY PcbsItems
  <1>2. RemoveAt(arr.items, k) \in Seq(PcbType)
    BY <1>1, Removed
  <1>3. dyn_shift_remove(arr, k) = [arr EXCEPT !.items = RemoveAt(arr.items, k)]
    BY <1>1 DEF dyn_shift_remove
  <1> QED BY <1>2, <1>3 DEF Pcbs, ArrayOf

LEMMA Replaced ==
    ASSUME NEW arr \in Pcbs, NEW k \in 1 .. Len(arr.items), NEW e \in PcbType
    PROVE  /\ [arr EXCEPT !.items[k] = e] \in Pcbs
           /\ [arr EXCEPT !.items[k] = e].items = [arr.items EXCEPT ![k] = e]
           /\ [arr EXCEPT !.items[k] = e].capacity = arr.capacity
           /\ Len([arr.items EXCEPT ![k] = e]) = Len(arr.items)
           /\ [arr.items EXCEPT ![k] = e][k] = e
           /\ \A j \in 1 .. Len(arr.items) : j # k => [arr.items EXCEPT ![k] = e][j] = arr.items[j]
  <1>1. /\ [arr.items EXCEPT ![k] = e] \in Seq(PcbType)
        /\ Len([arr.items EXCEPT ![k] = e]) = Len(arr.items)
        /\ [arr.items EXCEPT ![k] = e][k] = e
        /\ \A j \in 1 .. Len(arr.items) : j # k => [arr.items EXCEPT ![k] = e][j] = arr.items[j]
    BY PcbsItems
  <1> QED BY <1>1 DEF Pcbs, ArrayOf

LEMMA Pushed ==
    ASSUME NEW arr \in Pcbs, NEW item \in PcbType,
           NEW pushed \in dyn_array_push_back(arr, item)
    PROVE  /\ \/ pushed.ok = TRUE /\ pushed.array.items = Append(arr.items, item)
                 /\ pushed.array.capacity > 0
              \/ pushed.ok = FALSE /\ pushed.array = arr
           /\ pushed.array \in Pcbs
           /\ arr.capacity > Len(arr.items) =>
                pushed.ok = TRUE /\ pushed.array.capacity = arr.capacity
  BY PushedBack DEF Pcbs

-----------------------------------------------------------------------------
(* The tick of round_robin.                                                *)

\* What becomes of the ready queue.
TailOf(s, r) == Len(r) = Len(s) - 1 /\ \A j \in 1 .. Len(s) - 1 : r[j] = s[j + 1]
Rotated(s, r, e) ==
    Len(r) = Len(s) /\ r[Len(s)] = e /\ \A j \in 1 .. Len(s) - 1 : r[j] = s[j + 1]
HeadSet(s, r, e) == Len(r) = Len(s) /\ r[1] = e /\ \A j \in 2 .. Len(s) : r[j] = s[j]

\* The process that ran, before and after; the slice.
RrRan(pcb, ran) ==
    /\ pcb \in PcbType /\ ran \in PcbType
    /\ ran.id = pcb.id /\ ran.arrival = pcb.arrival
    /\ ran.started = (pcb.started \/ q = 0)
    /\ ran.remaining = IF pcb.remaining = 0 THEN Word - 1 ELSE pcb.remaining - 1

RrQueue(ran, slice) ==
    \/ /\ ran.remaining = 0
       /\ TailOf(ready.items, ready'.items)
       /\ ready'.capacity = ready.capacity
    \/ /\ ran.remaining # 0 /\ slice >= quantum
       /\ \/ /\ Rotated(ready.items, ready'.items, ran)
             /\ ready.capacity >= Len(ready.items) => ready'.capacity = ready.capacity
          \/ /\ TailOf(ready.items, ready'.items)
             /\ ready.capacity < Len(ready.items)
    \/ /\ ran.remaining # 0 /\ slice < quantum
       /\ HeadSet(ready.items, ready'.items, ran)
       /\ ready'.capacity = ready.capacity

RrSums(pcb, ran) ==
    LET flow == IF ran.remaining = 0 THEN Turnaround(Later(1), pcb) ELSE 0
    IN  /\ waiting' = waiting - BurstOnStart(pcb, q = 0 /\ ~pcb.started) + flow
        /\ turnaround' = turnaround + flow

RrTicked(pcb, ran, slice) ==
    /\ Len(ready.items) > 0 /\ pcb = ready.items[1]
    /\ RrRan(pcb, ran)
    /\ slice = (q + 1) % Word
    /\ RrSums(pcb, ran)
    /\ ready' \in Pcbs /\ RrQueue(ran, slice)
    /\ q' = IF ran.remaining = 0 \/ slice >= quantum THEN 0 ELSE slice
    /\ Runs(pcb.id, 1, ran.remaining = 0)
    /\ UNCHANGED <<call, pcbs, pc>>

LEMMA TailIs ==
    ASSUME NEW arr \in Pcbs, Len(arr.items) > 0
    PROVE  /\ dyn_shift_remove(arr, 1) \in Pcbs
           /\ dyn_shift_remove(arr, 1).capacity = arr.capacity
           /\ TailOf(arr.items, dyn_shift_remove(arr, 1).items)
  <1>0. Len(arr.items) \in Nat /\ 1 \in 1 .. Len(arr.items) /\ arr.items \in Seq(PcbType)
    BY PcbsItems
  <1>1. /\ dyn_shift_remove(arr, 1) \in Pcbs
        /\ dyn_shift_remove(arr, 1).items = RemoveAt(arr.items, 1)
        /\ dyn_shift_remove(arr, 1).capacity = arr.capacity
    BY <1>0, RemovedAt
  <1>2. /\ Len(RemoveAt(arr.items, 1)) = Len(arr.items) - 1
        /\ \A j \in 1 .. Len(arr.items) - 1 : RemoveAt(arr.items, 1)[j] = arr.items[j + 1]
    BY <1>0, Removed
  <1> QED BY <1>1, <1>2 DEF TailOf

LEMMA RrTicks ==
    ASSUME TypeInv, RrTick, Len(ready.items) > 0
    PROVE  \E pcb, ran, slice : RrTicked(pcb, ran, slice)
  <1> DEFINE pcb == ready.items[1]
             fresh == q = 0 /\ ~pcb.started
             begun == [pcb EXCEPT !.started = @ \/ fresh]
             ran == virtual_cpu(begun)
             queue == [ready EXCEPT !.items[1] = ran]
             slice == (q + 1) % Word
             n == Len(ready.items)
  <1>0. /\ ready \in Pcbs /\ ready.items \in Seq(PcbType)
        /\ n \in Nat /\ n > 0 /\ 1 \in 1 .. n /\ pcb \in PcbType
        /\ dyn_array_size(ready) = n
    <2>1. ready \in Pcbs
      BY DEF TypeInv
    <2> QED BY <2>1, PcbsItems
  <1>1. dyn_array_front(ready) = pcb
    BY <1>0 DEF dyn_array_front
  <1>2. RrRan(pcb, ran)
    <2>1. pcb.started \in BOOLEAN /\ (pcb.started \/ fresh) \in BOOLEAN
      BY <1>0 DEF PcbType
    <2>2. begun = [pcb EXCEPT !.started = (pcb.started \/ fresh)]
      BY <1>0 DEF PcbType
    <2>3. /\ begun \in PcbType /\ begun.id = pcb.id /\ begun.arrival = pcb.arrival
          /\ begun.remaining = pcb.remaining /\ begun.started = (pcb.started \/ fresh)
      <3> HIDE DEF fresh, pcb
      <3> QED BY <1>0, <2>1, <2>2, StartedIsPcb
    <2>4. /\ ran \in PcbType /\ ran.id = begun.id /\ ran.arrival = begun.arrival
          /\ ran.started = begun.started
          /\ ran.remaining = IF begun.remaining = 0 THEN Word - 1 ELSE begun.remaining - 1
      <3> HIDE DEF begun
      <3> QED BY <2>3, Ticked
    <2>5. begun.started = (pcb.started \/ q = 0)
      BY <2>3, <2>1
    <2> HIDE DEF begun, ran, pcb
    <2> QED BY <1>0, <2>3, <2>4, <2>5 DEF RrRan
  <1>3. /\ waiting' = waiting - BurstOnStart(pcb, fresh)
                        + (IF ran.remaining = 0 THEN Turnaround(Later(1), pcb) ELSE 0)
        /\ turnaround' = turnaround + (IF ran.remaining = 0 THEN Turnaround(Later(1), pcb) ELSE 0)
        /\ ready' \in IF ran.remaining = 0 THEN {dyn_array_pop_front(queue)}
                     ELSE IF slice >= quantum THEN Requeued(queue) ELSE {queue}
        /\ q' = IF ran.remaining = 0 \/ slice >= quantum THEN 0 ELSE slice
        /\ Runs(pcb.id, 1, ran.remaining = 0)
        /\ UNCHANGED <<call, pcbs, pc>>
    BY <1>0, <1>1 DEF RrTick
  <1>4. ran \in PcbType
    BY <1>2 DEF RrRan
  <1> HIDE DEF ran
  <1>5. /\ queue \in Pcbs /\ queue.items = [ready.items EXCEPT ![1] = ran]
        /\ queue.capacity = ready.capacity
        /\ Len(queue.items) = n /\ queue.items[1] = ran
        /\ \A j \in 2 .. n : queue.items[j] = ready.items[j]
    <2>1. /\ queue \in Pcbs /\ queue.items = [ready.items EXCEPT ![1] = ran]
          /\ queue.capacity = ready.capacity
          /\ Len([ready.items EXCEPT ![1] = ran]) = n
          /\ [ready.items EXCEPT ![1] = ran][1] = ran
          /\ \A j \in 1 .. n : j # 1 => [ready.items EXCEPT ![1] = ran][j] = ready.items[j]
      BY <1>0, <1>4, Replaced
    <2> QED BY <2>1
  <1> HIDE DEF queue
  <1>6. /\ dyn_shift_remove(queue, 1) \in Pcbs
        /\ dyn_shift_remove(queue, 1).capacity = ready.capacity
        /\ TailOf(ready.items, dyn_shift_remove(queue, 1).items)
    <2>1. /\ dyn_shift_remove(queue, 1) \in Pcbs
          /\ dyn_shift_remove(queue, 1).capacity = queue.capacity
          /\ TailOf(queue.items, dyn_shift_remove(queue, 1).items)
      BY <1>0, <1>5, TailIs
    <2> QED BY <2>1, <1>0, <1>5 DEF TailOf
  <1>7. ready' \in Pcbs /\ RrQueue(ran, slice)
    <2>0. slice \in Nat /\ quantum \in Nat
      BY ModIn, WordAssumption DEF TypeInv
    <2> HIDE DEF slice
    <2>1. CASE ran.remaining = 0
      <3>1. ready' = dyn_shift_remove(queue, 1)
        BY <2>1, <1>3 DEF dyn_array_pop_front
      <3> QED BY <2>1, <3>1, <1>6 DEF RrQueue
    <2>2. CASE ran.remaining # 0 /\ slice >= quantum
      <3>1. PICK pushed \in dyn_array_push_back(dyn_shift_remove(queue, 1), ran) :
              ready' = pushed.array
        <4>1. dyn_array_front(queue) = ran
          BY <1>5 DEF dyn_array_front
        <4>2. ready' \in Requeued(queue)
          BY <2>2, <1>3
        <4> QED BY <4>1, <4>2 DEF Requeued, dyn_array_extract_front
      <3> DEFINE rest == dyn_shift_remove(queue, 1)
      <3>2. /\ \/ pushed.ok = TRUE /\ pushed.array.items = Append(rest.items, ran)
               \/ pushed.ok = FALSE /\ pushed.array = rest
            /\ pushed.array \in Pcbs
            /\ rest.capacity > Len(rest.items) =>
                 pushed.ok = TRUE /\ pushed.array.capacity = rest.capacity
        BY <1>6, <1>4, Pushed
      <3>3. /\ Len(rest.items) = n - 1 /\ rest.capacity = ready.capacity
            /\ \A j \in 1 .. n - 1 : rest.items[j] = ready.items[j + 1]
            /\ rest.items \in Seq(PcbType) /\ rest.capacity \in Nat
        BY <1>6, PcbsItems DEF TailOf
      <3> HIDE DEF rest
      <3>4. ready.capacity >= n => pushed.ok = TRUE /\ pushed.array.capacity = ready.capacity
        BY <3>2, <3>3, <1>0
      <3>5. ASSUME pushed.ok = TRUE PROVE Rotated(ready.items, ready'.items, ran)
        <4>1. ready'.items = Append(rest.items, ran)
          BY <3>1, <3>2, <3>5
        <4>2. /\ Len(Append(rest.items, ran)) = n
              /\ \A j \in 1 .. n - 1 : Append(rest.items, ran)[j] = rest.items[j]
              /\ Append(rest.items, ran)[n] = ran
          BY <3>3, <1>4, <1>0, AppendProperties
        <4> QED BY <4>1, <4>2, <3>3 DEF Rotated
      <3>6. CASE pushed.ok = TRUE
        BY <2>2, <3>1, <3>2, <3>4, <3>5, <3>6 DEF RrQueue
      <3>7. CASE pushed.ok = FALSE
        <4>1. TailOf(ready.items, ready'.items)
          BY <3>7, <3>1, <3>2, <3>3 DEF TailOf
        <4>2. ready.capacity < n
          BY <3>7, <3>4, <3>3, <1>0
        <4> QED BY <2>2, <3>1, <3>2, <4>1, <4>2 DEF RrQueue
      <3> QED BY <3>2, <3>6, <3>7
    <2>3. CASE ran.remaining # 0 /\ ~ (slice >= quantum)
      <3>1. ready' = queue /\ slice < quantum
        BY <2>3, <2>0, <1>3
      <3> QED BY <2>3, <3>1, <1>5 DEF RrQueue, HeadSet
    <2> QED BY <2>1, <2>2, <2>3
  <1>8. RrSums(pcb, ran)
    BY <1>3 DEF RrSums
  <1>9. RrTicked(pcb, ran, slice)
    <2> HIDE DEF fresh, pcb
    <2>1. Len(ready.items) > 0 /\ pcb = ready.items[1]
      BY DEF pcb
    <2> HIDE DEF slice
    <2>2. slice = (q + 1) % Word
      BY DEF slice
    <2> QED BY <2>1, <2>2, <1>2, <1>3, <1>7, <1>8 DEF RrTicked
  <1> QED BY <1>9

-----------------------------------------------------------------------------
(* The program around the schedulers.                                      *)

\* The array as it is loaded.
Loaded(k) == [id |-> k, remaining |-> array[k].burst, arrival |-> array[k].arrival,
              started |-> FALSE]

LoadInv ==
    /\ pc \in Loading => /\ alg = "none" /\ ready = NULL
                         /\ t = 0 /\ q = 0 /\ waiting = 0 /\ turnaround = 0
    /\ pc = "main" => array = <<>> /\ pcbs = NULL /\ ~fd
    /\ pc \in {"records", "dispatch"} =>
         /\ Len(pcbs.items) = Len(array)
         /\ \A k \in Procs : pcbs.items[k] = Loaded(k)

FreedInv == pc = "exit" => pcbs = NULL /\ ready = NULL /\ (fd => alg # "none")

EndInv ==
    /\ pc \in {"running", "returned"} \/ (pc = "exit" /\ code = 0) => wellformed
    /\ pc \in {"records", "dispatch"} /\ ~wellformed => array = <<>>
    /\ pc \in {"returned", "refused", "unusable"} \/ (pc = "running" /\ alg # "RR") =>
         ready = NULL /\ alg # "none"
    /\ FreedInv

PInv == TypeInv /\ LoadInv /\ EndInv

LEMMA StartsP == Init => PInv
  <1> SUFFICES ASSUME Init PROVE PInv
    OBVIOUS
  <1>1. <<>> \in Seq(Jobs)
    OBVIOUS
  <1>2. TypeInv
    <2>1. array \in Seq(Jobs) /\ pcbs \in Pcbs /\ ready \in Pcbs
      BY <1>1, NullIsArray DEF Init
    <2>2. alg \notin Algorithms /\ pc \notin Called
      BY DEF Init, Algorithms, Called
    <2>3. /\ t \in Nat /\ q \in Nat /\ waiting \in Int /\ turnaround \in Int
          /\ n_pcbs \in Nat /\ quantum \in Nat
      BY DEF Init
    <2>4. fd \in BOOLEAN /\ wellformed \in BOOLEAN
      BY DEF Init
    <2>5. /\ alg \in Algorithms \cup {"none", "other"}
          /\ pc \in Loading \cup Called \cup {"unusable", "exit"}
      BY DEF Init, Loading
    <2> QED BY <2>1, <2>2, <2>3, <2>4, <2>5 DEF TypeInv
  <1> QED BY <1>2 DEF Init, PInv, LoadInv, EndInv, Loading, FreedInv

LEMMA FailsP ==
    ASSUME PInv, pc \in {"main", "records"}, LoadFails, wellformed' \in BOOLEAN
    PROVE  PInv'
  <1>1. TypeInv'
    BY NullIsArray DEF PInv, TypeInv, Loading, Called, Algorithms, LoadFails, Exit, schedule,
       dyn_array_destroy, EXIT_FAILURE, LoadInv, Procs
  <1>2. LoadInv' /\ EndInv'
    BY DEF PInv, LoadInv, EndInv, LoadFails, Exit, EXIT_FAILURE, schedule, dyn_array_destroy,
       FreedInv, Loading
  <1> QED BY <1>1, <1>2 DEF PInv

LEMMA GivesUpP == ASSUME PInv, MainGivesUp PROVE PInv'
  <1>1. TypeInv'
    BY DEF PInv, TypeInv, Loading, Called, Algorithms, MainGivesUp, Exit, schedule, load,
       EXIT_FAILURE, LoadInv, Procs
  <1>2. LoadInv' /\ EndInv'
    BY DEF PInv, LoadInv, EndInv, MainGivesUp, Exit, EXIT_FAILURE, schedule, load,
       FreedInv, Loading
  <1> QED BY <1>1, <1>2 DEF PInv

LEMMA HeaderP == ASSUME PInv, ReadHeader PROVE PInv'
  <1>1. CASE LoadFails
    BY <1>1, FailsP DEF ReadHeader
  <1>2. CASE ~LoadFails
    <2>0. PICK n \in Counts : \E arr \in dyn_array_create(n) :
            /\ n_pcbs' = n /\ arr # NULL /\ pcbs' = arr /\ fd' = TRUE /\ pc' = "records"
            /\ UNCHANGED <<schedule, array, code>>
      BY <1>2, Zenon DEF ReadHeader
    <2>1. PICK arr \in dyn_array_create(n) :
            /\ n_pcbs' = n /\ arr # NULL /\ pcbs' = arr /\ fd' = TRUE /\ pc' = "records"
            /\ UNCHANGED <<schedule, array, code>>
      BY <2>0
    <2>2. pc = "main" /\ wellformed' \in BOOLEAN
      BY DEF ReadHeader
    <2>3. n \in Nat
      BY InputAssumption
    <2>4. pcbs' \in Pcbs /\ pcbs'.items = <<>>
      BY <2>1, <2>3, CreatedArray DEF Pcbs
    <2>5. array = <<>> /\ Procs = {}
      BY <2>2 DEF PInv, LoadInv, Procs
    <2>6. TypeInv'
      BY <2>1, <2>2, <2>3, <2>4 DEF PInv, TypeInv, Loading, Called, Algorithms, schedule,
         LoadInv, Procs
    <2>7. LoadInv' /\ EndInv'
      <3>1. Procs' = {} /\ Len(array') = 0 /\ Len(pcbs'.items) = 0
        BY <2>1, <2>4, <2>5 DEF Procs, schedule
      <3> QED BY <2>1, <2>2, <2>5, <3>1 DEF PInv, LoadInv, EndInv, schedule,
                 FreedInv, Loading
    <2> QED BY <2>6, <2>7 DEF PInv
  <1> QED BY <1>1, <1>2

LEMMA LoadsP ==
    ASSUME PInv, pc = "records", n_pcbs > 0, wellformed, UNCHANGED wellformed,
           NEW job \in Jobs, LoadPcb(job)
    PROVE  PInv'
  <1>1. PICK pushed \in dyn_array_push_back(pcbs, Pcb(job)) :
          IF pushed.ok
          THEN /\ pcbs' = pushed.array
               /\ array' = Append(array, job)
               /\ n_pcbs' = n_pcbs - 1
               /\ UNCHANGED <<schedule, fd, pc, code>>
          ELSE LoadFails
    BY DEF LoadPcb
  <1>2. CASE LoadFails
    BY <1>2, FailsP DEF PInv, TypeInv
  <1>3. CASE ~LoadFails
    <2>0. pcbs \in Pcbs /\ array \in Seq(Jobs) /\ Len(array) \in Nat
      BY DEF PInv, TypeInv
    <2>1. Pcb(job) \in PcbType
      <3>1. job.burst \in 0 .. Word - 1 /\ job.arrival \in 0 .. Word - 1
        BY InputAssumption
      <3> QED BY <3>1, <2>0 DEF Pcb, PcbType
    <2>2. /\ pushed.ok = TRUE
          /\ pushed.array.items = Append(pcbs.items, Pcb(job)) /\ pushed.array \in Pcbs
      BY <1>1, <1>3, <2>0, <2>1, Pushed
    <2>3. /\ pcbs' \in Pcbs /\ pcbs'.items = Append(pcbs.items, Pcb(job))
          /\ array' = Append(array, job) /\ n_pcbs' = n_pcbs - 1
          /\ UNCHANGED <<schedule, fd, pc, code>>
      BY <1>1, <2>2
    <2>4. /\ array' \in Seq(Jobs) /\ Len(array') = Len(array) + 1
          /\ \A k \in 1 .. Len(array) : array'[k] = array[k]
          /\ array'[Len(array) + 1] = job
      BY <2>0, <2>3, AppendProperties
    <2>5. /\ Len(pcbs'.items) = Len(pcbs.items) + 1
          /\ \A k \in 1 .. Len(pcbs.items) : pcbs'.items[k] = pcbs.items[k]
          /\ pcbs'.items[Len(pcbs.items) + 1] = Pcb(job)
      BY <2>0, <2>1, <2>3, PcbsItems, AppendProperties
    <2>6. TypeInv'
      BY <2>3, <2>4 DEF PInv, TypeInv, Loading, Called, Algorithms, schedule, LoadInv
    <2>7. LoadInv'
      <3>1. /\ Len(pcbs.items) = Len(array)
            /\ \A k \in Procs : pcbs.items[k] = Loaded(k)
        BY DEF PInv, LoadInv
      <3>2. ASSUME NEW k \in Procs' PROVE pcbs'.items[k] = Loaded(k)'
        <4>1. CASE k \in Procs
          BY <4>1, <3>1, <2>4, <2>5 DEF Loaded, Procs
        <4>2. CASE k \notin Procs
          <5>1. k = Len(array) + 1
            BY <4>2, <2>0, <2>4 DEF Procs
          <5> QED BY <5>1, <3>1, <2>4, <2>5 DEF Loaded, Pcb
        <4> QED BY <4>1, <4>2
      <3> QED BY <2>3, <2>4, <2>5, <3>1, <3>2 DEF PInv, LoadInv, schedule, Loading
    <2>8. EndInv'
      BY <2>3 DEF PInv, EndInv, FreedInv, schedule
    <2> QED BY <2>6, <2>7, <2>8 DEF PInv
  <1> QED BY <1>2, <1>3

LEMMA ReadEndP == ASSUME PInv, ReadEnd PROVE PInv'
  <1>1. TypeInv'
    BY DEF PInv, TypeInv, Loading, Called, Algorithms, ReadEnd, schedule, load, Procs
  <1>2. LoadInv' /\ EndInv'
    BY DEF PInv, LoadInv, EndInv, ReadEnd, schedule, load, FreedInv, Loading, Procs,
       Loaded
  <1> QED BY <1>1, <1>2 DEF PInv

LEMMA QuantumIsNat == ASSUME NEW n \in Quanta PROVE Quantum(n) \in Nat
  <1>1. n \in Int /\ -Word <= 2 * n
    BY InputAssumption
  <1>2. Word * Word \in Nat /\ Word * Word >= Word
    BY WordAssumption
  <1>3. PICK size \in Nat : size = Word * Word /\ size >= Word
    BY <1>2
  <1>4. n < 0 => size + n \in Nat
    BY <1>1, <1>3, WordAssumption
  <1> QED BY <1>1, <1>3, <1>4 DEF Quantum, SIZE_T

\* What the begin of a call does.
LEMMA BeginsP ==
    ASSUME PInv, pc = "dispatch", NEW a \in Algorithms, NEW n \in Nat, Begin(a, n),
           UNCHANGED <<load, code>>
    PROVE  /\ PInv'
           /\ pc' = "running" =>
                /\ Len(array) > 0
                /\ a = "RR" => ready'.capacity >= Len(array) /\ ready'.items = <<>> /\ n > 0
  <1>0. /\ pcbs \in Pcbs /\ ready = NULL /\ Len(pcbs.items) = Len(array) /\ Len(array) \in Nat
        /\ dyn_array_size(pcbs) = Len(pcbs.items)
    BY PcbsItems DEF PInv, TypeInv, LoadInv, Loading
  <1>1. PICK queue \in IF a = "RR" THEN dyn_array_create(dyn_array_size(pcbs)) ELSE {ready} :
          IF dyn_array_size(pcbs) = 0 \/ (a = "RR" /\ (n = 0 \/ queue = NULL))
          THEN pc' = "refused" /\ UNCHANGED ready
          ELSE pc' = "running" /\ ready' = queue
    BY DEF Begin
  <1>2. a = "RR" /\ queue # NULL =>
          queue \in Pcbs /\ queue.items = <<>> /\ queue.capacity >= Len(array)
    BY <1>0, <1>1, CreatedArray DEF Pcbs
  <1>3. /\ alg' = a /\ quantum' = n /\ array' = array /\ pcbs' = pcbs
        /\ t' = t /\ q' = q /\ waiting' = waiting /\ turnaround' = turnaround
        /\ n_pcbs' = n_pcbs /\ fd' = fd /\ wellformed' = wellformed /\ code' = code
    BY DEF Begin, clock, sums, load
  <1>4. exit' \in [Procs' -> Int] /\ starving' \in [Procs' -> Nat]
    <2>1. Procs' = Procs
      BY <1>3 DEF Procs
    <2>2. \A i \in Procs : array[i].arrival \in Int
      BY JobTypes DEF PInv
    <2>3. exit' = [i \in Procs |-> IF a \in {"SJF", "SRTF"} /\ array[i].burst = 0
                                   THEN array[i].arrival ELSE NEVER]
      BY DEF Begin
    <2>4. starving' = [i \in Procs |-> 0]
      BY DEF Begin
    <2> QED BY <2>1, <2>2, <2>3, <2>4 DEF NEVER
  <1>5. /\ pc' \in {"running", "refused"} /\ ready' \in Pcbs
        /\ pc' = "refused" \/ a # "RR" => ready' = NULL
        /\ pc' = "running" => Len(array) > 0
        /\ pc' = "running" /\ a = "RR" =>
             ready'.capacity >= Len(array) /\ ready'.items = <<>> /\ n > 0
    BY <1>0, <1>1, <1>2, NullIsArray
  <1>6. TypeInv'
    BY <1>3, <1>4, <1>5 DEF PInv, TypeInv, Loading, Called
  <1>7. LoadInv' /\ EndInv'
    <2>1. ~wellformed => Len(array) = 0
      BY DEF PInv, EndInv
    <2> QED BY <1>3, <1>5, <2>1 DEF PInv, LoadInv, EndInv, Loading, Algorithms,
               FreedInv
  <1> QED BY <1>5, <1>6, <1>7 DEF PInv

LEMMA DispatchFailsP == ASSUME PInv, DispatchFails PROVE PInv'
  <1>1. TypeInv'
    BY DEF PInv, TypeInv, Loading, Called, Algorithms, DispatchFails, clock, sums, ghosts, load,
       Procs
  <1>2. LoadInv' /\ EndInv'
    BY DEF PInv, LoadInv, EndInv, DispatchFails, clock, sums, ghosts, load, FreedInv,
       Loading
  <1> QED BY <1>1, <1>2 DEF PInv

LEMMA MainEndsP == ASSUME PInv, MainEnds PROVE PInv'
  <1>1. code' \in Int /\ (code' = 0 => pc = "returned")
    BY DEF MainEnds, Exit
  <1>2. TypeInv'
    BY NullIsArray DEF PInv, TypeInv, Loading, Called, Algorithms, MainEnds, Exit, schedule,
       load, dyn_array_destroy, Procs
  <1>3. LoadInv' /\ EndInv'
    BY <1>1 DEF PInv, LoadInv, EndInv, MainEnds, Exit, schedule, load, dyn_array_destroy,
       FreedInv, Loading
  <1> QED BY <1>2, <1>3 DEF PInv

-----------------------------------------------------------------------------
(* What each step of a scheduler does to the types.                        *)

LEMMA RunningTypes ==
    ASSUME TypeInv, pc = "running"
    PROVE  /\ pcbs \in Pcbs /\ ready \in Pcbs /\ alg \in Algorithms
           /\ exit \in [Procs -> Int] /\ starving \in [Procs -> Nat]
           /\ Len(array) \in Nat /\ Procs = 1 .. Len(array)
  BY DEF TypeInv, Called, Procs

\* A step of a scheduler keeps the program's own invariant when it keeps the types.
LEMMA ScheduledP ==
    ASSUME PInv, pc = "running", UNCHANGED <<alg, array, load, code>>, TypeInv',
           \/ pc' \in {"running", "dead"} /\ (alg # "RR" => UNCHANGED ready)
           \/ pc' = "returned" /\ ready' = NULL
    PROVE  PInv'
  <1>1. LoadInv'
    BY DEF LoadInv, Loading
  <1>2. EndInv'
    BY DEF PInv, TypeInv, Called, Algorithms, EndInv, load, FreedInv
  <1> QED BY <1>1, <1>2 DEF PInv

\* A step of first_come_first_serve: the last process, pcb, runs to its end.
FcfsRuns(k, pcb) ==
    /\ k \in 1 .. Len(pcbs.items) /\ pcb = pcbs.items[k] /\ pcb \in PcbType
    /\ pcbs' \in Pcbs /\ pcbs'.items = RemoveAt(pcbs.items, k)
    /\ waiting' = waiting + t /\ turnaround' = turnaround + t'
    /\ Runs(pcb.id, pcb.remaining, TRUE)
    /\ UNCHANGED <<call, ready, q, pc>>

LEMMA FcfsSteps ==
    ASSUME TypeInv, FcfsProcess
    PROVE  \E k, pcb : FcfsRuns(k, pcb)
  <1> DEFINE k == Len(pcbs.items)
             pcb == pcbs.items[k]
  <1>0. pc = "running" /\ pcbs \in Pcbs
    BY RunningTypes DEF FcfsProcess, Running
  <1>1. k \in 1 .. k /\ dyn_array_size(pcbs) = k
    BY <1>0, PcbsItems DEF FcfsProcess
  <1>2. pcb \in PcbType /\ dyn_array_back(pcbs) = pcb
    BY <1>0, <1>1, PcbsItems DEF dyn_array_back, Last
  <1>3. /\ pcbs' = dyn_shift_remove(pcbs, k)
        /\ waiting' = waiting + t /\ turnaround' = turnaround + t'
        /\ Runs(pcb.id, pcb.remaining, TRUE)
        /\ UNCHANGED <<call, ready, q, pc>>
    BY <1>1, <1>2 DEF FcfsProcess, dyn_array_extract_back
  <1>4. pcbs' \in Pcbs /\ pcbs'.items = RemoveAt(pcbs.items, k)
    BY <1>0, <1>1, <1>3, RemovedAt
  <1>5. FcfsRuns(k, pcb)
    BY <1>1, <1>2, <1>3, <1>4 DEF FcfsRuns
  <1> QED BY <1>5

LEMMA FcfsProcessT == ASSUME PInv, FcfsProcess, UNCHANGED <<load, code>> PROVE PInv'
  <1>0. pc = "running" /\ alg = "FCFS" /\ TypeInv
    BY DEF FcfsProcess, Running, PInv
  <1>1. PICK k, pcb : FcfsRuns(k, pcb)
    BY <1>0, FcfsSteps
  <1>2. pcb.id \in Nat /\ pcb.remaining \in Nat
    BY <1>1, WordIsNat DEF FcfsRuns, PcbType
  <1>3. t' \in Nat /\ exit' \in [Procs' -> Int] /\ starving' \in [Procs' -> Nat]
    BY <1>0, <1>1, <1>2, RunningTypes, RunsTypes DEF FcfsRuns, call
  <1>4. TypeInv'
    BY <1>0, <1>1, <1>3 DEF FcfsRuns, TypeInv, call, load
  <1> QED BY <1>0, <1>1, <1>4, ScheduledP DEF FcfsRuns, call

LEMMA FcfsReturnsT == ASSUME PInv, FcfsReturns, UNCHANGED <<load, code>> PROVE PInv'
  <1>1. pc = "running" /\ alg = "FCFS" /\ TypeInv
    BY DEF FcfsReturns, Running, PInv
  <1>2. /\ UNCHANGED <<call, pcbs, ready, clock, sums, ghosts>> /\ pc' = "returned"
        /\ Procs' = Procs
    BY DEF FcfsReturns, call, Procs
  <1>3. TypeInv'
    BY <1>1, <1>2 DEF TypeInv, call, clock, sums, ghosts, load, Called
  <1>4. ready = NULL
    BY <1>1 DEF PInv, EndInv
  <1> QED BY <1>1, <1>2, <1>3, <1>4, ScheduledP DEF call

LEMMA ShortestReturnsT == ASSUME PInv, ShortestReturns, UNCHANGED <<load, code>> PROVE PInv'
  <1>1. pc = "running" /\ alg # "RR" /\ TypeInv
    BY DEF ShortestReturns, Running, PInv
  <1>2. /\ UNCHANGED <<call, pcbs, ready, clock, sums, ghosts>> /\ pc' = "returned"
        /\ Procs' = Procs
    BY DEF ShortestReturns, call, Procs
  <1>3. TypeInv'
    BY <1>1, <1>2 DEF TypeInv, call, clock, sums, ghosts, load, Called
  <1>4. ready = NULL
    BY <1>1 DEF PInv, EndInv
  <1> QED BY <1>1, <1>2, <1>3, <1>4, ScheduledP DEF call

LEMMA RrReturnsT == ASSUME PInv, RrReturns, UNCHANGED <<load, code>> PROVE PInv'
  <1>1. pc = "running" /\ alg = "RR" /\ TypeInv
    BY DEF RrReturns, Running, PInv
  <1>2. /\ UNCHANGED <<call, pcbs, clock, sums, ghosts>> /\ pc' = "returned" /\ ready' = NULL
        /\ Procs' = Procs
    BY DEF RrReturns, call, Procs, dyn_array_destroy
  <1>3. TypeInv'
    BY <1>1, <1>2, NullIsArray DEF TypeInv, call, clock, sums, ghosts, load, Called
  <1> QED BY <1>1, <1>2, <1>3, ScheduledP DEF call

\* A process that shortest_job_first has run.
Finished(pcb) == [pcb EXCEPT !.remaining = 0, !.started = TRUE]

\* A step of shortest_job_first: process k, pcb, runs to its end.
SjfRuns(k, pcb) ==
    /\ k \in 1 .. Len(pcbs.items) /\ pcb = pcbs.items[k] /\ pcb \in PcbType
    /\ find_shortest_burst(k)
    /\ Finished(pcb) \in PcbType
    /\ pcbs' = [pcbs EXCEPT !.items[k] = Finished(pcb)]
    /\ waiting' = waiting + (t - pcb.arrival)
    /\ turnaround' = turnaround + (t - pcb.arrival) + pcb.remaining
    /\ Runs(pcb.id, pcb.remaining, TRUE)
    /\ UNCHANGED <<call, ready, q, pc>>

LEMMA SjfSteps ==
    ASSUME TypeInv, SjfProcess
    PROVE  \/ \E k, pcb : SjfRuns(k, pcb)
           \/ Dies /\ UNCHANGED <<call, ready, pcbs>>
  <1>0. pc = "running" /\ alg = "SJF" /\ pcbs \in Pcbs
    BY RunningTypes DEF SjfProcess, Running
  <1>1. CASE Dies
    <2>1. UNCHANGED <<call, ready, pcbs>>
      <3>1. pc' = "dead"
        BY <1>1 DEF Dies
      <3> QED BY <1>0, <3>1 DEF SjfProcess
    <2> QED BY <1>1, <2>1
  <1>2. CASE ~Dies
    <2>1. PICK k \in DOMAIN pcbs.items :
            LET pcb == dyn_array_at(pcbs, k)
            IN  /\ find_shortest_burst(k)
                /\ pcbs' = [pcbs EXCEPT !.items[k].remaining = 0, !.items[k].started = TRUE]
                /\ waiting' = waiting + (t - pcb.arrival)
                /\ turnaround' = turnaround + (t - pcb.arrival) + pcb.remaining
                /\ Runs(pcb.id, pcb.remaining, TRUE)
                /\ UNCHANGED <<q, pc>>
      BY <1>2 DEF SjfProcess
    <2> DEFINE pcb == pcbs.items[k]
    <2>2. k \in 1 .. Len(pcbs.items) /\ pcb \in PcbType /\ dyn_array_at(pcbs, k) = pcb
      BY <1>0, PcbsItems
    <2>3. Finished(pcb) \in PcbType
      BY <2>2, WordIsNat DEF Finished, PcbType
    <2>4. pcbs' = [pcbs EXCEPT !.items[k] = Finished(pcb)]
      BY <1>0, <2>1, <2>2 DEF Finished, Pcbs, ArrayOf, PcbType
    <2>5. SjfRuns(k, pcb)
      BY <2>1, <2>2, <2>3, <2>4 DEF SjfRuns, SjfProcess
    <2> QED BY <2>5
  <1> QED BY <1>1, <1>2

LEMMA DiesT ==
    ASSUME PInv, pc = "running", Dies, UNCHANGED <<call, ready, pcbs>>,
           UNCHANGED <<load, code>>
    PROVE  PInv'
  <1>1. TypeInv'
    BY DEF PInv, TypeInv, Dies, call, clock, sums, ghosts, load, Called, Procs
  <1> QED BY <1>1, ScheduledP DEF Dies, call

LEMMA SjfProcessT == ASSUME PInv, SjfProcess, UNCHANGED <<load, code>> PROVE PInv'
  <1>0. pc = "running" /\ alg = "SJF" /\ TypeInv /\ pcbs \in Pcbs
    BY RunningTypes DEF SjfProcess, Running, PInv
  <1>1. CASE Dies /\ UNCHANGED <<call, ready, pcbs>>
    BY <1>0, <1>1, DiesT
  <1>2. ASSUME NEW k, NEW pcb, SjfRuns(k, pcb) PROVE PInv'
    <2>1. pcb.id \in Nat /\ pcb.remaining \in Nat /\ pcb.arrival \in Nat
      BY <1>2, WordIsNat DEF SjfRuns, PcbType
    <2>2. pcbs' \in Pcbs
      BY <1>0, <1>2, Replaced DEF SjfRuns
    <2>3. t' \in Nat /\ exit' \in [Procs' -> Int] /\ starving' \in [Procs' -> Nat]
      BY <1>0, <1>2, <2>1, RunningTypes, RunsTypes DEF SjfRuns, call
    <2>4. waiting' \in Int /\ turnaround' \in Int
      <3>1. t \in Nat /\ waiting \in Int /\ turnaround \in Int
        BY <1>0 DEF TypeInv
      <3>2. /\ waiting' = waiting + (t - pcb.arrival)
            /\ turnaround' = turnaround + (t - pcb.arrival) + pcb.remaining
        BY <1>2 DEF SjfRuns
      <3> QED BY <2>1, <3>1, <3>2
    <2>5. TypeInv'
      BY <1>0, <1>2, <2>2, <2>3, <2>4 DEF SjfRuns, TypeInv, call, load
    <2> QED BY <1>0, <1>2, <2>5, ScheduledP DEF SjfRuns, call
  <1> QED BY <1>0, <1>1, <1>2, SjfSteps

\* A tick of shortest_remaining_time_first.
SrtfRuns(k, pcb, ran) ==
    LET flow == IF ran.remaining = 0 THEN Turnaround(t + 1, pcb) ELSE 0
    IN  /\ k \in 1 .. Len(pcbs.items) /\ pcb = pcbs.items[k] /\ pcb \in PcbType
        /\ find_shortest_burst(k)
        /\ ran \in PcbType /\ ran.id = pcb.id /\ ran.arrival = pcb.arrival
        /\ ran.started = TRUE
        /\ ran.remaining = IF pcb.remaining = 0 THEN Word - 1 ELSE pcb.remaining - 1
        /\ pcbs' = [pcbs EXCEPT !.items[k] = ran]
        /\ waiting' = waiting - BurstOnStart(pcb, ~pcb.started) + flow
        /\ turnaround' = turnaround + flow
        /\ Runs(pcb.id, 1, ran.remaining = 0)
        /\ UNCHANGED <<call, ready, q, pc>>

LEMMA SrtfSteps ==
    ASSUME TypeInv, SrtfTick
    PROVE  \/ \E k, pcb, ran : SrtfRuns(k, pcb, ran)
           \/ Dies /\ UNCHANGED <<call, ready, pcbs>>
  <1>0. pc = "running" /\ alg = "SRTF" /\ pcbs \in Pcbs
    BY RunningTypes DEF SrtfTick, Running
  <1>1. CASE Dies
    <2>1. UNCHANGED <<call, ready, pcbs>>
      <3>1. pc' = "dead"
        BY <1>1 DEF Dies
      <3> QED BY <1>0, <3>1 DEF SrtfTick
    <2> QED BY <1>1, <2>1
  <1>2. CASE ~Dies
    <2>1. PICK k \in DOMAIN pcbs.items :
            LET pcb  == dyn_array_at(pcbs, k)
                ran  == virtual_cpu([pcb EXCEPT !.started = TRUE])
                ends == ran.remaining = 0
                flow == IF ends THEN Turnaround(t + 1, pcb) ELSE 0
            IN  /\ find_shortest_burst(k)
                /\ pcbs' = [pcbs EXCEPT !.items[k] = ran]
                /\ waiting' = waiting - BurstOnStart(pcb, ~pcb.started) + flow
                /\ turnaround' = turnaround + flow
                /\ Runs(pcb.id, 1, ends)
                /\ UNCHANGED <<q, pc>>
      BY <1>2 DEF SrtfTick
    <2> DEFINE pcb == pcbs.items[k]
               begun == [pcb EXCEPT !.started = TRUE]
               ran == virtual_cpu(begun)
    <2>2. k \in 1 .. Len(pcbs.items) /\ pcb \in PcbType /\ dyn_array_at(pcbs, k) = pcb
      BY <1>0, PcbsItems
    <2>3. /\ begun \in PcbType /\ begun.id = pcb.id /\ begun.arrival = pcb.arrival
          /\ begun.remaining = pcb.remaining /\ begun.started = TRUE
      BY <2>2, StartedIsPcb
    <2>4. /\ ran \in PcbType /\ ran.id = begun.id /\ ran.arrival = begun.arrival
          /\ ran.started = begun.started
          /\ ran.remaining = IF begun.remaining = 0 THEN Word - 1 ELSE begun.remaining - 1
      <3> HIDE DEF begun
      <3> QED BY <2>3, Ticked
    <2>5. /\ pcbs' = [pcbs EXCEPT !.items[k] = ran]
          /\ waiting' = waiting - BurstOnStart(pcb, ~pcb.started)
                          + (IF ran.remaining = 0 THEN Turnaround(t + 1, pcb) ELSE 0)
          /\ turnaround' = turnaround
                             + (IF ran.remaining = 0 THEN Turnaround(t + 1, pcb) ELSE 0)
          /\ Runs(pcb.id, 1, ran.remaining = 0)
          /\ UNCHANGED <<q, pc>>
      BY <2>1, <2>2
    <2>6. UNCHANGED <<call, ready>>
      BY DEF SrtfTick
    <2> HIDE DEF begun, ran
    <2>7. SrtfRuns(k, pcb, ran)
      BY <2>1, <2>2, <2>3, <2>4, <2>5, <2>6 DEF SrtfRuns
    <2> QED BY <2>7
  <1> QED BY <1>1, <1>2

LEMMA BurstIsInt ==
    ASSUME NEW pcb \in PcbType, NEW fresh
    PROVE  BurstOnStart(pcb, fresh) \in Nat
  BY WordIsNat DEF BurstOnStart, PcbType

LEMMA SrtfTickT == ASSUME PInv, SrtfTick, UNCHANGED <<load, code>> PROVE PInv'
  <1>0. pc = "running" /\ alg = "SRTF" /\ TypeInv /\ pcbs \in Pcbs
    BY RunningTypes DEF SrtfTick, Running, PInv
  <1>1. CASE Dies /\ UNCHANGED <<call, ready, pcbs>>
    BY <1>0, <1>1, DiesT
  <1>2. ASSUME NEW k, NEW pcb, NEW ran, SrtfRuns(k, pcb, ran) PROVE PInv'
    <2>1. pcb \in PcbType /\ pcb.id \in Nat
      BY <1>2, WordIsNat DEF SrtfRuns, PcbType
    <2>2. pcbs' \in Pcbs
      BY <1>0, <1>2, Replaced DEF SrtfRuns
    <2>3. t' \in Nat /\ exit' \in [Procs' -> Int] /\ starving' \in [Procs' -> Nat]
      BY <1>0, <1>2, <2>1, RunningTypes, RunsTypes DEF SrtfRuns, call
    <2>4. waiting' \in Int /\ turnaround' \in Int
      <3>1. Turnaround(t + 1, pcb) \in Int /\ BurstOnStart(pcb, ~pcb.started) \in Nat
        BY <1>0, <2>1, TurnaroundIsInt, BurstIsInt DEF TypeInv
      <3> DEFINE flow == IF ran.remaining = 0 THEN Turnaround(t + 1, pcb) ELSE 0
      <3>2. flow \in Int /\ waiting \in Int /\ turnaround \in Int
        BY <1>0, <3>1 DEF TypeInv
      <3>3. /\ waiting' = waiting - BurstOnStart(pcb, ~pcb.started) + flow
            /\ turnaround' = turnaround + flow
        BY <1>2 DEF SrtfRuns
      <3> HIDE DEF flow
      <3> QED BY <3>1, <3>2, <3>3
    <2>5. TypeInv'
      BY <1>0, <1>2, <2>2, <2>3, <2>4 DEF SrtfRuns, TypeInv, call, load
    <2> QED BY <1>0, <1>2, <2>5, ScheduledP DEF SrtfRuns, call
  <1> QED BY <1>0, <1>1, <1>2, SrtfSteps

\* A process enters the ready queue of round_robin.
RrAdmits(k, pcb) ==
    /\ k \in 1 .. Len(pcbs.items) /\ pcb = pcbs.items[k] /\ pcb \in PcbType
    /\ Arrived(pcb)
    /\ pcbs' \in Pcbs /\ pcbs'.items = RemoveAt(pcbs.items, k)
    /\ ready' \in Pcbs
    /\ ready.capacity > Len(ready.items) =>
         ready'.items = Append(ready.items, pcb) /\ ready'.capacity = ready.capacity
    /\ UNCHANGED <<call, clock, sums, pc, ghosts>>

LEMMA RrAdmitSteps ==
    ASSUME TypeInv, RrAdmit
    PROVE  \E k, pcb : RrAdmits(k, pcb)
  <1>0. pc = "running" /\ alg = "RR" /\ pcbs \in Pcbs /\ ready \in Pcbs
    BY RunningTypes DEF RrAdmit, Running
  <1> DEFINE k == Max(ArrivedSlots)
             pcb == pcbs.items[k]
  <1>1. k \in ArrivedSlots
    <2>1. ArrivedSlots \subseteq 1 .. Len(pcbs.items) /\ Len(pcbs.items) \in Nat
      BY <1>0, PcbsItems DEF ArrivedSlots
    <2> QED BY <2>1, GreatestExists DEF RrAdmit, Max
  <1>2. /\ k \in 1 .. Len(pcbs.items) /\ pcb \in PcbType /\ dyn_array_at(pcbs, k) = pcb
        /\ Arrived(pcb)
    BY <1>0, <1>1, PcbsItems DEF ArrivedSlots
  <1>3. PICK pushed \in dyn_array_push_back(ready, pcb) :
          ready' = pushed.array /\ pcbs' = dyn_shift_remove(pcbs, k)
    BY <1>2 DEF RrAdmit, dyn_array_extract
  <1>4. /\ pushed.ok = TRUE => pushed.array.items = Append(ready.items, pcb)
        /\ pushed.array \in Pcbs
        /\ ready.capacity > Len(ready.items) =>
             pushed.ok = TRUE /\ pushed.array.capacity = ready.capacity
    <2> HIDE DEF pcb, k
    <2>1. /\ \/ pushed.ok = TRUE /\ pushed.array.items = Append(ready.items, pcb)
             \/ pushed.ok = FALSE
          /\ pushed.array \in Pcbs
          /\ ready.capacity > Len(ready.items) =>
               pushed.ok = TRUE /\ pushed.array.capacity = ready.capacity
      <3>1. ready \in Pcbs /\ pcb \in PcbType
        BY <1>0, <1>2
      <3> QED BY Zenon, <3>1, Pushed
    <2> QED BY <2>1
  <1>5. pcbs' \in Pcbs /\ pcbs'.items = RemoveAt(pcbs.items, k)
    BY <1>0, <1>2, <1>3, RemovedAt
  <1>6. UNCHANGED <<call, clock, sums, pc, ghosts>>
    BY DEF RrAdmit
  <1>7. RrAdmits(k, pcb)
    <2> HIDE DEF k
    <2> QED BY <1>2, <1>3, <1>4, <1>5, <1>6 DEF RrAdmits
  <1> QED BY <1>7

LEMMA RrAdmitT == ASSUME PInv, RrAdmit, UNCHANGED <<load, code>> PROVE PInv'
  <1>0. pc = "running" /\ alg = "RR" /\ TypeInv
    BY DEF RrAdmit, Running, PInv
  <1>1. PICK k, pcb : RrAdmits(k, pcb)
    BY <1>0, RrAdmitSteps
  <1>2. TypeInv'
    BY <1>0, <1>1 DEF RrAdmits, TypeInv, call, clock, sums, ghosts, load, Procs
  <1> QED BY <1>0, <1>1, <1>2, ScheduledP DEF RrAdmits, call

LEMMA RrTickT == ASSUME PInv, RrTick, UNCHANGED <<load, code>> PROVE PInv'
  <1>0. pc = "running" /\ alg = "RR" /\ TypeInv /\ ready \in Pcbs
    BY RunningTypes DEF RrTick, Running, PInv
  <1>1. CASE Len(ready.items) = 0
    <2>1. Dies /\ UNCHANGED <<call, ready, pcbs>>
      BY <1>0, <1>1, PcbsItems DEF RrTick
    <2> QED BY <1>0, <2>1, DiesT
  <1>2. CASE Len(ready.items) > 0
    <2>1. PICK pcb, ran, slice : RrTicked(pcb, ran, slice)
      BY <1>0, <1>2, RrTicks
    <2>2. pcb \in PcbType /\ pcb.id \in Nat
      BY <2>1 DEF RrTicked, RrRan, PcbType
    <2>3. t' \in Nat /\ exit' \in [Procs' -> Int] /\ starving' \in [Procs' -> Nat]
      BY <1>0, <2>1, <2>2, RunningTypes, RunsTypes DEF RrTicked, call
    <2>4. waiting' \in Int /\ turnaround' \in Int
      <3>1. t + 1 \in Nat
        BY <1>0 DEF TypeInv
      <3>2. Turnaround(Later(1), pcb) \in Int /\ BurstOnStart(pcb, q = 0 /\ ~pcb.started) \in Nat
        BY <2>2, <3>1, TurnaroundIsInt, ClockIsNat, BurstIsInt DEF Later
      <3> QED BY <1>0, <2>1, <3>2 DEF RrTicked, RrSums, TypeInv
    <2>5. q' \in Nat
      <3>1. slice \in Nat
        <4>1. q + 1 \in Int
          BY <1>0 DEF TypeInv
        <4> QED BY <2>1, <4>1, ModIn, WordAssumption DEF RrTicked
      <3> QED BY <2>1, <3>1 DEF RrTicked
    <2>6. TypeInv'
      BY <1>0, <2>1, <2>3, <2>4, <2>5 DEF RrTicked, TypeInv, call, load
    <2> QED BY <1>0, <2>1, <2>6, ScheduledP DEF RrTicked, call
  <1> QED BY <1>0, <1>1, <1>2, PcbsItems

-----------------------------------------------------------------------------
(* The processes that two queues hold.                                     *)

Members(s) == {s[k] : k \in 1 .. Len(s)}
Held(s, r) == Members(s) \cup Members(r)

Distinct(s, r) ==
    /\ \A j, k \in 1 .. Len(s) : s[j].id = s[k].id => j = k
    /\ \A j, k \in 1 .. Len(r) : r[j].id = r[k].id => j = k
    /\ \A j \in 1 .. Len(s), k \in 1 .. Len(r) : s[j].id # r[k].id

\* No two of a set have the same number.
Unique(C) == \A d, e \in C : d.id = e.id => d = e

LEMMA DistinctAreUnique ==
    ASSUME NEW s \in Seq(PcbType), NEW r \in Seq(PcbType), Distinct(s, r)
    PROVE  Unique(Held(s, r)) /\ Held(s, r) \subseteq PcbType
  BY DEF Distinct, Unique, Held, Members

LEMMA DistinctSwap ==
    ASSUME NEW s, NEW r, Distinct(s, r)
    PROVE  Distinct(r, s) /\ Held(r, s) = Held(s, r)
  BY DEF Distinct, Held

LEMMA HeldRemoved ==
    ASSUME NEW s \in Seq(PcbType), NEW r \in Seq(PcbType), Distinct(s, r),
           NEW k \in 1 .. Len(s)
    PROVE  /\ Distinct(RemoveAt(s, k), r)
           /\ Held(RemoveAt(s, k), r) = Held(s, r) \ {s[k]}
           /\ \A e \in Held(RemoveAt(s, k), r) : e.id # s[k].id
  <1> DEFINE N == Len(s)
             u == RemoveAt(s, k)
             Old(j) == IF j < k THEN j ELSE j + 1
  <1>0. N \in Nat /\ k \in 1 .. N
    OBVIOUS
  <1>1. /\ u \in Seq(PcbType) /\ Len(u) = N - 1
        /\ \A j \in 1 .. k - 1 : u[j] = s[j]
        /\ \A j \in k .. N - 1 : u[j] = s[j + 1]
    BY Removed
  <1> HIDE DEF u
  <1>2. ASSUME NEW j \in 1 .. N - 1
        PROVE  Old(j) \in 1 .. N /\ Old(j) # k /\ u[j] = s[Old(j)]
    <2>1. CASE j < k
      <3>1. j \in 1 .. k - 1 /\ Old(j) = j
        BY <1>0, <2>1
      <3> QED BY <1>0, <1>1, <3>1
    <2>2. CASE ~ (j < k)
      <3>1. j \in k .. N - 1 /\ Old(j) = j + 1
        BY <1>0, <2>2
      <3> QED BY <1>0, <1>1, <3>1
    <2> QED BY <2>1, <2>2
  <1>3. \A i, j \in 1 .. N - 1 : Old(i) = Old(j) => i = j
    BY <1>0
  <1>4. \A i \in 1 .. N : i # k => \E j \in 1 .. N - 1 : Old(j) = i
    <2> SUFFICES ASSUME NEW i \in 1 .. N, i # k
                 PROVE  \E j \in 1 .. N - 1 : Old(j) = i
      OBVIOUS
    <2>1. CASE i < k
      <3>1. i \in 1 .. N - 1 /\ Old(i) = i
        BY <1>0, <2>1
      <3> QED BY <3>1
    <2>2. CASE ~ (i < k)
      <3>1. i - 1 \in 1 .. N - 1 /\ Old(i - 1) = i
        BY <1>0, <2>2
      <3> QED BY <3>1
    <2> QED BY <2>1, <2>2
  <1> HIDE DEF Old
  <1>5. Distinct(u, r)
    <2>1. ASSUME NEW i \in 1 .. N - 1, NEW j \in 1 .. N - 1, u[i].id = u[j].id
          PROVE  i = j
      <3>1. s[Old(i)].id = s[Old(j)].id
        BY <1>2, <2>1
      <3>2. Old(i) = Old(j)
        BY <1>2, <3>1 DEF Distinct
      <3> QED BY <1>3, <3>2
    <2>2. ASSUME NEW i \in 1 .. N - 1, NEW j \in 1 .. Len(r) PROVE u[i].id # r[j].id
      BY <1>2 DEF Distinct
    <2>3. \A i, j \in 1 .. Len(r) : r[i].id = r[j].id => i = j
      BY DEF Distinct
    <2> QED BY <1>1, <2>1, <2>2, <2>3 DEF Distinct
  <1>6. Members(u) = {s[i] : i \in (1 .. N) \ {k}}
    <2>1. ASSUME NEW x \in Members(u) PROVE x \in {s[i] : i \in (1 .. N) \ {k}}
      BY <1>1, <1>2 DEF Members
    <2>2. ASSUME NEW i \in (1 .. N) \ {k} PROVE s[i] \in Members(u)
      <3>1. PICK j \in 1 .. N - 1 : Old(j) = i
        BY <1>4
      <3>2. u[j] = s[i] /\ j \in 1 .. Len(u)
        BY <1>1, <1>2, <3>1
      <3> QED BY <3>2 DEF Members
    <2> QED BY <2>1, <2>2
  <1>7. \A i \in (1 .. N) \ {k} : s[i].id # s[k].id
    BY DEF Distinct
  <1>8. \A j \in 1 .. Len(r) : r[j].id # s[k].id
    BY DEF Distinct
  <1>9. Held(u, r) = Held(s, r) \ {s[k]}
    BY <1>6, <1>7, <1>8 DEF Held, Members
  <1>10. \A e \in Held(u, r) : e.id # s[k].id
    BY <1>6, <1>7, <1>8 DEF Held, Members
  <1> QED BY <1>5, <1>9, <1>10 DEF u

\* As HeldRemoved, of the second queue and its first.
LEMMA HeldTail ==
    ASSUME NEW s \in Seq(PcbType), NEW r \in Seq(PcbType), NEW u \in Seq(PcbType),
           Distinct(s, r), Len(r) > 0, TailOf(r, u)
    PROVE  /\ Distinct(s, u)
           /\ Held(s, u) = Held(s, r) \ {r[1]}
           /\ \A e \in Held(s, u) : e.id # r[1].id
  <1>0. Len(r) \in Nat /\ 1 \in 1 .. Len(r) /\ Len(u) \in Nat
    OBVIOUS
  <1>1. u = RemoveAt(r, 1)
    <2>1. /\ RemoveAt(r, 1) \in Seq(PcbType) /\ Len(RemoveAt(r, 1)) = Len(r) - 1
          /\ \A j \in 1 .. Len(r) - 1 : RemoveAt(r, 1)[j] = r[j + 1]
      BY <1>0, Removed
    <2>2. Len(u) = Len(RemoveAt(r, 1)) /\ \A j \in 1 .. Len(u) : u[j] = RemoveAt(r, 1)[j]
      BY <2>1 DEF TailOf
    <2> HIDE DEF TailOf
    <2> QED BY <2>1, <2>2, SeqEqual
  <1>2. Distinct(r, s) /\ Held(r, s) = Held(s, r)
    BY DistinctSwap
  <1>3. /\ Distinct(RemoveAt(r, 1), s)
        /\ Held(RemoveAt(r, 1), s) = Held(r, s) \ {r[1]}
        /\ \A e \in Held(RemoveAt(r, 1), s) : e.id # r[1].id
    BY <1>0, <1>2, HeldRemoved
  <1> QED BY <1>1, <1>2, <1>3, DistinctSwap

LEMMA HeldReplaced ==
    ASSUME NEW s \in Seq(PcbType), NEW r \in Seq(PcbType), Distinct(s, r),
           NEW k \in 1 .. Len(s), NEW e \in PcbType, e.id = s[k].id,
           NEW u \in Seq(PcbType), Len(u) = Len(s), u[k] = e,
           \A j \in 1 .. Len(s) : j # k => u[j] = s[j]
    PROVE  /\ Distinct(u, r)
           /\ Held(u, r) = (Held(s, r) \ {s[k]}) \cup {e}
  <1>1. \A j \in 1 .. Len(s) : u[j].id = s[j].id
    OBVIOUS
  <1>2. Distinct(u, r)
    BY <1>1 DEF Distinct
  <1>3. Members(u) = {s[j] : j \in (1 .. Len(s)) \ {k}} \cup {e}
    BY DEF Members
  <1>4. \A i \in (1 .. Len(s)) \ {k} : s[i].id # s[k].id
    BY DEF Distinct
  <1>5. \A j \in 1 .. Len(r) : r[j].id # s[k].id
    BY DEF Distinct
  <1>6. Held(u, r) = (Held(s, r) \ {s[k]}) \cup {e}
    BY <1>3, <1>4, <1>5 DEF Held, Members
  <1> QED BY <1>2, <1>6

\* The second queue's first is another one then, or goes to the end as another one.
LEMMA HeldHeadSet ==
    ASSUME NEW s \in Seq(PcbType), NEW r \in Seq(PcbType), NEW u \in Seq(PcbType),
           Distinct(s, r), Len(r) > 0, NEW e \in PcbType, e.id = r[1].id, HeadSet(r, u, e)
    PROVE  /\ Distinct(s, u)
           /\ Held(s, u) = (Held(s, r) \ {r[1]}) \cup {e}
  <1>0. 1 \in 1 .. Len(r) /\ Distinct(r, s) /\ Held(r, s) = Held(s, r)
    BY DistinctSwap
  <1>1. Len(u) = Len(r) /\ u[1] = e /\ \A j \in 1 .. Len(r) : j # 1 => u[j] = r[j]
    BY DEF HeadSet
  <1>2. Distinct(u, s) /\ Held(u, s) = (Held(r, s) \ {r[1]}) \cup {e}
    BY <1>0, <1>1, HeldReplaced
  <1> QED BY <1>0, <1>2, DistinctSwap

LEMMA HeldRotated ==
    ASSUME NEW s \in Seq(PcbType), NEW r \in Seq(PcbType), NEW u \in Seq(PcbType),
           Distinct(s, r), Len(r) > 0, NEW e \in PcbType, e.id = r[1].id, Rotated(r, u, e)
    PROVE  /\ Distinct(s, u)
           /\ Held(s, u) = (Held(s, r) \ {r[1]}) \cup {e}
  <1> DEFINE N == Len(r)
             Old(j) == IF j = N THEN 1 ELSE j + 1
  <1>0. N \in Nat /\ N > 0 /\ Len(u) = N
    BY DEF Rotated
  <1>1. \A j \in 1 .. N : Old(j) \in 1 .. N /\ u[j].id = r[Old(j)].id
    BY <1>0 DEF Rotated
  <1>2. \A i, j \in 1 .. N : Old(i) = Old(j) => i = j
    BY <1>0
  <1>3. Distinct(s, u)
    <2> HIDE DEF Old
    <2>1. ASSUME NEW i \in 1 .. N, NEW j \in 1 .. N, u[i].id = u[j].id PROVE i = j
      <3>1. r[Old(i)].id = r[Old(j)].id /\ Old(i) \in 1 .. N /\ Old(j) \in 1 .. N
        BY <2>1, <1>1
      <3>2. Old(i) = Old(j)
        BY <3>1 DEF Distinct
      <3> QED BY <3>2, <1>2
    <2>2. ASSUME NEW i \in 1 .. Len(s), NEW j \in 1 .. N PROVE s[i].id # u[j].id
      <3>1. PICK m \in 1 .. N : u[j].id = r[m].id
        BY <1>1
      <3> QED BY <3>1 DEF Distinct
    <2>3. \A i, j \in 1 .. Len(s) : s[i].id = s[j].id => i = j
      BY DEF Distinct
    <2> QED BY <1>0, <2>1, <2>2, <2>3 DEF Distinct
  <1>4. Members(u) = {r[j] : j \in 2 .. N} \cup {e}
    <2>1. \A j \in 1 .. N : u[j] = IF j = N THEN e ELSE r[j + 1]
      BY <1>0 DEF Rotated
    <2>2. ASSUME NEW j \in 2 .. N PROVE j - 1 \in 1 .. N /\ u[j - 1] = r[j]
      <3>1. j - 1 \in 1 .. N /\ j - 1 # N /\ (j - 1) + 1 = j
        BY <1>0
      <3>2. u[j - 1] = r[(j - 1) + 1]
        BY <2>1, <3>1
      <3> QED BY <3>1, <3>2
    <2>3. \A j \in 1 .. N : j # N => j + 1 \in 2 .. N
      BY <1>0
    <2>4. N \in 1 .. N /\ u[N] = e
      BY <1>0, <2>1
    <2>5. ASSUME NEW x \in Members(u) PROVE x \in {r[j] : j \in 2 .. N} \cup {e}
      BY <1>0, <2>1, <2>3 DEF Members
    <2>6. ASSUME NEW x \in {r[j] : j \in 2 .. N} \cup {e} PROVE x \in Members(u)
      BY <1>0, <2>2, <2>4 DEF Members
    <2> QED BY <2>5, <2>6
  <1>5. \A i \in 2 .. N : r[i].id # r[1].id
    BY <1>0 DEF Distinct
  <1>6. \A j \in 1 .. Len(s) : s[j].id # r[1].id
    BY <1>0 DEF Distinct
  <1>7. Members(r) \ {r[1]} = {r[j] : j \in 2 .. N}
    <2>1. \A i \in 1 .. N : i # 1 => i \in 2 .. N
      BY <1>0
    <2>2. \A i \in 2 .. N : i \in 1 .. N
      BY <1>0
    <2> QED BY <1>5, <2>1, <2>2 DEF Members
  <1>8. Held(s, u) = (Held(s, r) \ {r[1]}) \cup {e}
    BY <1>4, <1>6, <1>7 DEF Held, Members
  <1> QED BY <1>3, <1>8

LEMMA HeldAdmitted ==
    ASSUME NEW s \in Seq(PcbType), NEW r \in Seq(PcbType), Distinct(s, r),
           NEW k \in 1 .. Len(s)
    PROVE  /\ Distinct(RemoveAt(s, k), Append(r, s[k]))
           /\ Held(RemoveAt(s, k), Append(r, s[k])) = Held(s, r)
  <1> DEFINE u == RemoveAt(s, k)
             e == s[k]
             M == Len(r)
             v == Append(r, e)
  <1>0. e \in PcbType /\ M \in Nat
    OBVIOUS
  <1>1. /\ Distinct(u, r) /\ Held(u, r) = Held(s, r) \ {e}
        /\ \A x \in Held(u, r) : x.id # e.id
    BY HeldRemoved
  <1>2. Len(v) = M + 1 /\ v[M + 1] = e /\ \A j \in 1 .. M : v[j] = r[j]
    BY <1>0, AppendProperties
  <1>3. e \in Held(s, r)
    BY DEF Held, Members
  <1> HIDE DEF u, e, v
  <1>4. \A j \in 1 .. M + 1 : j = M + 1 \/ j \in 1 .. M
    BY <1>0
  <1>5. (\A j \in 1 .. Len(u) : u[j].id # e.id) /\ (\A j \in 1 .. M : r[j].id # e.id)
    BY <1>1 DEF Held, Members
  <1>6. Distinct(u, v)
    <2>1. ASSUME NEW i \in 1 .. M + 1, NEW j \in 1 .. M + 1, v[i].id = v[j].id PROVE i = j
      <3>1. \A m, n \in 1 .. M : r[m].id = r[n].id => m = n
        BY <1>1 DEF Distinct
      <3>2. CASE i = M + 1
        BY <2>1, <3>2, <1>2, <1>4, <1>5
      <3>3. CASE i \in 1 .. M
        BY <2>1, <3>1, <3>3, <1>2, <1>4, <1>5
      <3> QED BY <3>2, <3>3, <1>4
    <2>2. ASSUME NEW i \in 1 .. Len(u), NEW j \in 1 .. M + 1 PROVE u[i].id # v[j].id
      <3>1. CASE j = M + 1
        BY <3>1, <1>2, <1>5
      <3>2. CASE j \in 1 .. M
        BY <3>2, <1>1, <1>2 DEF Distinct
      <3> QED BY <3>1, <3>2, <1>4
    <2>3. \A i, j \in 1 .. Len(u) : u[i].id = u[j].id => i = j
      BY <1>1 DEF Distinct
    <2> QED BY <1>2, <2>1, <2>2, <2>3 DEF Distinct
  <1>7. Members(v) = Members(r) \cup {e}
    <2>1. M + 1 \in 1 .. M + 1 /\ \A j \in 1 .. M : j \in 1 .. M + 1
      BY <1>0
    <2> QED BY <1>2, <1>4, <2>1 DEF Members
  <1>8. Held(u, v) = Held(u, r) \cup {e}
    BY <1>7 DEF Held
  <1> QED BY <1>1, <1>3, <1>6, <1>8 DEF u, e, v

-----------------------------------------------------------------------------
(* What is left to run, and what has run.                                  *)

Wrapped(z, b) == IF b = 0 THEN z ELSE b
OfZero(a) == IF a = "RR" THEN Word ELSE 0

\* What the member of C with number i has left; z stands for a burst of 0.
RestIn(C, z, i) ==
    IF \E e \in C : e.id = i THEN Wrapped(z, (CHOOSE e \in C : e.id = i).remaining) ELSE 0

\* How long each of the jobs has run.
Ran(jobs, C, z) == [i \in 1 .. Len(jobs) |-> Wrapped(z, jobs[i].burst) - RestIn(C, z, i)]

LEMMA RestOf ==
    ASSUME NEW C, Unique(C), NEW e \in C, NEW z
    PROVE  RestIn(C, z, e.id) = Wrapped(z, e.remaining)
  <1>1. (CHOOSE d \in C : d.id = e.id) = e
    BY DEF Unique
  <1> QED BY <1>1 DEF RestIn

LEMMA RestOfNone ==
    ASSUME NEW C, NEW i, NEW z, \A e \in C : e.id # i
    PROVE  RestIn(C, z, i) = 0
  BY DEF RestIn

\* Only what is said of number i matters.
LEMMA RestSame ==
    ASSUME NEW C, NEW D, Unique(C), Unique(D), NEW i, NEW z,
           \A e : e.id = i => (e \in C <=> e \in D)
    PROVE  RestIn(C, z, i) = RestIn(D, z, i)
  <1>1. CASE \E e \in C : e.id = i
    <2>1. PICK e \in C : e.id = i
      BY <1>1
    <2> QED BY <2>1, RestOf
  <1>2. CASE ~ \E e \in C : e.id = i
    BY <1>2, RestOfNone
  <1> QED BY <1>1, <1>2

LEMMA RestTypes ==
    ASSUME NEW C \in SUBSET PcbType, Unique(C), NEW z \in Nat, NEW i
    PROVE  RestIn(C, z, i) \in Nat
  <1>1. CASE \E e \in C : e.id = i
    <2>1. PICK e \in C : e.id = i
      BY <1>1
    <2>2. e.remaining \in Nat
      BY WordIsNat DEF PcbType
    <2> QED BY <2>1, <2>2, RestOf DEF Wrapped
  <1>2. CASE ~ \E e \in C : e.id = i
    BY <1>2, RestOfNone
  <1> QED BY <1>1, <1>2

LEMMA RanTypes ==
    ASSUME NEW jobs \in Seq(Jobs), NEW C \in SUBSET PcbType, Unique(C), NEW z \in Nat
    PROVE  /\ Ran(jobs, C, z) \in Seq(Int) /\ Len(Ran(jobs, C, z)) = Len(jobs)
           /\ \A i \in 1 .. Len(jobs) :
                Ran(jobs, C, z)[i] = Wrapped(z, jobs[i].burst) - RestIn(C, z, i)
           /\ SumOf(Ran(jobs, C, z)) \in Int
  <1>0. Len(jobs) \in Nat
    OBVIOUS
  <1>1. \A i \in 1 .. Len(jobs) : Wrapped(z, jobs[i].burst) - RestIn(C, z, i) \in Int
    <2> SUFFICES ASSUME NEW i \in 1 .. Len(jobs)
                 PROVE  Wrapped(z, jobs[i].burst) - RestIn(C, z, i) \in Int
      OBVIOUS
    <2>1. jobs[i] \in Jobs
      OBVIOUS
    <2>2. jobs[i].burst \in Nat
      BY <2>1, InputAssumption, WordIsNat
    <2> QED BY <2>2, RestTypes DEF Wrapped
  <1>2. Ran(jobs, C, z) \in [1 .. Len(jobs) -> Int]
    BY <1>1 DEF Ran
  <1>3. Ran(jobs, C, z) \in Seq(Int) /\ Len(Ran(jobs, C, z)) = Len(jobs)
    BY <1>0, <1>2
  <1> QED BY <1>3, SumIsInt DEF Ran

LEMMA RanMore ==
    ASSUME NEW jobs \in Seq(Jobs), NEW C \in SUBSET PcbType, NEW D \in SUBSET PcbType,
           Unique(C), Unique(D), NEW z \in Nat, NEW id \in 1 .. Len(jobs),
           \A e : e.id # id => (e \in C <=> e \in D)
    PROVE  SumOf(Ran(jobs, D, z)) =
             SumOf(Ran(jobs, C, z)) + (RestIn(C, z, id) - RestIn(D, z, id))
  <1> DEFINE f == Ran(jobs, C, z)
             g == Ran(jobs, D, z)
  <1>1. /\ f \in Seq(Int) /\ Len(f) = Len(jobs)
        /\ \A i \in 1 .. Len(jobs) : f[i] = Wrapped(z, jobs[i].burst) - RestIn(C, z, i)
        /\ SumOf(f) \in Int
    BY RanTypes
  <1>2. /\ g \in Seq(Int) /\ Len(g) = Len(jobs)
        /\ \A i \in 1 .. Len(jobs) : g[i] = Wrapped(z, jobs[i].burst) - RestIn(D, z, i)
    BY RanTypes
  <1>3. \A i \in 1 .. Len(jobs) : i # id => RestIn(C, z, i) = RestIn(D, z, i)
    BY RestSame
  <1> HIDE DEF f, g
  <1>4. \A i \in 1 .. Len(f) : i # id => g[i] = f[i]
    BY <1>1, <1>2, <1>3
  <1>5. SumOf(g) = SumOf(f) + (g[id] - f[id])
    BY <1>1, <1>2, <1>4, SumOfChanged
  <1>6. g[id] - f[id] = RestIn(C, z, id) - RestIn(D, z, id)
    <2>1. Wrapped(z, jobs[id].burst) \in Int
      <3>1. jobs[id] \in Jobs
        OBVIOUS
      <3> QED BY <3>1, InputAssumption, WordIsNat DEF Wrapped
    <2>2. RestIn(C, z, id) \in Int /\ RestIn(D, z, id) \in Int
      BY RestTypes
    <2> QED BY <1>1, <1>2, <2>1, <2>2
  <1> QED BY <1>5, <1>6 DEF f, g

\* One of them has run for a while and is gone, or has less left.
LEMMA RanRemoved ==
    ASSUME NEW jobs \in Seq(Jobs), NEW C \in SUBSET PcbType, Unique(C), NEW z \in Nat,
           NEW e \in C, e.id \in 1 .. Len(jobs)
    PROVE  /\ Unique(C \ {e})
           /\ SumOf(Ran(jobs, C \ {e}, z)) = SumOf(Ran(jobs, C, z)) + Wrapped(z, e.remaining)
  <1> DEFINE D == C \ {e}
  <1>1. Unique(D) /\ D \in SUBSET PcbType /\ \A d \in D : d.id # e.id
    BY DEF Unique
  <1>2. RestIn(C, z, e.id) = Wrapped(z, e.remaining) /\ RestIn(D, z, e.id) = 0
    <2> HIDE DEF D
    <2> QED BY <1>1, RestOf, RestOfNone
  <1>3. \A d : d.id # e.id => (d \in C <=> d \in D)
    OBVIOUS
  <1> HIDE DEF D
  <1>4. SumOf(Ran(jobs, D, z)) =
          SumOf(Ran(jobs, C, z)) + (RestIn(C, z, e.id) - RestIn(D, z, e.id))
    BY <1>1, <1>3, RanMore
  <1>5. RestIn(C, z, e.id) \in Nat /\ SumOf(Ran(jobs, C, z)) \in Int
    BY RestTypes, RanTypes
  <1> QED BY <1>1, <1>2, <1>4, <1>5 DEF D

LEMMA RanReplaced ==
    ASSUME NEW jobs \in Seq(Jobs), NEW C \in SUBSET PcbType, Unique(C), NEW z \in Nat,
           NEW e \in C, e.id \in 1 .. Len(jobs), NEW e2 \in PcbType, e2.id = e.id,
           NEW n \in Nat, Wrapped(z, e.remaining) = n + Wrapped(z, e2.remaining)
    PROVE  /\ Unique((C \ {e}) \cup {e2})
           /\ SumOf(Ran(jobs, (C \ {e}) \cup {e2}, z)) = SumOf(Ran(jobs, C, z)) + n
  <1> DEFINE D == (C \ {e}) \cup {e2}
  <1>1. Unique(D) /\ D \in SUBSET PcbType /\ e2 \in D
    BY DEF Unique
  <1>2. \A d : d.id # e.id => (d \in C <=> d \in D)
    OBVIOUS
  <1> HIDE DEF D
  <1>3. RestIn(C, z, e.id) = Wrapped(z, e.remaining)
        /\ RestIn(D, z, e.id) = Wrapped(z, e2.remaining)
    BY <1>1, RestOf
  <1>4. SumOf(Ran(jobs, D, z)) =
          SumOf(Ran(jobs, C, z)) + (RestIn(C, z, e.id) - RestIn(D, z, e.id))
    BY <1>1, <1>2, RanMore
  <1>5. /\ RestIn(C, z, e.id) \in Nat /\ RestIn(D, z, e.id) \in Nat
        /\ SumOf(Ran(jobs, C, z)) \in Int
    BY <1>1, RestTypes, RanTypes
  <1> QED BY <1>1, <1>3, <1>4, <1>5 DEF D

-----------------------------------------------------------------------------
(* While a scheduler runs.                                                 *)

Now == Held(pcbs.items, ready.items)
Compares == alg \in {"SJF", "SRTF"}

SoundPcb(e) ==
    /\ e.id \in Procs /\ e.arrival = array[e.id].arrival
    /\ ~e.started => e.remaining = array[e.id].burst
    /\ alg = "SJF" /\ e.remaining > 0 => ~e.started

Waits(i) == \E e \in Now : e.id = i /\ (Compares => e.remaining > 0)

QueuesInv ==
    /\ Distinct(pcbs.items, ready.items)
    /\ \A e \in Now : SoundPcb(e)
    /\ \A i \in Procs : Waits(i) <=> exit[i] = NEVER
    /\ t = Clock(SumOf(Ran(array, Now, OfZero(alg))))

RoomInv ==
    /\ Len(array) > 0
    /\ Len(pcbs.items) + Len(ready.items) <= Len(array)
    /\ alg = "RR" => ready.capacity >= Len(array)
    /\ alg # "RR" => ready.items = <<>>

RunInv == pc = "running" => QueuesInv /\ RoomInv

LEMMA ClockAdds ==
    ASSUME NEW m \in Int, NEW n \in Int
    PROVE  Clock(Clock(m) + n) = Clock(m + n)
  BY ModAdd, WordAssumption DEF Clock

LEMMA NowTypes ==
    ASSUME TypeInv, Distinct(pcbs.items, ready.items)
    PROVE  Unique(Now) /\ Now \in SUBSET PcbType
  <1>1. pcbs.items \in Seq(PcbType) /\ ready.items \in Seq(PcbType)
    BY PcbsItems DEF TypeInv
  <1> QED BY <1>1, DistinctAreUnique DEF Now

LEMMA OfZeroIsNat == OfZero(alg) \in Nat
  BY WordIsNat DEF OfZero

\* e runs for n ticks: it ends and leaves the queues, or it is another e2 then.
Leaves(e, n) ==
    /\ Now' = Now \ {e}
    /\ n = Wrapped(OfZero(alg), e.remaining)
    /\ ~Compares

Stays(e, e2, n, ends) ==
    /\ Now' = (Now \ {e}) \cup {e2}
    /\ e2 \in PcbType /\ e2.id = e.id /\ e2.arrival = e.arrival /\ e2.started = TRUE
    /\ ends <=> Compares /\ e2.remaining = 0
    /\ alg = "SJF" => ends
    /\ Wrapped(OfZero(alg), e.remaining) = n + Wrapped(OfZero(alg), e2.remaining)

Progress(e, n, ends) ==
    /\ e \in Now /\ n \in Nat /\ ends \in BOOLEAN
    /\ Compares => e.remaining > 0
    /\ Distinct(pcbs.items, ready.items)'
    /\ \/ ends = TRUE /\ Leaves(e, n)
       \/ \E e2 : Stays(e, e2, n, ends)
    /\ Runs(e.id, n, ends)
    /\ UNCHANGED <<alg, array, pc>>

LEMMA ProgressClock ==
    ASSUME TypeInv, QueuesInv, NEW e, NEW n, NEW ends, Progress(e, n, ends)
    PROVE  /\ SumOf(Ran(array, Now, OfZero(alg))) \in Int
           /\ SumOf(Ran(array, Now', OfZero(alg))) = SumOf(Ran(array, Now, OfZero(alg))) + n
           /\ t' = Clock(SumOf(Ran(array, Now', OfZero(alg))))
  <1> DEFINE z == OfZero(alg)
             sum == SumOf(Ran(array, Now, z))
  <1>0. /\ array \in Seq(Jobs) /\ Unique(Now) /\ Now \in SUBSET PcbType /\ z \in Nat
        /\ e \in Now /\ n \in Nat /\ e.id \in 1 .. Len(array)
    BY NowTypes, OfZeroIsNat DEF QueuesInv, TypeInv, Progress, SoundPcb, Procs
  <1>1. sum \in Int
    BY <1>0, RanTypes
  <1>2. SumOf(Ran(array, Now', z)) = sum + n
    <2>1. CASE Leaves(e, n)
      <3> HIDE DEF z
      <3>1. SumOf(Ran(array, Now \ {e}, z)) = sum + Wrapped(z, e.remaining)
        BY <1>0, RanRemoved
      <3> QED BY <2>1, <3>1 DEF Leaves, z
    <2>2. ASSUME NEW e2, Stays(e, e2, n, ends) PROVE SumOf(Ran(array, Now', z)) = sum + n
      <3>1. /\ e2 \in PcbType /\ e2.id = e.id /\ Now' = (Now \ {e}) \cup {e2}
            /\ Wrapped(z, e.remaining) = n + Wrapped(z, e2.remaining)
        BY <2>2 DEF Stays
      <3> HIDE DEF z
      <3>2. SumOf(Ran(array, (Now \ {e}) \cup {e2}, z)) = sum + n
        <4>1. \A d \in PcbType :
                d.id = e.id /\ Wrapped(z, e.remaining) = n + Wrapped(z, d.remaining)
                => SumOf(Ran(array, (Now \ {e}) \cup {d}, z)) = sum + n
          BY <1>0, RanReplaced
        <4> QED BY <4>1, <3>1
      <3> QED BY <3>1, <3>2
    <2> QED BY <2>1, <2>2 DEF Progress
  <1>3. t' = Clock(t + n) /\ t = Clock(sum)
    BY DEF Progress, Runs, Later, QueuesInv
  <1> HIDE DEF sum, z
  <1>4. t' = Clock(sum + n)
    BY <1>0, <1>1, <1>3, ClockAdds
  <1> QED BY <1>1, <1>2, <1>4 DEF sum, z

LEMMA ProgressKeeps ==
    ASSUME TypeInv, pc = "running", QueuesInv, NEW e, NEW n, NEW ends, Progress(e, n, ends)
    PROVE  QueuesInv'
  <1>0. /\ Unique(Now) /\ Now \in SUBSET PcbType /\ e \in Now /\ SoundPcb(e)
        /\ e.id \in Procs /\ Procs' = Procs /\ alg' = alg /\ array' = array
        /\ exit \in [Procs -> Int] /\ Compares' = Compares
    BY NowTypes, RunningTypes DEF QueuesInv, Progress, SoundPcb, Procs, Compares
  <1>1. Distinct(pcbs.items, ready.items)'
    BY DEF Progress
  <1>2. \A d \in Now' : SoundPcb(d)'
    <2>1. ASSUME NEW d \in Now, SoundPcb(d) PROVE SoundPcb(d)'
      BY <2>1, <1>0 DEF SoundPcb
    <2>2. CASE Leaves(e, n)
      BY <2>1, <2>2 DEF Leaves, QueuesInv
    <2>3. ASSUME NEW e2, Stays(e, e2, n, ends), NEW d \in Now' PROVE SoundPcb(d)'
      <3>1. CASE d = e2
        <4>1. ~ (alg = "SJF" /\ e2.remaining > 0)
          BY <2>3 DEF Stays
        <4> QED BY <3>1, <4>1, <2>3, <1>0 DEF Stays, SoundPcb
      <3>2. CASE d \in Now
        BY <3>2, <2>1 DEF QueuesInv
      <3> QED BY <3>1, <3>2, <2>3 DEF Stays
    <2> QED BY <2>2, <2>3 DEF Progress
  <1>3. /\ exit' = [exit EXCEPT ![e.id] = IF ends THEN t' ELSE @]
        /\ t' \in Nat
    <2>1. n \in Nat /\ t \in Nat
      BY DEF Progress, TypeInv
    <2>2. t' = Clock(t + n) /\ t + n \in Nat
      BY <2>1 DEF Progress, Runs, Later
    <2> QED BY <2>2, ClockIsNat DEF Progress, Runs
  <1>4. \A i \in Procs : exit'[i] = IF i = e.id /\ ends THEN t' ELSE exit[i]
    BY <1>0, <1>3 DEF Progress
  <1>5. ASSUME NEW i \in Procs PROVE Waits(i)' <=> exit'[i] = NEVER
    <2>1. CASE i # e.id
      <3>1. exit'[i] = exit[i]
        BY <1>4, <2>1
      <3>2. \A d : d.id = i => (d \in Now' <=> d \in Now)
        BY <2>1 DEF Progress, Leaves, Stays
      <3>3. Waits(i)' <=> Waits(i)
        BY <3>2, <1>0 DEF Waits
      <3> QED BY <3>1, <3>3 DEF QueuesInv
    <2>2. CASE i = e.id
      <3>1. Waits(i)
        BY <2>2 DEF Waits, Progress
      <3>2. exit[i] = NEVER
        BY <3>1 DEF QueuesInv
      <3>3. CASE ends = TRUE /\ Leaves(e, n)
        <4>1. ~Waits(i)'
          BY <3>3, <2>2, <1>0 DEF Leaves, Waits, Unique
        <4>2. exit'[i] # NEVER
          BY <3>3, <2>2, <1>3, <1>4 DEF NEVER
        <4> QED BY <4>1, <4>2
      <3>4. ASSUME NEW e2, Stays(e, e2, n, ends) PROVE Waits(i)' <=> exit'[i] = NEVER
        <4>1. \A d \in Now' : d.id = i <=> d = e2
          BY <3>4, <2>2, <1>0 DEF Stays, Unique
        <4>2. e2 \in Now' /\ e2.remaining \in Nat
          BY <3>4, WordIsNat DEF Stays, PcbType
        <4>3. Waits(i)' <=> (Compares => e2.remaining > 0)
          BY <4>1, <4>2, <1>0 DEF Waits
        <4>4. ends <=> ~ (Compares => e2.remaining > 0)
          BY <3>4, <4>2 DEF Stays
        <4>5. exit'[i] = NEVER <=> ~ends
          BY <2>2, <3>2, <1>3, <1>4 DEF NEVER
        <4> QED BY <4>3, <4>4, <4>5
      <3> QED BY <3>3, <3>4 DEF Progress
    <2> QED BY <2>1, <2>2
  <1>6. t' = Clock(SumOf(Ran(array, Now, OfZero(alg))))'
    <2>1. t' = Clock(SumOf(Ran(array, Now', OfZero(alg))))
      BY ProgressClock
    <2> QED BY <2>1, <1>0 DEF Clock
  <1> QED BY <1>0, <1>1, <1>2, <1>5, <1>6 DEF QueuesInv

-----------------------------------------------------------------------------
(* Each step keeps the queues.                                             *)

\* What find_shortest_burst finds has arrived and has not ended.
LEMMA ShortestIs ==
    ASSUME NEW k, find_shortest_burst(k), pcbs \in Pcbs
    PROVE  /\ k \in 1 .. Len(pcbs.items)
           /\ Arrived(pcbs.items[k]) /\ pcbs.items[k].remaining > 0
  BY PcbsItems DEF find_shortest_burst

LEMMA FcfsRunsProgress ==
    ASSUME TypeInv, pc = "running", alg = "FCFS", QueuesInv, RoomInv, NEW k, NEW pcb,
           FcfsRuns(k, pcb)
    PROVE  Progress(pcb, pcb.remaining, TRUE) /\ RoomInv'
  <1>0. /\ pcbs.items \in Seq(PcbType) /\ ready.items \in Seq(PcbType)
        /\ k \in 1 .. Len(pcbs.items) /\ pcb = pcbs.items[k] /\ pcb.remaining \in Nat
        /\ Len(pcbs.items) \in Nat /\ Len(ready.items) \in Nat
    <2>1. pcbs \in Pcbs /\ ready \in Pcbs
      BY RunningTypes
    <2>2. pcb \in PcbType /\ k \in 1 .. Len(pcbs.items) /\ pcb = pcbs.items[k]
      BY DEF FcfsRuns
    <2>3. pcb.remaining \in Nat
      BY <2>2, WordIsNat DEF PcbType
    <2> QED BY <2>1, <2>2, <2>3, PcbsItems
  <1>1. /\ Distinct(RemoveAt(pcbs.items, k), ready.items)
        /\ Held(RemoveAt(pcbs.items, k), ready.items) = Now \ {pcb}
        /\ Len(RemoveAt(pcbs.items, k)) = Len(pcbs.items) - 1
    <2>1. Distinct(pcbs.items, ready.items) /\ Now = Held(pcbs.items, ready.items)
      BY DEF QueuesInv, Now
    <2>2. Len(RemoveAt(pcbs.items, k)) = Len(pcbs.items) - 1
      BY <1>0, Removed
    <2> QED BY <1>0, <2>1, <2>2, HeldRemoved
  <1>2. pcbs'.items = RemoveAt(pcbs.items, k) /\ ready' = ready /\ UNCHANGED <<alg, array, pc>>
    BY DEF FcfsRuns, call
  <1>3. Leaves(pcb, pcb.remaining)
    BY <1>1, <1>2 DEF Leaves, Now, Wrapped, OfZero, Compares
  <1>4. pcb \in Now
    BY <1>0 DEF Now, Held, Members
  <1>5. Progress(pcb, pcb.remaining, TRUE)
    BY <1>0, <1>1, <1>2, <1>3, <1>4 DEF Progress, FcfsRuns, Compares
  <1>6. RoomInv'
    <2>1. Len(pcbs'.items) = Len(pcbs.items) - 1
      BY <1>1, <1>2
    <2>2. /\ Len(array) > 0 /\ Len(pcbs.items) + Len(ready.items) <= Len(array)
          /\ ready.items = <<>> /\ Len(array) \in Nat
      BY RunningTypes DEF RoomInv
    <2>3. Len(pcbs'.items) + Len(ready.items) <= Len(array)
      BY <1>0, <2>1, <2>2
    <2>4. alg' = "FCFS" /\ array' = array /\ ready' = ready
      BY <1>2
    <2> QED BY <2>2, <2>3, <2>4 DEF RoomInv
  <1> QED BY <1>5, <1>6

\* What the schedulers that compare put in the place of process k.
LEMMA ReplacedNow ==
    ASSUME TypeInv, pc = "running", Compares, QueuesInv, RoomInv,
           NEW k \in 1 .. Len(pcbs.items), NEW pcb, pcb = pcbs.items[k],
           NEW e2 \in PcbType, e2.id = pcb.id,
           pcbs' = [pcbs EXCEPT !.items[k] = e2], UNCHANGED <<alg, array, ready>>
    PROVE  /\ pcb \in Now
           /\ Distinct(pcbs.items, ready.items)'
           /\ Now' = (Now \ {pcb}) \cup {e2}
           /\ RoomInv'
  <1>0. /\ pcbs.items \in Seq(PcbType) /\ ready.items \in Seq(PcbType) /\ pcbs \in Pcbs
    BY RunningTypes, PcbsItems
  <1>1. /\ pcbs' \in Pcbs /\ pcbs'.items = [pcbs.items EXCEPT ![k] = e2]
        /\ Len(pcbs'.items) = Len(pcbs.items)
        /\ pcbs'.items[k] = e2
        /\ \A j \in 1 .. Len(pcbs.items) : j # k => pcbs'.items[j] = pcbs.items[j]
    BY <1>0, Replaced
  <1>2. pcbs'.items \in Seq(PcbType)
    BY <1>1, PcbsItems
  <1>3. /\ Distinct(pcbs'.items, ready.items)
        /\ Held(pcbs'.items, ready.items) = (Now \ {pcb}) \cup {e2}
    <2>1. Distinct(pcbs.items, ready.items)
      BY DEF QueuesInv
    <2>2. ASSUME NEW u \in Seq(PcbType), Len(u) = Len(pcbs.items), u[k] = e2,
                 \A j \in 1 .. Len(pcbs.items) : j # k => u[j] = pcbs.items[j]
          PROVE  /\ Distinct(u, ready.items)
                 /\ Held(u, ready.items) = (Held(pcbs.items, ready.items) \ {pcb}) \cup {e2}
      <3> DEFINE s == pcbs.items
                 r == ready.items
      <3>1. /\ s \in Seq(PcbType) /\ r \in Seq(PcbType) /\ Distinct(s, r) /\ k \in 1 .. Len(s)
            /\ e2.id = s[k].id /\ pcb = s[k] /\ Len(u) = Len(s)
            /\ \A j \in 1 .. Len(s) : j # k => u[j] = s[j]
        BY <1>0, <2>1, <2>2
      <3> HIDE DEF s, r
      <3>2. Distinct(u, r) /\ Held(u, r) = (Held(s, r) \ {pcb}) \cup {e2}
        BY <2>2, <3>1, HeldReplaced
      <3> QED BY <3>2 DEF s, r
    <2> QED BY <1>1, <1>2, <2>2 DEF Now
  <1>4. pcb \in Now
    BY DEF Now, Held, Members
  <1> QED BY <1>1, <1>3, <1>4 DEF Now, RoomInv

LEMMA SjfRunsProgress ==
    ASSUME TypeInv, pc = "running", alg = "SJF", QueuesInv, RoomInv, NEW k, NEW pcb,
           SjfRuns(k, pcb)
    PROVE  Progress(pcb, pcb.remaining, TRUE) /\ RoomInv'
  <1>0. /\ pcbs \in Pcbs /\ k \in 1 .. Len(pcbs.items) /\ pcb = pcbs.items[k]
        /\ pcb \in PcbType /\ pcb.remaining \in Nat /\ pcb.remaining > 0 /\ Compares
    BY RunningTypes, ShortestIs, WordIsNat DEF SjfRuns, PcbType, Compares
  <1> DEFINE e2 == Finished(pcb)
  <1>1. /\ e2 \in PcbType /\ e2.id = pcb.id /\ e2.arrival = pcb.arrival /\ e2.started = TRUE
        /\ e2.remaining = 0
    BY <1>0 DEF SjfRuns, Finished, PcbType
  <1>2. pcbs' = [pcbs EXCEPT !.items[k] = e2] /\ UNCHANGED <<alg, array, ready, pc>>
    BY DEF SjfRuns, call
  <1> HIDE DEF e2
  <1>3. /\ pcb \in Now
        /\ Distinct(pcbs.items, ready.items)'
        /\ Now' = (Now \ {pcb}) \cup {e2}
        /\ RoomInv'
    BY <1>0, <1>1, <1>2, ReplacedNow
  <1>4. Stays(pcb, e2, pcb.remaining, TRUE)
    BY <1>0, <1>1, <1>3 DEF Stays, Wrapped, OfZero
  <1>5. Progress(pcb, pcb.remaining, TRUE)
    BY <1>0, <1>2, <1>3, <1>4 DEF Progress, SjfRuns
  <1> QED BY <1>3, <1>5

LEMMA SrtfRunsProgress ==
    ASSUME TypeInv, pc = "running", alg = "SRTF", QueuesInv, RoomInv,
           NEW k, NEW pcb, NEW ran, SrtfRuns(k, pcb, ran)
    PROVE  Progress(pcb, 1, ran.remaining = 0) /\ RoomInv'
  <1>0. /\ pcbs \in Pcbs /\ k \in 1 .. Len(pcbs.items) /\ pcb = pcbs.items[k]
        /\ pcb \in PcbType /\ pcb.remaining \in Nat /\ pcb.remaining > 0 /\ Compares
    BY RunningTypes, ShortestIs, WordIsNat DEF SrtfRuns, PcbType, Compares
  <1>1. /\ ran \in PcbType /\ ran.id = pcb.id /\ ran.arrival = pcb.arrival
        /\ ran.started = TRUE /\ ran.remaining = pcb.remaining - 1
    BY <1>0 DEF SrtfRuns
  <1>2. /\ pcbs' = [pcbs EXCEPT !.items[k] = ran] /\ UNCHANGED <<alg, array, ready, pc>>
        /\ Runs(pcb.id, 1, ran.remaining = 0)
    BY DEF SrtfRuns, call
  <1>3. /\ pcb \in Now
        /\ Distinct(pcbs.items, ready.items)'
        /\ Now' = (Now \ {pcb}) \cup {ran}
        /\ RoomInv'
    BY <1>0, <1>1, <1>2, ReplacedNow
  <1>4. Stays(pcb, ran, 1, ran.remaining = 0)
    <2>1. Wrapped(OfZero(alg), pcb.remaining) = 1 + Wrapped(OfZero(alg), ran.remaining)
      BY <1>0, <1>1 DEF Wrapped, OfZero
    <2> QED BY <1>0, <1>1, <1>3, <2>1 DEF Stays
  <1>5. Progress(pcb, 1, ran.remaining = 0)
    BY <1>0, <1>2, <1>3, <1>4 DEF Progress
  <1> QED BY <1>3, <1>5

-----------------------------------------------------------------------------
(* The slices of round_robin.                                              *)

\* What a process has to wait behind k - 1 others.
Behind(k) == (k - 1) * quantum

SliceInv ==
    LET s == ready.items
    IN  /\ q < quantum
        /\ Len(s) = 0 => q = 0
        /\ Len(s) > 0 => q + Wrapped(Word, s[1].remaining) <= Word
        /\ Len(s) > 0 /\ q > 0 => starving[s[1].id] = 0 /\ s[1].started = TRUE

TurnsInv ==
    LET s == ready.items
    IN  /\ \A k \in 1 .. Len(s) : starving[s[k].id] + Behind(k) - q <= Behind(Len(array))
        /\ \A i \in Procs : (\A k \in 1 .. Len(s) : s[k].id # i) => starving[i] = 0

RrInv == pc = "running" /\ alg = "RR" => SliceInv /\ TurnsInv

LEMMA BehindMore ==
    ASSUME TypeInv, NEW k \in Nat
    PROVE  /\ Behind(k) \in Int /\ Behind(k + 1) = Behind(k) + quantum
           /\ Behind(1) = 0
           /\ \A m \in Nat : m >= k => Behind(m) >= Behind(k)
  <1>0. quantum \in Nat
    BY DEF TypeInv
  <1>1. ((k + 1) - 1) * quantum = (k - 1) * quantum + quantum /\ (k - 1) * quantum \in Int
    BY <1>0
  <1>2. ASSUME NEW m \in Nat, m >= k PROVE Behind(m) >= Behind(k)
    <2>1. PICK d \in Nat : m = k + d
      <3>1. m - k \in Nat /\ m = k + (m - k)
        BY <1>2
      <3> QED BY <3>1
    <2>2. (m - 1) * quantum = (k - 1) * quantum + d * quantum
      BY <2>1, <1>0
    <2>3. d * quantum \in Nat
      BY <1>0
    <2> QED BY <1>1, <2>2, <2>3 DEF Behind
  <1> QED BY <1>0, <1>1, <1>2 DEF Behind

LEMMA FairTurns ==
    ASSUME TypeInv, pc = "running", alg = "RR", QueuesInv, SliceInv, TurnsInv
    PROVE  NoStarvation
  <1> DEFINE s == ready.items
  <1>0. /\ quantum \in Nat /\ q \in Nat /\ Len(s) \in Nat /\ starving \in [Procs -> Nat]
        /\ Len(array) \in Nat /\ Procs = 1 .. Len(array) /\ q < quantum
    BY RunningTypes, PcbsItems DEF TypeInv, SliceInv
  <1>1. ASSUME NEW i \in Procs PROVE starving[i] <= Behind(Len(array))
    <2>0. starving[i] \in Nat /\ Behind(Len(array)) \in Int /\ Behind(Len(array)) >= 0
      <3>1. 1 \in Nat /\ Len(array) >= 1
        BY <1>0
      <3> QED BY <3>1, <1>0, BehindMore
    <2>1. CASE \A k \in 1 .. Len(s) : s[k].id # i
      BY <2>0, <2>1 DEF TurnsInv
    <2>2. ASSUME NEW k \in 1 .. Len(s), s[k].id = i PROVE starving[i] <= Behind(Len(array))
      <3>0. k \in Nat /\ Behind(k) \in Int
        BY BehindMore
      <3>1. starving[i] + Behind(k) - q <= Behind(Len(array))
        BY <2>2 DEF TurnsInv
      <3>2. CASE k = 1
        <4>1. Behind(k) = 0
          BY <3>0, <3>2, BehindMore
        <4>2. CASE q = 0
          BY <4>1, <4>2, <3>1, <2>0
        <4>3. CASE q > 0
          <5>1. starving[i] = 0
            BY <4>3, <3>2, <2>2, <1>0 DEF SliceInv
          <5> QED BY <5>1, <2>0
        <4> QED BY <4>2, <4>3, <1>0
      <3>3. CASE k # 1
        <4>1. Behind(k) >= Behind(2) /\ Behind(2) = quantum
          <5>1. 1 \in Nat /\ 2 \in Nat /\ k >= 2 /\ 1 + 1 = 2
            BY <3>3, <3>0
          <5>2. Behind(1 + 1) = Behind(1) + quantum /\ Behind(1) = 0
            BY <5>1, BehindMore
          <5> QED BY <5>1, <5>2, <3>0, <1>0, BehindMore
        <4> QED BY <4>1, <3>0, <3>1, <2>0, <1>0
      <3> QED BY <3>2, <3>3
    <2> QED BY <2>1, <2>2
  <1>2. Behind(Len(array)) = (Len(array) - 1) * quantum
    BY DEF Behind
  <1> QED BY <1>1, <1>2 DEF NoStarvation

LEMMA RrAdmitsKeeps ==
    ASSUME TypeInv, pc = "running", alg = "RR", QueuesInv, RoomInv, SliceInv, TurnsInv,
           NEW k, NEW pcb, RrAdmits(k, pcb)
    PROVE  Now' = Now /\ QueuesInv' /\ RoomInv' /\ SliceInv' /\ TurnsInv'
  <1> DEFINE s == pcbs.items
             r == ready.items
  <1>0. /\ s \in Seq(PcbType) /\ r \in Seq(PcbType) /\ Len(s) \in Nat /\ Len(r) \in Nat
        /\ ready.capacity \in Nat
        /\ Len(array) \in Nat /\ Procs = 1 .. Len(array) /\ starving \in [Procs -> Nat]
        /\ quantum \in Nat /\ q \in Nat
    BY RunningTypes, PcbsItems DEF TypeInv
  <1>1. k \in 1 .. Len(s) /\ pcb = s[k] /\ pcb \in PcbType
    BY DEF RrAdmits
  <1>13. /\ Len(array) > 0 /\ Len(s) + Len(r) <= Len(array)
         /\ ready.capacity >= Len(array)
    BY DEF RoomInv
  <1>14. Len(s) >= 1
    BY <1>0, <1>1
  <1>2. ready.capacity > Len(r) /\ Len(r) + 1 <= Len(array)
    <2> HIDE DEF s, r
    <2> QED BY <1>0, <1>13, <1>14
  <1>3. /\ pcbs'.items = RemoveAt(s, k)
        /\ ready'.items = Append(r, pcb) /\ ready'.capacity = ready.capacity
        /\ alg' = alg /\ quantum' = quantum /\ array' = array /\ t' = t /\ q' = q
        /\ exit' = exit /\ starving' = starving /\ Procs' = Procs
    BY <1>2 DEF RrAdmits, call, clock, ghosts, Procs
  <1>4. Distinct(s, r)
    BY DEF QueuesInv
  <1>5. /\ Distinct(RemoveAt(s, k), Append(r, s[k]))
        /\ Held(RemoveAt(s, k), Append(r, s[k])) = Now
    BY <1>0, <1>1, <1>4, HeldAdmitted DEF Now
  <1>6. /\ Len(RemoveAt(s, k)) = Len(s) - 1 /\ Len(Append(r, pcb)) = Len(r) + 1
        /\ Append(r, pcb)[Len(r) + 1] = pcb
        /\ \A j \in 1 .. Len(r) : Append(r, pcb)[j] = r[j]
    <2>1. Len(RemoveAt(s, k)) = Len(s) - 1
      BY <1>0, <1>1, Removed
    <2>2. /\ Len(Append(r, pcb)) = Len(r) + 1 /\ Append(r, pcb)[Len(r) + 1] = pcb
          /\ \A j \in 1 .. Len(r) : Append(r, pcb)[j] = r[j]
      BY <1>0, <1>1, AppendProperties
    <2> QED BY <2>1, <2>2
  <1>7. Now' = Now
    BY <1>1, <1>3, <1>5 DEF Now
  <1>8. QueuesInv'
    <2>1. \A e \in Now : SoundPcb(e)' <=> SoundPcb(e)
      BY <1>3 DEF SoundPcb
    <2>2. \A i \in Procs : Waits(i)' <=> Waits(i)
      BY <1>3, <1>7 DEF Waits, Compares
    <2>3. Clock(SumOf(Ran(array, Now, OfZero(alg))))' = Clock(SumOf(Ran(array, Now, OfZero(alg))))
      BY <1>3, <1>7 DEF Clock
    <2> QED BY <2>1, <2>2, <2>3, <1>1, <1>3, <1>5, <1>7 DEF QueuesInv
  <1>9. RoomInv'
    <2>1. Len(pcbs'.items) = Len(s) - 1 /\ Len(ready'.items) = Len(r) + 1
      BY <1>3, <1>6
    <2>2. Len(pcbs'.items) + Len(ready'.items) <= Len(array)
      <3> HIDE DEF s, r
      <3> QED BY <1>0, <1>13, <2>1
    <2> QED BY <1>3, <1>13, <2>2 DEF RoomInv
  <1>10. starving[pcb.id] = 0 /\ pcb.id \in Procs
    <2>1. pcb.id \in Procs
      <3>1. pcb \in Now
        BY <1>1 DEF Now, Held, Members
      <3> QED BY <3>1 DEF QueuesInv, SoundPcb
    <2>2. \A j \in 1 .. Len(r) : r[j].id # pcb.id
      BY <1>1, <1>4 DEF Distinct
    <2> QED BY <2>1, <2>2 DEF TurnsInv
  <1>11. SliceInv'
    <2>1. CASE Len(r) = 0
      <3>1. q = 0 /\ q < quantum
        BY <2>1 DEF SliceInv
      <3>2. ready'.items[1] = pcb /\ Len(ready'.items) = 1
        BY <2>1, <1>3, <1>6
      <3>3. Wrapped(Word, pcb.remaining) <= Word
        BY <1>1, WordIsNat DEF Wrapped, PcbType
      <3>4. 0 + Wrapped(Word, pcb.remaining) <= Word
        BY <3>3, <1>1, WordIsNat DEF Wrapped, PcbType
      <3> QED BY <3>1, <3>2, <3>4, <1>3 DEF SliceInv
    <2>2. CASE Len(r) > 0
      <3>1. ready'.items[1] = r[1] /\ Len(ready'.items) > 0 /\ Len(ready'.items) # 0
        BY <2>2, <1>0, <1>3, <1>6
      <3> QED BY <3>1, <2>2, <1>3 DEF SliceInv
    <2> QED BY <2>1, <2>2, <1>0
  <1>12. TurnsInv'
    <2>1. \A m : Behind(m)' = Behind(m)
      BY <1>3 DEF Behind
    <2>2. ASSUME NEW m \in 1 .. Len(r) + 1
          PROVE  starving[Append(r, pcb)[m].id] + Behind(m) - q <= Behind(Len(array))
      <3>1. CASE m = Len(r) + 1
        <4>1. Behind(m) <= Behind(Len(array)) /\ Behind(m) \in Int /\ Behind(Len(array)) \in Int
          <5>1. m <= Len(array) /\ m \in Nat
            BY <3>1, <1>0, <1>2
          <5> QED BY <5>1, <1>0, BehindMore
        <4>2. starving[Append(r, pcb)[m].id] = 0
          BY <3>1, <1>6, <1>10
        <4> QED BY <4>1, <4>2, <1>0
      <3>2. CASE m \in 1 .. Len(r)
        <4>1. starving[r[m].id] + Behind(m) - q <= Behind(Len(array))
          BY <3>2 DEF TurnsInv
        <4> QED BY <4>1, <3>2, <1>6
      <3>3. m = Len(r) + 1 \/ m \in 1 .. Len(r)
        BY <1>0
      <3> QED BY <3>1, <3>2, <3>3
    <2>3. ASSUME NEW i \in Procs, \A m \in 1 .. Len(r) + 1 : Append(r, pcb)[m].id # i
          PROVE  starving[i] = 0
      <3>1. \A m \in 1 .. Len(r) : m \in 1 .. Len(r) + 1
        BY <1>0
      <3>2. \A m \in 1 .. Len(r) : r[m].id # i
        BY <2>3, <3>1, <1>6
      <3> QED BY <3>2 DEF TurnsInv
    <2> QED BY <2>1, <2>2, <2>3, <1>3, <1>6 DEF TurnsInv
  <1> QED BY <1>7, <1>8, <1>9, <1>11, <1>12

\* There is room in the queue, so that its first goes to the end or stays, or ends.
RrGoesOn(pcb, ran) ==
    \/ ran.remaining = 0 /\ TailOf(ready.items, ready'.items) /\ q' = 0
    \/ ran.remaining # 0 /\ Rotated(ready.items, ready'.items, ran)
       /\ q + 1 >= quantum /\ q' = 0
    \/ ran.remaining # 0 /\ HeadSet(ready.items, ready'.items, ran)
       /\ q + 1 < quantum /\ q' = q + 1

LEMMA RrTickedGoesOn ==
    ASSUME TypeInv, pc = "running", alg = "RR", QueuesInv, RoomInv, SliceInv,
           NEW pcb, NEW ran, NEW slice, RrTicked(pcb, ran, slice)
    PROVE  /\ pcb \in PcbType /\ ran \in PcbType /\ ran.id = pcb.id
           /\ ran.arrival = pcb.arrival /\ ran.started = TRUE
           /\ Len(ready.items) > 0 /\ pcb = ready.items[1] /\ pcb.id \in Procs
           /\ ready' \in Pcbs /\ ready'.capacity = ready.capacity
           /\ RrGoesOn(pcb, ran)
           /\ ran.remaining = 0 => Wrapped(Word, pcb.remaining) = 1
           /\ ran.remaining # 0 =>
                Wrapped(Word, pcb.remaining) = 1 + Wrapped(Word, ran.remaining)
  <1> DEFINE n == Len(ready.items)
  <1>0. /\ n \in Nat /\ n > 0 /\ 1 \in 1 .. n /\ pcb = ready.items[1] /\ RrRan(pcb, ran)
        /\ quantum \in Nat /\ q \in Nat /\ Len(pcbs.items) \in Nat /\ Len(array) \in Nat
        /\ ready' \in Pcbs /\ ready.capacity \in Nat
    BY RunningTypes, PcbsItems DEF RrTicked, TypeInv
  <1>1. /\ pcb \in PcbType /\ ran \in PcbType /\ ran.id = pcb.id /\ ran.arrival = pcb.arrival
        /\ ran.started = (pcb.started \/ q = 0)
        /\ ran.remaining = IF pcb.remaining = 0 THEN Word - 1 ELSE pcb.remaining - 1
    BY <1>0 DEF RrRan
  <1>2. ran.started = TRUE
    <2>1. CASE q = 0
      BY <2>1, <1>1
    <2>2. CASE q > 0
      <3>1. pcb.started = TRUE
        BY <2>2, <1>0 DEF SliceInv
      <3> QED BY <3>1, <1>1
    <2>3. q = 0 \/ q > 0
      <3> HIDE DEF n
      <3> QED BY <1>0
    <2> QED BY <2>1, <2>2, <2>3
  <1>3. pcb.id \in Procs
    <2>1. pcb \in Now
      BY <1>0 DEF Now, Held, Members
    <2> QED BY <2>1 DEF QueuesInv, SoundPcb
  <1>4. /\ ran.remaining = 0 => Wrapped(Word, pcb.remaining) = 1
        /\ ran.remaining # 0 => /\ Wrapped(Word, pcb.remaining) = 1 + Wrapped(Word, ran.remaining)
                                /\ Wrapped(Word, ran.remaining) >= 1
    <2>1. pcb.remaining \in 0 .. Word - 1 /\ Word \in Nat /\ Word > 0
      BY <1>1, WordIsNat DEF PcbType
    <2>2. ran.remaining \in 0 .. Word - 1
      BY <1>1 DEF PcbType
    <2>3. CASE pcb.remaining = 0
      BY <2>1, <2>2, <2>3, <1>1 DEF Wrapped
    <2>4. CASE pcb.remaining # 0
      BY <2>1, <2>2, <2>4, <1>1 DEF Wrapped
    <2> QED BY <2>3, <2>4
  <1>5. ready.capacity >= n
    <2>1. Len(pcbs.items) + n <= Len(array) /\ ready.capacity >= Len(array)
      BY DEF RoomInv
    <2> HIDE DEF n
    <2> QED BY <2>1, <1>0
  <1>6. RrQueue(ran, slice) /\ slice = (q + 1) % Word
        /\ q' = IF ran.remaining = 0 \/ slice >= quantum THEN 0 ELSE slice
    BY DEF RrTicked
  <1>7. CASE ran.remaining = 0
    BY <1>0, <1>1, <1>2, <1>3, <1>4, <1>6, <1>7 DEF RrQueue, RrGoesOn
  <1>8. CASE ran.remaining # 0
    <2>1. slice = q + 1
      <3>1. q + Wrapped(Word, pcb.remaining) <= Word
        BY <1>0 DEF SliceInv
      <3>2. Wrapped(Word, ran.remaining) \in Nat
        BY <1>1, WordIsNat DEF Wrapped, PcbType
      <3>3. q + 1 \in 0 .. Word - 1
        BY <3>1, <3>2, <1>0, <1>4, <1>8, WordIsNat
      <3> QED BY <3>3, <1>6, ModSmall, WordAssumption
    <2>2. CASE slice >= quantum
      <3>1. Rotated(ready.items, ready'.items, ran) /\ ready'.capacity = ready.capacity
        BY <1>0, <1>5, <1>6, <1>8, <2>1, <2>2 DEF RrQueue
      <3> QED BY <3>1, <1>0, <1>1, <1>2, <1>3, <1>4, <1>6, <1>8, <2>1, <2>2 DEF RrGoesOn
    <2>3. CASE ~ (slice >= quantum)
      <3>1. HeadSet(ready.items, ready'.items, ran) /\ ready'.capacity = ready.capacity
        BY <1>6, <1>8, <2>3 DEF RrQueue
      <3> QED BY <3>1, <1>0, <1>1, <1>2, <1>3, <1>4, <1>6, <1>8, <2>1, <2>3 DEF RrGoesOn
    <2> QED BY <2>2, <2>3
  <1> QED BY <1>7, <1>8

LEMMA RrTickedProgress ==
    ASSUME TypeInv, pc = "running", alg = "RR", QueuesInv, RoomInv, SliceInv,
           NEW pcb, NEW ran, NEW slice, RrTicked(pcb, ran, slice)
    PROVE  Progress(pcb, 1, ran.remaining = 0) /\ RoomInv'
  <1> DEFINE s == pcbs.items
             r == ready.items
             u == ready'.items
  <1>0. /\ pcb \in PcbType /\ ran \in PcbType /\ ran.id = pcb.id
        /\ ran.arrival = pcb.arrival /\ ran.started = TRUE
        /\ Len(r) > 0 /\ pcb = r[1]
        /\ ready' \in Pcbs /\ ready'.capacity = ready.capacity
        /\ RrGoesOn(pcb, ran)
        /\ ran.remaining = 0 => Wrapped(Word, pcb.remaining) = 1
        /\ ran.remaining # 0 => Wrapped(Word, pcb.remaining) = 1 + Wrapped(Word, ran.remaining)
    BY RrTickedGoesOn
  <1>1. /\ s \in Seq(PcbType) /\ r \in Seq(PcbType) /\ u \in Seq(PcbType)
        /\ Len(s) \in Nat /\ Len(r) \in Nat /\ Len(u) \in Nat /\ Distinct(s, r)
    BY <1>0, RunningTypes, PcbsItems DEF QueuesInv
  <1>2. UNCHANGED <<alg, array, pcbs, pc>> /\ Runs(pcb.id, 1, ran.remaining = 0)
    BY DEF RrTicked, call
  <1>3. pcb \in Now
    BY <1>0, <1>1 DEF Now, Held, Members
  <1>4. OfZero(alg) = Word /\ ~Compares
    BY DEF OfZero, Compares
  <1>7. ASSUME Len(u) <= Len(r) PROVE RoomInv'
    <2>1. /\ Len(array) > 0 /\ Len(s) + Len(r) <= Len(array) /\ Len(array) \in Nat
          /\ ready.capacity >= Len(array)
      BY RunningTypes DEF RoomInv
    <2>2. Len(s) + Len(u) <= Len(array)
      <3> HIDE DEF s, r, u
      <3> QED BY <1>1, <1>7, <2>1
    <2> QED BY <1>0, <1>2, <2>1, <2>2 DEF RoomInv
  <1>5. CASE ran.remaining = 0
    <2>1. TailOf(r, u)
      BY <1>0, <1>5 DEF RrGoesOn
    <2>2. Distinct(s, u) /\ Held(s, u) = Held(s, r) \ {r[1]}
      BY <1>0, <1>1, <2>1, HeldTail
    <2>3. Leaves(pcb, 1)
      BY <1>0, <1>2, <1>4, <1>5, <2>2 DEF Leaves, Now
    <2>4. Progress(pcb, 1, ran.remaining = 0)
      BY <1>2, <1>3, <1>4, <1>5, <2>2, <2>3 DEF Progress
    <2>5. Len(u) = Len(r) - 1
      BY <2>1 DEF TailOf
    <2>6. RoomInv'
      BY <2>5, <1>7
    <2> QED BY <2>4, <2>6
  <1>6. CASE ran.remaining # 0
    <2>1. /\ Distinct(s, u) /\ Held(s, u) = (Held(s, r) \ {r[1]}) \cup {ran}
          /\ Len(u) = Len(r)
      <3> HIDE DEF s, r, u
      <3>1. Rotated(r, u, ran) => Len(u) = Len(r)
        BY DEF Rotated
      <3>2. HeadSet(r, u, ran) => Len(u) = Len(r)
        BY DEF HeadSet
      <3>3. \A v \in Seq(PcbType) : Rotated(r, v, ran) =>
              Distinct(s, v) /\ Held(s, v) = (Held(s, r) \ {r[1]}) \cup {ran}
        BY <1>0, <1>1, HeldRotated
      <3>4. \A v \in Seq(PcbType) : HeadSet(r, v, ran) =>
              Distinct(s, v) /\ Held(s, v) = (Held(s, r) \ {r[1]}) \cup {ran}
        BY <1>0, <1>1, HeldHeadSet
      <3>5. Rotated(r, u, ran) \/ HeadSet(r, u, ran)
        BY <1>0, <1>6 DEF RrGoesOn, r, u
      <3> QED BY <1>1, <3>1, <3>2, <3>3, <3>4, <3>5
    <2>2. Stays(pcb, ran, 1, FALSE)
      BY <1>0, <1>2, <1>4, <1>6, <2>1 DEF Stays, Now
    <2>3. Progress(pcb, 1, FALSE)
      <3>1. Runs(pcb.id, 1, FALSE)
        <4>1. (ran.remaining = 0) = FALSE
          BY <1>6
        <4> QED BY <1>2, <4>1
      <3> QED BY <1>2, <1>3, <1>4, <2>1, <2>2, <3>1 DEF Progress
    <2>4. (ran.remaining = 0) = FALSE
      BY <1>6
    <2>5. RoomInv'
      BY <2>1, <1>1, <1>7
    <2> QED BY <2>3, <2>4, <2>5
  <1> QED BY <1>5, <1>6

LEMMA BelowStays ==
    ASSUME NEW a \in Nat, NEW b \in Int, NEW c \in Int, NEW m \in Int, NEW n \in Nat,
           NEW k \in Nat, k < n, c = b + n, a + c - k <= m
    PROVE  a + 1 + b - 0 <= m
  OBVIOUS

LEMMA RrTickedTurns ==
    ASSUME TypeInv, pc = "running", alg = "RR", QueuesInv, RoomInv, SliceInv, TurnsInv,
           NEW pcb, NEW ran, NEW slice, RrTicked(pcb, ran, slice)
    PROVE  SliceInv' /\ TurnsInv'
  <1> DEFINE r == ready.items
             u == ready'.items
             n == Len(ready.items)
  <1>0. /\ pcb \in PcbType /\ ran \in PcbType /\ ran.id = pcb.id /\ ran.started = TRUE
        /\ n > 0 /\ pcb = r[1] /\ pcb.id \in Procs
        /\ ready' \in Pcbs
        /\ RrGoesOn(pcb, ran)
        /\ ran.remaining # 0 => Wrapped(Word, pcb.remaining) = 1 + Wrapped(Word, ran.remaining)
    BY RrTickedGoesOn
  <1>1. /\ r \in Seq(PcbType) /\ u \in Seq(PcbType)
        /\ n \in Nat /\ Len(u) \in Nat /\ Distinct(pcbs.items, r) /\ DOMAIN r = 1 .. n
        /\ \A k : dyn_array_at(ready, k) = r[k]
        /\ quantum \in Nat /\ q \in Nat /\ starving \in [Procs -> Nat]
        /\ Len(array) \in Nat
    BY <1>0, RunningTypes, PcbsItems DEF QueuesInv, TypeInv
  <1>2. /\ alg' = alg /\ quantum' = quantum /\ array' = array /\ Procs' = Procs
        /\ starving' = [i \in Procs |-> IF i \in Waiters(pcb.id) THEN starving[i] + 1 ELSE 0]
    BY DEF RrTicked, call, Runs, Procs
  <1>3. \A m : Behind(m)' = Behind(m)
    BY <1>2 DEF Behind
  <1>4. \A j \in 2 .. n : j \in 1 .. n /\ r[j].id \in Procs /\ r[j].id # pcb.id
    <2> SUFFICES ASSUME NEW j \in 2 .. n
                 PROVE  j \in 1 .. n /\ r[j].id \in Procs /\ r[j].id # pcb.id
      OBVIOUS
    <2>1. j \in 1 .. n /\ 1 \in 1 .. n /\ j # 1
      BY <1>0, <1>1
    <2>2. r[j].id # r[1].id
      BY <2>1, <1>1 DEF Distinct
    <2>3. r[j] \in Now
      BY <2>1 DEF Now, Held, Members
    <2> QED BY <2>1, <2>2, <2>3, <1>0 DEF QueuesInv, SoundPcb
  <1>5. \A j \in 2 .. n : starving'[r[j].id] = starving[r[j].id] + 1
    BY <1>1, <1>2, <1>4 DEF Waiters
  <1>6. starving'[pcb.id] = 0
    BY <1>0, <1>2 DEF Waiters
  <1>7. ASSUME NEW i \in Procs, \A j \in 2 .. n : r[j].id # i PROVE starving'[i] = 0
    <2>1. i \notin Waiters(pcb.id)
      <3>1. \A j \in 1 .. n : j = 1 \/ j \in 2 .. n
        BY <1>1
      <3> QED BY <3>1, <1>7, <1>0, <1>1 DEF Waiters
    <2> QED BY <2>1, <1>2
  <1>8. ASSUME NEW j \in 2 .. n
        PROVE  /\ Behind(j) = Behind(j - 1) + quantum /\ Behind(j) \in Int /\ Behind(j - 1) \in Int
               /\ starving[r[j].id] + Behind(j) - q <= Behind(Len(array))
               /\ starving[r[j].id] \in Nat
    <2>1. j - 1 \in Nat /\ j = (j - 1) + 1 /\ j \in Nat
      OBVIOUS
    <2>2. Behind((j - 1) + 1) = Behind(j - 1) + quantum /\ Behind(j - 1) \in Int
      BY <2>1, BehindMore
    <2>3. starving[r[j].id] \in Nat
      BY <1>1, <1>4
    <2>4. starving[r[j].id] + Behind(j) - q <= Behind(Len(array))
      BY <1>4 DEF TurnsInv
    <2>5. Behind(j) \in Int
      BY <2>1, BehindMore
    <2> QED BY <2>1, <2>2, <2>3, <2>4, <2>5
  <1>9. /\ Behind(Len(array)) \in Int /\ Behind(Len(array)) >= Behind(n) /\ Behind(n) \in Int
        /\ Behind(n) >= 0 /\ Behind(1) = 0 /\ Behind(Len(array)) >= 0
    <2>1. Len(array) >= n
      <3>1. Len(pcbs.items) + n <= Len(array) /\ Len(pcbs.items) \in Nat
        BY RunningTypes, PcbsItems DEF RoomInv
      <3> HIDE DEF n
      <3> QED BY <3>1, <1>1
    <2>2. n >= 1 /\ 1 \in Nat
      BY <1>0, <1>1
    <2>3. Behind(n) >= Behind(1) /\ Behind(1) = 0 /\ Behind(n) \in Int
      BY <2>2, <1>1, BehindMore
    <2>4. Behind(Len(array)) >= Behind(n) /\ Behind(Len(array)) \in Int
      BY <2>1, <1>1, BehindMore
    <2> QED BY <2>3, <2>4
  <1>10. q < quantum /\ q + Wrapped(Word, pcb.remaining) <= Word
    BY <1>0 DEF SliceInv
  <1>11. ASSUME NEW e \in PcbType PROVE 0 + Wrapped(Word, e.remaining) <= Word
    BY <1>11, WordIsNat DEF Wrapped, PcbType
  <1>12. CASE ran.remaining = 0 /\ TailOf(r, u) /\ q' = 0
    <2>1. Len(u) = n - 1 /\ \A j \in 1 .. n - 1 : u[j] = r[j + 1] /\ j + 1 \in 2 .. n
      BY <1>1, <1>12 DEF TailOf
    <2>2. SliceInv'
      <3>1. Len(u) > 0 => u[1] \in PcbType
        BY <1>1
      <3> QED BY <3>1, <1>1, <1>2, <1>10, <1>11, <1>12 DEF SliceInv
    <2>3. ASSUME NEW j \in 1 .. Len(u)
          PROVE  starving'[u[j].id] + Behind(j) - q' <= Behind(Len(array))
      <3>1. u[j] = r[j + 1] /\ j + 1 \in 2 .. n /\ (j + 1) - 1 = j
        BY <2>1, <1>1
      <3>2. starving'[u[j].id] = starving[r[j + 1].id] + 1
        BY <3>1, <1>5
      <3>3. /\ Behind(j + 1) = Behind(j) + quantum /\ Behind(j) \in Int
            /\ starving[r[j + 1].id] + Behind(j + 1) - q <= Behind(Len(array))
            /\ starving[r[j + 1].id] \in Nat
        BY <3>1, <1>8
      <3>4. Behind(Len(array)) \in Int /\ quantum \in Nat /\ q \in Nat /\ q < quantum /\ q' = 0
        BY <1>1, <1>9, <1>10, <1>12
      <3> DEFINE a == starving[r[j + 1].id]
                 w == Behind(Len(array))
      <3>5. a \in Nat /\ w \in Int /\ a + Behind(j + 1) - q <= w /\ Behind(j + 1) \in Int
        BY <3>3, <3>4
      <3>6. a + 1 + Behind(j) - 0 <= w
        <4> HIDE DEF a, w
        <4> QED BY <3>3, <3>4, <3>5, BelowStays
      <3>7. starving'[u[j].id] = a + 1 /\ q' = 0
        BY <3>2, <3>4
      <3> QED BY Zenon, <3>6, <3>7
    <2>4. ASSUME NEW i \in Procs, \A j \in 1 .. Len(u) : u[j].id # i
          PROVE  starving'[i] = 0
      <3>2. ASSUME NEW j \in 2 .. n PROVE r[j].id # i
        <4>1. j - 1 \in 1 .. n - 1 /\ j - 1 \in 1 .. n /\ (j - 1) + 1 = j
          BY <1>1
        <4>2. u[j - 1] = r[(j - 1) + 1] /\ j - 1 \in 1 .. Len(u)
          BY <2>1, <4>1
        <4>3. u[j - 1].id # i
          BY <2>4, <4>2
        <4> QED BY <4>1, <4>2, <4>3
      <3> QED BY <3>2, <1>7
    <2>5. TurnsInv'
      BY <2>3, <2>4, <1>2, <1>3 DEF TurnsInv
    <2> QED BY <2>2, <2>5
  <1>13. CASE ran.remaining # 0 /\ Rotated(r, u, ran) /\ q' = 0
    <2>1. Len(u) = n /\ u[n] = ran /\ \A j \in 1 .. n - 1 : u[j] = r[j + 1] /\ j + 1 \in 2 .. n
      BY <1>1, <1>13 DEF Rotated
    <2>2. SliceInv'
      <3>1. u[1] \in PcbType
        BY <1>0, <1>1, <2>1
      <3> QED BY <3>1, <1>0, <1>1, <1>2, <1>10, <1>11, <1>13, <2>1 DEF SliceInv
    <2>3. ASSUME NEW j \in 1 .. Len(u)
          PROVE  starving'[u[j].id] + Behind(j) - q' <= Behind(Len(array))
      <3>a. CASE j = n
        BY <3>a, <2>1, <1>0, <1>6, <1>9, <1>13
      <3>b. CASE j # n
        <4>1. u[j] = r[j + 1] /\ j + 1 \in 2 .. n /\ (j + 1) - 1 = j
          BY <3>b, <2>1, <1>1
        <4>2. starving'[u[j].id] = starving[r[j + 1].id] + 1
          BY <4>1, <1>5
        <4>3. /\ Behind(j + 1) = Behind(j) + quantum /\ Behind(j) \in Int
              /\ starving[r[j + 1].id] + Behind(j + 1) - q <= Behind(Len(array))
              /\ starving[r[j + 1].id] \in Nat
          BY <4>1, <1>8
        <4>4. Behind(Len(array)) \in Int /\ quantum \in Nat /\ q \in Nat /\ q < quantum /\ q' = 0
          BY <1>1, <1>9, <1>10, <1>13
        <4> DEFINE a == starving[r[j + 1].id]
                   w == Behind(Len(array))
        <4>5. a \in Nat /\ w \in Int /\ a + Behind(j + 1) - q <= w /\ Behind(j + 1) \in Int
          BY <4>3, <4>4
        <4>6. a + 1 + Behind(j) - 0 <= w
          <5> HIDE DEF a, w
          <5> QED BY <4>3, <4>4, <4>5, BelowStays
        <4>7. starving'[u[j].id] = a + 1 /\ q' = 0
          BY <4>2, <4>4
        <4> QED BY Zenon, <4>6, <4>7
      <3> QED BY <3>a, <3>b
    <2>4. ASSUME NEW i \in Procs, \A j \in 1 .. Len(u) : u[j].id # i
          PROVE  starving'[i] = 0
      <3>2. ASSUME NEW j \in 2 .. n PROVE r[j].id # i
        <4>1. j - 1 \in 1 .. n - 1 /\ j - 1 \in 1 .. n /\ (j - 1) + 1 = j
          BY <1>1
        <4>2. u[j - 1] = r[(j - 1) + 1] /\ j - 1 \in 1 .. Len(u)
          BY <2>1, <4>1
        <4>3. u[j - 1].id # i
          BY <2>4, <4>2
        <4> QED BY <4>1, <4>2, <4>3
      <3> QED BY <3>2, <1>7
    <2>5. TurnsInv'
      BY <2>3, <2>4, <1>2, <1>3 DEF TurnsInv
    <2> QED BY <2>2, <2>5
  <1>14. CASE ran.remaining # 0 /\ HeadSet(r, u, ran) /\ q + 1 < quantum /\ q' = q + 1
    <2>1. Len(u) = n /\ u[1] = ran /\ \A j \in 2 .. n : u[j] = r[j]
      BY <1>1, <1>14 DEF HeadSet
    <2>2. SliceInv'
      <3>1. (q + 1) + Wrapped(Word, ran.remaining) <= Word
        <4>1. Wrapped(Word, ran.remaining) \in Nat
          BY <1>0, WordIsNat DEF Wrapped, PcbType
        <4> QED BY <4>1, <1>0, <1>1, <1>10, <1>14, WordIsNat
      <3> QED BY <3>1, <1>0, <1>2, <1>6, <1>14, <2>1 DEF SliceInv
    <2>3. ASSUME NEW j \in 1 .. Len(u)
          PROVE  starving'[u[j].id] + Behind(j) - q' <= Behind(Len(array))
      <3>a. CASE j = 1
        BY <3>a, <2>1, <1>0, <1>1, <1>6, <1>9, <1>14
      <3>b. CASE j # 1
        <4>1. u[j] = r[j] /\ j \in 2 .. n
          BY <3>b, <2>1, <1>1
        <4>2. starving'[u[j].id] = starving[r[j].id] + 1
          BY <4>1, <1>5
        <4>3. /\ Behind(j) \in Int /\ starving[r[j].id] \in Nat
              /\ starving[r[j].id] + Behind(j) - q <= Behind(Len(array))
          BY <4>1, <1>8
        <4> DEFINE a == starving[r[j].id]
                   w == Behind(Len(array))
                   b == Behind(j)
        <4>4. a \in Nat /\ b \in Int /\ w \in Int /\ q \in Nat /\ a + b - q <= w
          BY <4>3, <1>1, <1>9
        <4>5. starving'[u[j].id] = a + 1 /\ q' = q + 1
          BY <4>2, <1>1, <1>14
        <4> HIDE DEF a, b, w
        <4>6. (a + 1) + b - (q + 1) <= w
          BY <4>4
        <4> QED BY <4>5, <4>6 DEF b, w
      <3> QED BY <3>a, <3>b
    <2>4. ASSUME NEW i \in Procs, \A j \in 1 .. Len(u) : u[j].id # i
          PROVE  starving'[i] = 0
      <3>1. \A j \in 2 .. n : j \in 1 .. n
        BY <1>1
      <3>2. \A j \in 2 .. n : r[j].id # i
        BY <2>1, <2>4, <3>1
      <3> QED BY <3>2, <1>7
    <2>5. TurnsInv'
      BY <2>3, <2>4, <1>2, <1>3 DEF TurnsInv
    <2> QED BY <2>2, <2>5
  <1> QED BY <1>0, <1>12, <1>13, <1>14 DEF RrGoesOn

-----------------------------------------------------------------------------
(* The sums of the result.                                                 *)

\* How long each process that has ended was there.
Flows(jobs, ex) ==
    [i \in 1 .. Len(jobs) |-> IF ex[i] = NEVER THEN 0 ELSE ex[i] - jobs[i].arrival]

\* The bursts of the processes that have begun.
Begun(C, ex, i) == ex[i] # NEVER \/ \E e \in C : e.id = i /\ e.started
BegunBursts(jobs, C, ex) ==
    [i \in 1 .. Len(jobs) |-> IF Begun(C, ex, i) THEN jobs[i].burst ELSE 0]

\* The calls of which the result is exact.
Exact ==
    /\ 2 * SumOf(Bursts) < Word
    /\ alg \in {"SJF", "SRTF"} \/ (alg = "RR" /\ \A i \in Procs : array[i].burst > 0)

LeftRight(e) == e.remaining <= array[e.id].burst /\ (alg = "RR" => e.remaining > 0)

SumsInv ==
    /\ \A e \in Now : LeftRight(e)
    /\ \A k \in 1 .. Len(ready.items) : ready.items[k].arrival <= t
    /\ turnaround = SumOf(Flows(array, exit))
    /\ waiting = turnaround - SumOf(BegunBursts(array, Now, exit))

CountInv == pc = "running" /\ Exact => SumsInv

RestInv == pc # "running" => NoStarvation

SInv == PInv /\ RunInv /\ RrInv /\ RestInv /\ CountInv /\ StatisticsRight

LEMMA NobodyStarves == SInv => NoStarvation
  <1> SUFFICES ASSUME SInv PROVE NoStarvation
    OBVIOUS
  <1>1. CASE pc = "running" /\ alg = "RR"
    BY <1>1, FairTurns DEF SInv, PInv, RunInv, RrInv
  <1>2. CASE ~ (pc = "running" /\ alg = "RR")
    BY <1>2 DEF SInv, RestInv, NoStarvation
  <1> QED BY <1>1, <1>2

LEMMA Elsewhere ==
    ASSUME PInv', pc' \notin {"running", "returned"},
           alg' # "RR" \/ (NoStarvation /\ UNCHANGED <<alg, starving, array, quantum>>)
    PROVE  SInv'
  <1>1. NoStarvation'
    BY DEF NoStarvation, Procs
  <1>2. RunInv' /\ RrInv' /\ CountInv' /\ StatisticsRight'
    BY DEF RunInv, RrInv, CountInv, StatisticsRight, Done
  <1> QED BY <1>1, <1>2 DEF SInv, RestInv

LEMMA JobBursts ==
    ASSUME NEW jobs \in Seq(Jobs), NEW i \in 1 .. Len(jobs)
    PROVE  jobs[i].burst \in 0 .. Word - 1 /\ jobs[i].arrival \in 0 .. Word - 1
  <1>1. jobs[i] \in Jobs
    OBVIOUS
  <1> QED BY <1>1, InputAssumption

\* The queues at the begin of a call.
FirstQueues(C) == C = {Loaded(k) : k \in Procs}

LEMMA FirstSums ==
    ASSUME array \in Seq(Jobs), NEW z \in Nat,
           NEW C \in SUBSET PcbType, FirstQueues(C)
    PROVE  /\ Unique(C)
           /\ SumOf(Ran(array, C, z)) = 0
  <1>1. \A k \in Procs : Loaded(k) \in C /\ Loaded(k).id = k /\ Loaded(k).remaining = array[k].burst
    BY DEF FirstQueues, Loaded
  <1>2. Unique(C)
    <2>1. \A d \in C : \E k \in Procs : d = Loaded(k)
      BY DEF FirstQueues
    <2>2. ASSUME NEW d \in C, NEW e \in C, d.id = e.id PROVE d = e
      <3>1. PICK j \in Procs : d = Loaded(j)
        BY <2>1
      <3>2. PICK k \in Procs : e = Loaded(k)
        BY <2>1
      <3>3. j = k
        BY <2>2, <3>1, <3>2, <1>1
      <3> QED BY <3>1, <3>2, <3>3
    <2> QED BY <2>2 DEF Unique
  <1> DEFINE f == Ran(array, C, z)
  <1>3. /\ f \in Seq(Int) /\ Len(f) = Len(array)
        /\ \A i \in 1 .. Len(array) : f[i] = Wrapped(z, array[i].burst) - RestIn(C, z, i)
    BY <1>2, RanTypes
  <1>4. ASSUME NEW i \in 1 .. Len(array) PROVE f[i] = 0
    <2>1. RestIn(C, z, Loaded(i).id) = Wrapped(z, Loaded(i).remaining)
      BY <1>1, <1>2, RestOf DEF Procs
    <2>2. RestIn(C, z, i) = Wrapped(z, array[i].burst)
      BY <2>1, <1>1 DEF Procs
    <2>3. Wrapped(z, array[i].burst) \in Nat
      BY JobBursts, WordIsNat DEF Wrapped
    <2> QED BY <1>3, <2>2, <2>3
  <1> HIDE DEF f
  <1>5. SumOf(f) = 0
    BY <1>3, <1>4, SumOfZeros
  <1> QED BY <1>2, <1>5 DEF f

LEMMA BeginsRuns ==
    ASSUME PInv, pc = "dispatch", NEW a \in Algorithms, NEW n \in Nat, Begin(a, n),
           UNCHANGED <<load, code>>, pc' = "running"
    PROVE  /\ FirstQueues(Now') /\ Now' \in SUBSET PcbType
           /\ QueuesInv' /\ RoomInv' /\ (a = "RR" => SliceInv' /\ TurnsInv')
           /\ NoStarvation'
  <1>0. /\ alg' = a /\ quantum' = n /\ array' = array /\ pcbs' = pcbs
        /\ t' = 0 /\ q' = 0 /\ Procs' = Procs
        /\ exit' = [i \in Procs |-> IF a \in {"SJF", "SRTF"} /\ array[i].burst = 0
                                    THEN array[i].arrival ELSE NEVER]
        /\ starving' = [i \in Procs |-> 0]
    BY DEF Begin, clock, Procs, PInv, LoadInv, Loading
  <1>1. /\ Len(pcbs.items) = Len(array) /\ Len(array) \in Nat /\ Procs = 1 .. Len(array)
        /\ \A k \in Procs : pcbs.items[k] = Loaded(k)
        /\ pcbs.items \in Seq(PcbType) /\ array \in Seq(Jobs)
    BY PcbsItems, ProcsUpto DEF PInv, TypeInv, LoadInv
  <1>2. /\ Len(array) > 0
        /\ a = "RR" => ready'.capacity >= Len(array) /\ ready'.items = <<>> /\ n > 0
    BY BeginsP
  <1>3. ready'.items = <<>>
    <2>1. a # "RR" => ready' = ready
      BY DEF Begin
    <2>2. ready = NULL
      BY DEF PInv, LoadInv, Loading
    <2> QED BY <1>2, <2>1, <2>2, NullIsArray
  <1>4. Len(ready'.items) = 0 /\ \A k : k \notin 1 .. Len(ready'.items)
    BY <1>3
  <1>5. Now' = {Loaded(k) : k \in Procs}
    <2>1. Members(ready'.items) = {}
      BY <1>4 DEF Members
    <2>2. Members(pcbs.items) = {Loaded(k) : k \in Procs}
      BY <1>1 DEF Members
    <2> QED BY <1>0, <2>1, <2>2 DEF Now, Held
  <1>6. FirstQueues(Now') /\ Now' \in SUBSET PcbType
    <2>1. \A k \in Procs : pcbs.items[k] \in PcbType
      BY <1>1
    <2> QED BY <1>1, <1>5, <2>1 DEF FirstQueues
  <1>7. Distinct(pcbs.items, ready.items)'
    <2>1. \A j \in Procs : Loaded(j).id = j
      BY DEF Loaded
    <2>2. \A j \in 1 .. Len(pcbs.items) : pcbs.items[j].id = j
      BY <1>1, <2>1
    <2>3. /\ \A j, k \in 1 .. Len(pcbs.items) : pcbs.items[j].id = pcbs.items[k].id => j = k
          /\ \A j, k \in 1 .. Len(ready'.items) : ready'.items[j].id = ready'.items[k].id => j = k
          /\ \A j \in 1 .. Len(pcbs.items), k \in 1 .. Len(ready'.items) :
               pcbs.items[j].id # ready'.items[k].id
      BY <1>4, <2>2
    <2> QED BY <1>0, <2>3 DEF Distinct
  <1>8. \A e \in Now' : SoundPcb(e)'
    BY <1>0, <1>5 DEF Loaded, SoundPcb
  <1>9. \A i \in Procs : Waits(i)' <=> exit'[i] = NEVER
    <2> SUFFICES ASSUME NEW i \in Procs PROVE Waits(i)' <=> exit'[i] = NEVER
      OBVIOUS
    <2>1. array[i].burst \in 0 .. Word - 1 /\ array[i].arrival \in 0 .. Word - 1
      BY JobTypes DEF PInv
    <2>2. \A e \in Now' : e.id = i <=> e = Loaded(i)
      BY <1>5 DEF Loaded
    <2>3. Loaded(i) \in Now' /\ Loaded(i).id = i /\ Loaded(i).remaining = array[i].burst
      BY <1>5 DEF Loaded
    <2>4. Waits(i)' <=> (a \in {"SJF", "SRTF"} => array[i].burst > 0)
      BY <2>2, <2>3, <1>0 DEF Waits, Compares
    <2>5. exit'[i] = NEVER <=> ~ (a \in {"SJF", "SRTF"} /\ array[i].burst = 0)
      BY <1>0, <2>1, WordIsNat DEF NEVER
    <2> QED BY <2>1, <2>4, <2>5, WordIsNat
  <1>10. t' = Clock(SumOf(Ran(array, Now, OfZero(alg))))'
    <2>1. OfZero(a) \in Nat
      BY WordIsNat DEF OfZero
    <2>2. SumOf(Ran(array, Now', OfZero(a))) = 0
      BY <2>1, <1>1, <1>6, FirstSums
    <2>3. 0 % Word = 0
      BY WordAssumption, WordIsNat, ModSmall
    <2> QED BY <2>2, <2>3, <1>0 DEF Clock
  <1>11. QueuesInv'
    BY <1>0, <1>7, <1>8, <1>9, <1>10 DEF QueuesInv
  <1>12. RoomInv'
    BY <1>0, <1>1, <1>2, <1>3, <1>4 DEF RoomInv
  <1>13. ASSUME a = "RR" PROVE SliceInv'
    BY <1>0, <1>2, <1>4, <1>13 DEF SliceInv
  <1>14. TurnsInv'
    BY <1>0, <1>4 DEF TurnsInv
  <1>15. NoStarvation'
    <2>1. Len(array) - 1 \in Nat
      BY <1>1, <1>2
    <2>2. (Len(array) - 1) * n \in Nat
      BY <2>1
    <2> QED BY <1>0, <2>2 DEF NoStarvation
  <1> QED BY <1>6, <1>11, <1>12, <1>13, <1>14, <1>15

LEMMA FlowsTypes ==
    ASSUME NEW jobs \in Seq(Jobs), NEW ex \in [1 .. Len(jobs) -> Int], NEW C
    PROVE  /\ Flows(jobs, ex) \in Seq(Int) /\ Len(Flows(jobs, ex)) = Len(jobs)
           /\ \A i \in 1 .. Len(jobs) : Flows(jobs, ex)[i] =
                IF ex[i] = NEVER THEN 0 ELSE ex[i] - jobs[i].arrival
           /\ BegunBursts(jobs, C, ex) \in Seq(Int)
           /\ Len(BegunBursts(jobs, C, ex)) = Len(jobs)
           /\ \A i \in 1 .. Len(jobs) : BegunBursts(jobs, C, ex)[i] =
                IF Begun(C, ex, i) THEN jobs[i].burst ELSE 0
           /\ SumOf(Flows(jobs, ex)) \in Int /\ SumOf(BegunBursts(jobs, C, ex)) \in Int
  <1>0. Len(jobs) \in Nat
    OBVIOUS
  <1>1. \A i \in 1 .. Len(jobs) : /\ (IF ex[i] = NEVER THEN 0 ELSE ex[i] - jobs[i].arrival) \in Int
                                  /\ jobs[i].burst \in Int
    BY JobBursts, WordIsNat
  <1>2. Flows(jobs, ex) \in [1 .. Len(jobs) -> Int]
    BY <1>1 DEF Flows
  <1>3. BegunBursts(jobs, C, ex) \in [1 .. Len(jobs) -> Int]
    BY <1>1 DEF BegunBursts
  <1>4. /\ Flows(jobs, ex) \in Seq(Int) /\ Len(Flows(jobs, ex)) = Len(jobs)
        /\ BegunBursts(jobs, C, ex) \in Seq(Int) /\ Len(BegunBursts(jobs, C, ex)) = Len(jobs)
    <2>1. \A f \in [1 .. Len(jobs) -> Int] : f \in Seq(Int) /\ Len(f) = Len(jobs)
      BY <1>0
    <2> QED BY <2>1, <1>2, <1>3
  <1>5. SumOf(Flows(jobs, ex)) \in Int /\ SumOf(BegunBursts(jobs, C, ex)) \in Int
    BY <1>4, SumIsInt
  <1> QED BY <1>4, <1>5 DEF Flows, BegunBursts

\* One process, id, ends or has begun; of the others nothing changes.
OneBegins(jobs, C, D, ex, ex2, id) ==
    /\ jobs \in Seq(Jobs) /\ id \in 1 .. Len(jobs)
    /\ ex \in [1 .. Len(jobs) -> Int] /\ ex2 \in [1 .. Len(jobs) -> Int]
    /\ \A i \in 1 .. Len(jobs) : i # id => ex2[i] = ex[i]
    /\ \A e : e.id # id => (e \in C <=> e \in D)
    /\ ex[id] = NEVER /\ Begun(D, ex2, id)

LEMMA FlowsMore ==
    ASSUME NEW jobs, NEW C, NEW D, NEW ex, NEW ex2, NEW id,
           OneBegins(jobs, C, D, ex, ex2, id)
    PROVE  /\ SumOf(Flows(jobs, ex2)) = SumOf(Flows(jobs, ex))
                + (IF ex2[id] = NEVER THEN 0 ELSE ex2[id] - jobs[id].arrival)
           /\ SumOf(BegunBursts(jobs, D, ex2)) = SumOf(BegunBursts(jobs, C, ex))
                + (IF Begun(C, ex, id) THEN 0 ELSE jobs[id].burst)
  <1> DEFINE f == Flows(jobs, ex)
             g == Flows(jobs, ex2)
             a == BegunBursts(jobs, C, ex)
             b == BegunBursts(jobs, D, ex2)
  <1>0. /\ jobs \in Seq(Jobs) /\ id \in 1 .. Len(jobs)
        /\ ex \in [1 .. Len(jobs) -> Int] /\ ex2 \in [1 .. Len(jobs) -> Int]
        /\ \A i \in 1 .. Len(jobs) : i # id => ex2[i] = ex[i]
        /\ \A e : e.id # id => (e \in C <=> e \in D)
        /\ ex[id] = NEVER /\ Begun(D, ex2, id)
    BY DEF OneBegins
  <1>1. /\ f \in Seq(Int) /\ Len(f) = Len(jobs)
        /\ \A i \in 1 .. Len(jobs) : f[i] = IF ex[i] = NEVER THEN 0 ELSE ex[i] - jobs[i].arrival
        /\ a \in Seq(Int) /\ Len(a) = Len(jobs)
        /\ \A i \in 1 .. Len(jobs) : a[i] = IF Begun(C, ex, i) THEN jobs[i].burst ELSE 0
        /\ SumOf(f) \in Int /\ SumOf(a) \in Int
    BY <1>0, FlowsTypes
  <1>2. /\ g \in Seq(Int) /\ Len(g) = Len(jobs)
        /\ \A i \in 1 .. Len(jobs) : g[i] = IF ex2[i] = NEVER THEN 0 ELSE ex2[i] - jobs[i].arrival
        /\ b \in Seq(Int) /\ Len(b) = Len(jobs)
        /\ \A i \in 1 .. Len(jobs) : b[i] = IF Begun(D, ex2, i) THEN jobs[i].burst ELSE 0
    BY <1>0, FlowsTypes
  <1> HIDE DEF f, g, a, b
  <1>3. \A i \in 1 .. Len(jobs) : i # id => (Begun(D, ex2, i) <=> Begun(C, ex, i))
    BY <1>0 DEF Begun
  <1>4. \A i \in 1 .. Len(f) : i # id => g[i] = f[i]
    BY <1>0, <1>1, <1>2
  <1>5. \A i \in 1 .. Len(a) : i # id => b[i] = a[i]
    BY <1>0, <1>1, <1>2, <1>3
  <1>6. SumOf(g) = SumOf(f) + (g[id] - f[id])
    BY <1>1, <1>2, <1>4, <1>0, SumOfChanged
  <1>7. SumOf(b) = SumOf(a) + (b[id] - a[id])
    BY <1>1, <1>2, <1>5, <1>0, SumOfChanged
  <1>8. g[id] - f[id] = (IF ex2[id] = NEVER THEN 0 ELSE ex2[id] - jobs[id].arrival)
    <2>1. f[id] = 0 /\ g[id] \in Int
      BY <1>0, <1>1, <1>2
    <2> QED BY <2>1, <1>0, <1>2
  <1>9. b[id] - a[id] = (IF Begun(C, ex, id) THEN 0 ELSE jobs[id].burst)
    <2>1. jobs[id].burst \in Int
      BY <1>0, JobBursts, WordIsNat
    <2>2. b[id] = jobs[id].burst /\ a[id] = IF Begun(C, ex, id) THEN jobs[id].burst ELSE 0
      BY <1>0, <1>1, <1>2
    <2> QED BY <2>1, <2>2
  <1> QED BY <1>6, <1>7, <1>8, <1>9 DEF f, g, a, b

\* No process runs for longer than its burst.
LEMMA RanBounded ==
    ASSUME NEW jobs \in Seq(Jobs), NEW C \in SUBSET PcbType, Unique(C), NEW z \in Nat,
           \A i \in 1 .. Len(jobs) : Wrapped(z, jobs[i].burst) = jobs[i].burst,
           \A e \in C : e.id \in 1 .. Len(jobs) /\ Wrapped(z, e.remaining) <= jobs[e.id].burst
    PROVE  /\ SumOf(Ran(jobs, C, z)) \in Nat
           /\ SumOf(Ran(jobs, C, z)) <= SumOf([i \in 1 .. Len(jobs) |-> jobs[i].burst])
           /\ SumOf([i \in 1 .. Len(jobs) |-> jobs[i].burst]) \in Int
  <1> DEFINE f == Ran(jobs, C, z)
             g == [i \in 1 .. Len(jobs) |-> jobs[i].burst]
             zeros == [i \in 1 .. Len(jobs) |-> 0]
  <1>0. Len(jobs) \in Nat
    OBVIOUS
  <1>1. /\ f \in Seq(Int) /\ Len(f) = Len(jobs) /\ SumOf(f) \in Int
        /\ \A i \in 1 .. Len(jobs) : f[i] = Wrapped(z, jobs[i].burst) - RestIn(C, z, i)
    BY RanTypes
  <1>2. \A i \in 1 .. Len(jobs) : jobs[i].burst \in Nat
    BY JobBursts, WordIsNat
  <1>3. /\ g \in Seq(Int) /\ Len(g) = Len(jobs) /\ \A i \in 1 .. Len(jobs) : g[i] = jobs[i].burst
        /\ zeros \in Seq(Int) /\ Len(zeros) = Len(jobs)
        /\ \A i \in 1 .. Len(jobs) : zeros[i] = 0
    BY <1>0, <1>2
  <1>4. ASSUME NEW i \in 1 .. Len(jobs)
        PROVE  RestIn(C, z, i) \in Nat /\ RestIn(C, z, i) <= jobs[i].burst
    <2>1. RestIn(C, z, i) \in Nat
      BY RestTypes
    <2>2. CASE \E e \in C : e.id = i
      <3>1. PICK e \in C : e.id = i
        BY <2>2
      <3>2. RestIn(C, z, i) = Wrapped(z, e.remaining)
        BY <3>1, RestOf
      <3> QED BY <2>1, <3>1, <3>2
    <2>3. CASE ~ \E e \in C : e.id = i
      BY <2>1, <2>3, <1>2, RestOfNone
    <2> QED BY <2>2, <2>3
  <1> HIDE DEF f, g, zeros
  <1>5. \A i \in 1 .. Len(jobs) : zeros[i] <= f[i] /\ f[i] <= g[i]
    <2> SUFFICES ASSUME NEW i \in 1 .. Len(jobs)
                 PROVE  zeros[i] <= f[i] /\ f[i] <= g[i]
      OBVIOUS
    <2>1. f[i] = jobs[i].burst - RestIn(C, z, i)
      BY <1>1
    <2>2. jobs[i].burst \in Nat /\ g[i] = jobs[i].burst /\ zeros[i] = 0
      BY <1>2, <1>3
    <2> QED BY <2>1, <2>2, <1>4
  <1>6. SumOf(zeros) <= SumOf(f)
    BY <1>1, <1>3, <1>5, SumOfSmaller
  <1>7. SumOf(f) <= SumOf(g)
    BY <1>1, <1>3, <1>5, SumOfSmaller
  <1>8. SumOf(zeros) = 0 /\ SumOf(g) \in Int
    BY <1>3, SumOfZeros, SumIsInt
  <1>9. SumOf(f) \in Nat
    BY <1>1, <1>6, <1>8
  <1> QED BY <1>7, <1>8, <1>9 DEF f, g

\* What e, which runs for some ticks, adds to the sums.
Adds(e, ends) ==
    LET flow == IF ends THEN t' - e.arrival ELSE 0
    IN  /\ turnaround' = turnaround + flow
        /\ waiting' = waiting - (IF e.started THEN 0 ELSE array[e.id].burst) + flow

LEMMA ProgressSums ==
    ASSUME TypeInv, pc = "running", QueuesInv, SumsInv,
           NEW e, NEW n, NEW ends, Progress(e, n, ends), Adds(e, ends)
    PROVE  /\ turnaround' = SumOf(Flows(array, exit'))
           /\ waiting' = turnaround' - SumOf(BegunBursts(array, Now', exit'))
  <1>0. /\ Unique(Now) /\ e \in Now /\ SoundPcb(e)
        /\ e.id \in Procs /\ Procs = 1 .. Len(array) /\ array \in Seq(Jobs)
        /\ exit \in [Procs -> Int] /\ n \in Nat /\ ends \in BOOLEAN /\ t \in Nat
        /\ e.arrival = array[e.id].arrival /\ e.started \in BOOLEAN
    <2>1. Now \in SUBSET PcbType
      BY NowTypes DEF QueuesInv
    <2> QED BY <2>1, NowTypes, RunningTypes DEF QueuesInv, Progress, SoundPcb, TypeInv, PcbType
  <1>1. t' \in Nat /\ exit' = [exit EXCEPT ![e.id] = IF ends THEN t' ELSE @]
    <2>1. t' = Clock(t + n) /\ t + n \in Nat
      BY <1>0 DEF Progress, Runs, Later
    <2> QED BY <2>1, ClockIsNat DEF Progress, Runs
  <1>2. /\ exit' \in [Procs -> Int] /\ \A i \in Procs : i # e.id => exit'[i] = exit[i]
        /\ exit'[e.id] = IF ends THEN t' ELSE exit[e.id]
    BY <1>0, <1>1
  <1>3. exit[e.id] = NEVER
    <2>1. Waits(e.id)
      BY <1>0 DEF Waits, Progress
    <2> QED BY <2>1, <1>0 DEF QueuesInv
  <1>4. /\ \A d : d.id # e.id => (d \in Now <=> d \in Now')
        /\ Begun(Now', exit', e.id)
    <2>1. CASE ends = TRUE /\ Leaves(e, n)
      <3>1. exit'[e.id] # NEVER
        BY <1>1, <1>2, <2>1 DEF NEVER
      <3> QED BY <2>1, <3>1 DEF Leaves, Begun
    <2>2. ASSUME NEW e2, Stays(e, e2, n, ends)
          PROVE  /\ \A d : d.id # e.id => (d \in Now <=> d \in Now')
                 /\ Begun(Now', exit', e.id)
      BY <2>2 DEF Stays, Begun
    <2> QED BY <2>1, <2>2 DEF Progress
  <1>5. Begun(Now, exit, e.id) <=> e.started
    BY <1>0, <1>3 DEF Begun, Unique
  <1>6. /\ SumOf(Flows(array, exit')) = SumOf(Flows(array, exit))
             + (IF exit'[e.id] = NEVER THEN 0 ELSE exit'[e.id] - array[e.id].arrival)
        /\ SumOf(BegunBursts(array, Now', exit')) = SumOf(BegunBursts(array, Now, exit))
             + (IF Begun(Now, exit, e.id) THEN 0 ELSE array[e.id].burst)
    <2>1. OneBegins(array, Now, Now', exit, exit', e.id)
      BY <1>0, <1>2, <1>3, <1>4 DEF OneBegins
    <2> QED BY <2>1, FlowsMore
  <1>7. SumOf(Flows(array, exit)) \in Int /\ SumOf(BegunBursts(array, Now, exit)) \in Int
    BY <1>0, FlowsTypes
  <1>8. array[e.id].burst \in Int /\ array[e.id].arrival \in Int
    BY <1>0, JobBursts, WordIsNat
  <1>9. turnaround = SumOf(Flows(array, exit))
        /\ waiting = turnaround - SumOf(BegunBursts(array, Now, exit))
    BY DEF SumsInv
  <1> DEFINE flow == IF ends THEN t' - e.arrival ELSE 0
             new == IF e.started THEN 0 ELSE array[e.id].burst
  <1>10. flow \in Int /\ new \in Int
    BY <1>0, <1>1, <1>8
  <1>11. flow = IF exit'[e.id] = NEVER THEN 0 ELSE exit'[e.id] - array[e.id].arrival
    BY <1>0, <1>1, <1>2, <1>3 DEF NEVER
  <1>12. new = IF Begun(Now, exit, e.id) THEN 0 ELSE array[e.id].burst
    BY <1>5
  <1>13. turnaround' = turnaround + flow /\ waiting' = waiting - new + flow
    BY DEF Adds
  <1> HIDE DEF flow, new
  <1> QED BY <1>6, <1>7, <1>9, <1>10, <1>11, <1>12, <1>13

\* What is left of e2 is right if it was of e.
LEMMA LeftRightKept ==
    ASSUME TypeInv, pc = "running", QueuesInv, Exact, SumsInv,
           NEW e, NEW n, NEW ends, Progress(e, n, ends)
    PROVE  \A d \in Now' : d \in PcbType /\ LeftRight(d)
  <1>0. /\ Now \in SUBSET PcbType /\ e \in Now /\ n \in Nat /\ \A d \in Now : LeftRight(d)
        /\ Compares => e.remaining > 0
    BY NowTypes DEF QueuesInv, Progress, SumsInv
  <1>1. CASE Leaves(e, n)
    BY <1>0, <1>1 DEF Leaves
  <1>2. ASSUME NEW e2, Stays(e, e2, n, ends) PROVE LeftRight(e2)
    <2>1. e.remaining \in 0 .. Word - 1 /\ e2.remaining \in 0 .. Word - 1
      BY <1>0, <1>2 DEF Stays, PcbType
    <2>2. Wrapped(OfZero(alg), e.remaining) = n + Wrapped(OfZero(alg), e2.remaining)
      BY <1>2 DEF Stays
    <2>3. e.remaining <= array[e.id].burst /\ (alg = "RR" => e.remaining > 0) /\ e2.id = e.id
      BY <1>0, <1>2 DEF LeftRight, Stays
    <2>4. array[e.id].burst \in Nat
      <3>1. e.id \in Procs
        BY <1>0 DEF QueuesInv, SoundPcb
      <3> QED BY <3>1, JobTypes, WordIsNat
    <2>5. e.remaining = n + Wrapped(OfZero(alg), e2.remaining) /\ alg \in {"SJF", "SRTF", "RR"}
      BY <2>2, <2>3, <1>0 DEF Exact, Compares, Wrapped
    <2>6. CASE alg = "RR"
      <3>1. e2.remaining # 0
        <4>1. CASE e2.remaining = 0
          <5>1. e.remaining = n + Word
            BY <4>1, <2>5, <2>6 DEF Wrapped, OfZero
          <5> QED BY <5>1, <2>1, <1>0, WordIsNat
        <4> QED BY <4>1
      <3>2. e.remaining = n + e2.remaining
        BY <3>1, <2>5 DEF Wrapped
      <3> QED BY <3>1, <3>2, <2>1, <2>3, <2>4, <1>0, WordIsNat DEF LeftRight
    <2>7. CASE alg # "RR"
      <3>1. e.remaining = n + e2.remaining
        BY <2>5, <2>7 DEF Wrapped, OfZero
      <3> QED BY <3>1, <2>7, <2>1, <2>3, <2>4, <1>0, WordIsNat DEF LeftRight
    <2> QED BY <2>6, <2>7
  <1> QED BY <1>0, <1>1, <1>2 DEF Progress, Stays

\* The clock of an exact call does not wrap.
LEMMA ExactClock ==
    ASSUME TypeInv, Exact, NEW C \in SUBSET PcbType, Unique(C),
           \A e \in C : e.id \in Procs /\ LeftRight(e)
    PROVE  LET sum == SumOf(Ran(array, C, OfZero(alg)))
           IN  sum \in Nat /\ 2 * sum < Word /\ Clock(sum) = sum
  <1> DEFINE z == OfZero(alg)
             sum == SumOf(Ran(array, C, z))
  <1>0. z \in Nat /\ array \in Seq(Jobs) /\ Procs = 1 .. Len(array)
    BY OfZeroIsNat DEF TypeInv, Procs
  <1>1. ASSUME NEW i \in 1 .. Len(array) PROVE Wrapped(z, array[i].burst) = array[i].burst
    <2>1. alg # "RR" => z = 0
      BY DEF OfZero
    <2>2. alg = "RR" => array[i].burst # 0
      BY <1>0 DEF Exact
    <2> HIDE DEF z
    <2> QED BY <2>1, <2>2 DEF Wrapped
  <1>2. ASSUME NEW e \in C
        PROVE  e.id \in 1 .. Len(array) /\ Wrapped(z, e.remaining) <= array[e.id].burst
    <2>1. alg # "RR" => z = 0
      BY DEF OfZero
    <2>2. e.id \in Procs /\ e.remaining <= array[e.id].burst /\ (alg = "RR" => e.remaining > 0)
      BY DEF LeftRight
    <2> HIDE DEF z
    <2>3. Wrapped(z, e.remaining) = e.remaining
      BY <2>1, <2>2 DEF Wrapped
    <2> QED BY <2>2, <2>3, <1>0
  <1> HIDE DEF z
  <1>3. /\ SumOf(Ran(array, C, z)) \in Nat
        /\ SumOf(Ran(array, C, z)) <= SumOf([i \in 1 .. Len(array) |-> array[i].burst])
        /\ SumOf([i \in 1 .. Len(array) |-> array[i].burst]) \in Int
    BY <1>0, <1>1, <1>2, RanBounded
  <1>4. 2 * SumOf([i \in 1 .. Len(array) |-> array[i].burst]) < Word
    BY <1>0 DEF Exact, Bursts
  <1> HIDE DEF sum
  <1>5. sum \in Nat /\ 2 * sum < Word
    BY <1>3, <1>4, WordIsNat DEF sum
  <1>6. sum % Word = sum
    <2>1. sum \in 0 .. Word - 1
      BY <1>5, WordIsNat
    <2> QED BY <2>1, ModSmall, WordAssumption
  <1>7. Clock(sum) = sum
    BY <1>6 DEF Clock
  <1> QED BY <1>5, <1>7 DEF sum, z

LEMMA ProgressExact ==
    ASSUME TypeInv, pc = "running", QueuesInv, Exact, SumsInv,
           NEW e, NEW n, NEW ends, Progress(e, n, ends)
    PROVE  /\ \A d \in Now' : LeftRight(d)
           /\ t \in Nat /\ t % Word = t /\ n \in Nat
           /\ t' = t + n /\ 2 * t' < Word
  <1>0. /\ Unique(Now) /\ Now \in SUBSET PcbType
        /\ \A d \in Now : d.id \in Procs /\ LeftRight(d)
        /\ n \in Nat /\ Procs' = Procs
    BY NowTypes DEF QueuesInv, SoundPcb, SumsInv, Progress, Procs
  <1>1. \A d \in Now' : d \in PcbType /\ LeftRight(d)
    BY LeftRightKept
  <1>2. Unique(Now') /\ \A d \in Now' : d.id \in Procs
    <2>1. CASE Leaves(e, n)
      BY <2>1, <1>0 DEF Leaves, Unique
    <2>2. ASSUME NEW e2, Stays(e, e2, n, ends)
          PROVE  Unique(Now') /\ \A d \in Now' : d.id \in Procs
      BY <2>2, <1>0 DEF Stays, Unique, Progress
    <2> QED BY <2>1, <2>2 DEF Progress
  <1> DEFINE old == SumOf(Ran(array, Now, OfZero(alg)))
             new == SumOf(Ran(array, Now', OfZero(alg)))
  <1>3. old \in Nat /\ 2 * old < Word /\ Clock(old) = old
    BY <1>0, ExactClock
  <1>4. new \in Nat /\ 2 * new < Word /\ Clock(new) = new
    <2>1. \A C \in SUBSET PcbType : Unique(C) /\ (\A d \in C : d.id \in Procs /\ LeftRight(d))
            => LET sum == SumOf(Ran(array, C, OfZero(alg)))
               IN  sum \in Nat /\ 2 * sum < Word /\ Clock(sum) = sum
      BY ExactClock
    <2>2. Now' \in SUBSET PcbType
      BY <1>1
    <2> HIDE DEF new
    <2>3. LET sum == SumOf(Ran(array, Now', OfZero(alg)))
          IN  sum \in Nat /\ 2 * sum < Word /\ Clock(sum) = sum
      BY <2>1, <2>2, <1>1, <1>2
    <2> QED BY <2>3 DEF new
  <1>5. new = old + n /\ t' = Clock(new)
    BY ProgressClock
  <1>6. t = Clock(old)
    BY DEF QueuesInv
  <1> HIDE DEF old, new
  <1>7. t \in 0 .. Word - 1
    BY <1>3, <1>6, WordIsNat
  <1> QED BY <1>0, <1>1, <1>3, <1>4, <1>5, <1>6, <1>7, ModSmall, WordAssumption

LEMMA AddsKeeps ==
    ASSUME TypeInv, pc = "running", QueuesInv, Exact, SumsInv,
           NEW e, NEW n, NEW ends, Progress(e, n, ends), Adds(e, ends),
           \A k \in 1 .. Len(ready'.items) : ready'.items[k].arrival <= t'
    PROVE  SumsInv'
  <1>1. \A d \in Now' : LeftRight(d)
    BY ProgressExact
  <1>2. /\ turnaround' = SumOf(Flows(array, exit'))
        /\ waiting' = turnaround' - SumOf(BegunBursts(array, Now', exit'))
    BY ProgressSums
  <1>3. alg' = alg /\ array' = array
    BY DEF Progress
  <1>4. \A d \in Now' : LeftRight(d)'
    BY <1>1, <1>3 DEF LeftRight
  <1> QED BY <1>2, <1>3, <1>4 DEF SumsInv

LEMMA TurnaroundIs ==
    ASSUME NEW now \in Nat, 2 * now < Word, NEW pcb \in PcbType, pcb.arrival <= now
    PROVE  Turnaround(now, pcb) = now - pcb.arrival
  <1>1. pcb.arrival \in Nat /\ Word \in Nat \ {0}
    BY WordIsNat DEF PcbType
  <1>2. now - pcb.arrival \in 0 .. Word - 1
    BY <1>1
  <1>3. (now - pcb.arrival) % Word = now - pcb.arrival
    BY <1>1, <1>2, ModSmall
  <1>4. 2 * (now - pcb.arrival) < Word
    BY <1>1
  <1> QED BY <1>3, <1>4 DEF Turnaround

LEMMA SjfAdds ==
    ASSUME TypeInv, pc = "running", alg = "SJF", QueuesInv, RoomInv, NEW k, NEW pcb,
           SjfRuns(k, pcb)
    PROVE  Adds(pcb, TRUE)
  <1>0. /\ pcb \in PcbType /\ pcb.remaining > 0 /\ pcb \in Now
        /\ pcb.remaining \in Int /\ pcb.arrival \in Int
    <2>1. pcb \in PcbType /\ pcbs \in Pcbs
      BY RunningTypes DEF SjfRuns
    <2>2. pcb.remaining > 0
      BY <2>1, ShortestIs DEF SjfRuns
    <2>3. pcb \in Now
      BY SjfRunsProgress DEF Progress
    <2> QED BY <2>1, <2>2, <2>3, WordIsNat DEF PcbType
  <1>1. pcb.started = FALSE /\ array[pcb.id].burst = pcb.remaining
    <2>1. SoundPcb(pcb) /\ pcb.started \in BOOLEAN
      BY <1>0 DEF QueuesInv, PcbType
    <2> QED BY <2>1, <1>0 DEF SoundPcb
  <1>2. t' = t + pcb.remaining
    BY DEF SjfRuns, Runs, Later, Clock
  <1>3. /\ waiting' = waiting + (t - pcb.arrival)
        /\ turnaround' = turnaround + (t - pcb.arrival) + pcb.remaining
        /\ t \in Int /\ waiting \in Int /\ turnaround \in Int
    BY DEF SjfRuns, TypeInv
  <1>4. /\ turnaround' = turnaround + (t' - pcb.arrival)
        /\ waiting' = waiting - pcb.remaining + (t' - pcb.arrival)
    BY <1>0, <1>2, <1>3
  <1> QED BY <1>1, <1>4 DEF Adds

LEMMA SrtfAdds ==
    ASSUME TypeInv, pc = "running", alg = "SRTF", QueuesInv, RoomInv, Exact, SumsInv,
           NEW k, NEW pcb, NEW ran, SrtfRuns(k, pcb, ran)
    PROVE  Adds(pcb, ran.remaining = 0)
  <1>0. pcb \in PcbType /\ pcb \in Now /\ pcb.started \in BOOLEAN /\ Arrived(pcb)
    <2>1. pcb \in PcbType /\ pcbs \in Pcbs
      BY RunningTypes DEF SrtfRuns
    <2>2. Arrived(pcb)
      BY <2>1, ShortestIs DEF SrtfRuns
    <2>3. pcb \in Now
      BY SrtfRunsProgress DEF Progress
    <2> QED BY <2>1, <2>2, <2>3 DEF PcbType
  <1>1. t \in Nat /\ t % Word = t /\ t' = t + 1 /\ 2 * t' < Word
    BY SrtfRunsProgress, ProgressExact
  <1>2. Turnaround(t + 1, pcb) = t' - pcb.arrival
    <2>1. pcb.arrival <= t /\ pcb.arrival \in Nat
      BY <1>0, <1>1, WordIsNat DEF Arrived, PcbType
    <2>2. t' \in Nat /\ pcb.arrival <= t'
      BY <2>1, <1>1
    <2> QED BY <2>2, <1>0, <1>1, TurnaroundIs
  <1>3. BurstOnStart(pcb, ~pcb.started) = IF pcb.started THEN 0 ELSE array[pcb.id].burst
    <2>1. SoundPcb(pcb)
      BY <1>0 DEF QueuesInv
    <2> QED BY <2>1, <1>0 DEF SoundPcb, BurstOnStart
  <1> QED BY <1>2, <1>3 DEF Adds, SrtfRuns

LEMMA RrAdds ==
    ASSUME TypeInv, pc = "running", alg = "RR", QueuesInv, RoomInv, SliceInv, Exact, SumsInv,
           NEW pcb, NEW ran, NEW slice, RrTicked(pcb, ran, slice)
    PROVE  Adds(pcb, ran.remaining = 0)
  <1>0. /\ pcb \in PcbType /\ pcb \in Now /\ pcb.started \in BOOLEAN
        /\ Len(ready.items) > 0 /\ pcb = ready.items[1] /\ 1 \in 1 .. Len(ready.items)
        /\ q \in Nat
    <2>1. pcb \in PcbType /\ Len(ready.items) > 0 /\ pcb = ready.items[1]
      BY DEF RrTicked, RrRan
    <2>2. pcb \in Now
      BY RrTickedProgress DEF Progress
    <2>3. Len(ready.items) \in Nat
      BY RunningTypes, PcbsItems
    <2> QED BY <2>1, <2>2, <2>3 DEF PcbType, TypeInv
  <1>1. t \in Nat /\ t' = t + 1 /\ 2 * t' < Word
    BY RrTickedProgress, ProgressExact
  <1>2. Turnaround(Later(1), pcb) = t' - pcb.arrival
    <2>1. pcb.arrival <= t /\ pcb.arrival \in Nat
      BY <1>0, WordIsNat DEF SumsInv, PcbType
    <2>2. t' \in Nat /\ pcb.arrival <= t'
      BY <2>1, <1>1
    <2>3. Later(1) = t'
      BY DEF RrTicked, Runs
    <2> QED BY <2>2, <2>3, <1>0, <1>1, TurnaroundIs
  <1>3. BurstOnStart(pcb, q = 0 /\ ~pcb.started) = IF pcb.started THEN 0 ELSE array[pcb.id].burst
    <2>1. SoundPcb(pcb)
      BY <1>0 DEF QueuesInv
    <2>2. ~pcb.started => q = 0
      BY <1>0 DEF SliceInv
    <2> QED BY <2>1, <2>2, <1>0 DEF SoundPcb, BurstOnStart
  <1> QED BY <1>2, <1>3 DEF Adds, RrTicked, RrSums

-----------------------------------------------------------------------------
(* The steps keep the whole.                                               *)

LEMMA BeginsS ==
    ASSUME SInv, pc = "dispatch", NEW a \in Algorithms, NEW n \in Nat, Begin(a, n),
           UNCHANGED <<load, code>>
    PROVE  SInv'
  <1>0. PInv' /\ pc' \in {"running", "refused"} /\ starving' = [i \in Procs |-> 0]
        /\ quantum' = n /\ array' = array /\ Procs' = Procs /\ pcbs' = pcbs /\ alg' = a
    BY BeginsP DEF SInv, Begin, Procs
  <1>1. CASE pc' = "refused"
    <2>1. NoStarvation'
      <3>1. CASE Len(array) = 0
        <4>1. Procs = {}
          BY <3>1 DEF Procs
        <4> QED BY <4>1, <1>0 DEF NoStarvation
      <3>2. CASE Len(array) # 0
        <4>1. Len(array) - 1 \in Nat
          BY <3>2, ProcsUpto DEF SInv, PInv
        <4>2. (Len(array) - 1) * n \in Nat
          BY <4>1
        <4> QED BY <4>2, <1>0 DEF NoStarvation
      <3> QED BY <3>1, <3>2
    <2> QED BY <2>1, <1>0, <1>1
            DEF SInv, RunInv, RrInv, RestInv, CountInv, StatisticsRight, Done
  <1>2. CASE pc' = "running"
    <2>1. /\ FirstQueues(Now') /\ Now' \in SUBSET PcbType
          /\ QueuesInv' /\ RoomInv' /\ (a = "RR" => SliceInv' /\ TurnsInv')
          /\ NoStarvation'
      BY <1>2, BeginsRuns DEF SInv
    <2>2. /\ exit' = [i \in Procs |-> IF a \in {"SJF", "SRTF"} /\ array[i].burst = 0
                                      THEN array[i].arrival ELSE NEVER]
          /\ turnaround' = 0 /\ waiting' = 0
      BY DEF Begin, sums, SInv, PInv, LoadInv, Loading
    <2>3. /\ array \in Seq(Jobs) /\ Procs = 1 .. Len(array) /\ Len(array) \in Nat
          /\ exit' \in [1 .. Len(array) -> Int]
      <3>1. \A i \in Procs : array[i].arrival \in Int
        BY JobTypes, WordIsNat DEF SInv, PInv
      <3> QED BY <2>2, <3>1, ProcsUpto DEF SInv, PInv, TypeInv, NEVER
    <2>4. \A e \in Now' : ~e.started /\ e.id \in Procs /\ e.remaining = array[e.id].burst
      BY <2>1 DEF FirstQueues, Loaded
    <2>5. ASSUME Exact' PROVE SumsInv'
      <3>1. \A e \in Now' : LeftRight(e)'
        <4> SUFFICES ASSUME NEW e \in Now' PROVE LeftRight(e)'
          OBVIOUS
        <4>1. e.remaining = array[e.id].burst /\ e.id \in Procs
          BY <2>4
        <4>2. array[e.id].burst \in Nat
          BY <4>1, JobTypes, WordIsNat DEF SInv, PInv
        <4>3. alg' = "RR" => array[e.id].burst > 0
          BY <2>5, <4>1, <1>0 DEF Exact
        <4> QED BY <4>1, <4>2, <4>3, <1>0 DEF LeftRight
      <3>2. \A k : k \notin 1 .. Len(ready'.items)
        <4>1. ready'.items = <<>>
          <5>1. a # "RR" => ready' = ready
            BY DEF Begin
          <5>2. ready = NULL
            BY DEF SInv, PInv, LoadInv, Loading
          <5>3. a = "RR" => ready'.items = <<>>
            BY <1>2, BeginsP DEF SInv
          <5> QED BY <5>1, <5>2, <5>3, NullIsArray
        <4> QED BY <4>1
      <3> DEFINE f == Flows(array, exit')
                 b == BegunBursts(array, Now', exit')
      <3>3. /\ f \in Seq(Int) /\ Len(f) = Len(array)
            /\ \A i \in 1 .. Len(array) : f[i] =
                 IF exit'[i] = NEVER THEN 0 ELSE exit'[i] - array[i].arrival
            /\ b \in Seq(Int) /\ Len(b) = Len(array)
            /\ \A i \in 1 .. Len(array) : b[i] =
                 IF Begun(Now', exit', i) THEN array[i].burst ELSE 0
        <4>1. \A ex \in [1 .. Len(array) -> Int] : \A C :
                /\ Flows(array, ex) \in Seq(Int) /\ Len(Flows(array, ex)) = Len(array)
                /\ \A i \in 1 .. Len(array) : Flows(array, ex)[i] =
                     IF ex[i] = NEVER THEN 0 ELSE ex[i] - array[i].arrival
                /\ BegunBursts(array, C, ex) \in Seq(Int)
                /\ Len(BegunBursts(array, C, ex)) = Len(array)
                /\ \A i \in 1 .. Len(array) : BegunBursts(array, C, ex)[i] =
                     IF Begun(C, ex, i) THEN array[i].burst ELSE 0
          BY <2>3, FlowsTypes
        <4> QED BY <4>1, <2>3
      <3>4. \A i \in 1 .. Len(array) : f[i] = 0
        <4> HIDE DEF f
        <4>1. \A i \in 1 .. Len(array) : array[i].arrival \in Int
          BY <2>3, JobTypes, WordIsNat DEF SInv, PInv
        <4> QED BY <4>1, <2>2, <2>3, <3>3
      <3>5. \A i \in 1 .. Len(array) : b[i] = 0
        <4> HIDE DEF b
        <4> SUFFICES ASSUME NEW i \in 1 .. Len(array) PROVE b[i] = 0
          OBVIOUS
        <4>1. Begun(Now', exit', i) => exit'[i] # NEVER
          BY <2>4 DEF Begun
        <4>2. exit'[i] # NEVER => array[i].burst = 0
          BY <2>2, <2>3
        <4> QED BY <4>1, <4>2, <3>3
      <3> HIDE DEF f, b
      <3>6. SumOf(f) = 0 /\ SumOf(b) = 0
        BY <3>3, <3>4, <3>5, SumOfZeros
      <3>7. turnaround' = SumOf(Flows(array, exit'))
            /\ waiting' = turnaround' - SumOf(BegunBursts(array, Now', exit'))
        BY <3>6, <2>2 DEF f, b
      <3> QED BY <3>1, <3>2, <3>7, <1>0 DEF SumsInv
    <2> QED BY <2>1, <2>5, <1>0, <1>2
            DEF SInv, RunInv, RrInv, RestInv, CountInv, StatisticsRight, Done
  <1> QED BY <1>0, <1>1, <1>2

\* A step at which a process runs.
LEMMA ProgressS ==
    ASSUME SInv, PInv', pc = "running", NEW e, NEW n, NEW ends, Progress(e, n, ends), RoomInv',
           UNCHANGED quantum,
           alg = "RR" => SliceInv' /\ TurnsInv',
           Exact => Adds(e, ends),
           Exact => \A k \in 1 .. Len(ready'.items) : ready'.items[k].arrival <= t'
    PROVE  SInv'
  <1>0. TypeInv /\ TypeInv' /\ QueuesInv /\ pc' = "running" /\ alg' = alg /\ array' = array
    BY DEF SInv, PInv, RunInv, Progress
  <1>1. QueuesInv'
    BY <1>0, ProgressKeeps
  <1>2. Exact' <=> Exact
    BY <1>0 DEF Exact, Bursts, Procs
  <1>3. CountInv'
    <2>1. Exact => SumsInv'
      BY <1>0, AddsKeeps DEF SInv, CountInv
    <2> QED BY <2>1, <1>2 DEF CountInv
  <1> QED BY <1>0, <1>1, <1>3 DEF SInv, RunInv, RrInv, RestInv, StatisticsRight, Done

LEMMA DiesS ==
    ASSUME SInv, PInv', pc = "running", Dies, UNCHANGED <<call, ready, pcbs>>
    PROVE  SInv'
  BY Elsewhere, NobodyStarves DEF Dies, call, ghosts

\* No process waits when a scheduler returns.
LEMMA ReturnsS ==
    ASSUME SInv, PInv', pc = "running", pc' = "returned",
           UNCHANGED <<call, sums, ghosts>>,
           Compares \/ alg = "RR" => \A i \in Procs : ~Waits(i)
    PROVE  SInv'
  <1>0. /\ alg' = alg /\ array' = array /\ quantum' = quantum /\ exit' = exit
        /\ starving' = starving /\ waiting' = waiting /\ turnaround' = turnaround
        /\ Procs' = Procs
    BY DEF call, sums, ghosts, Procs
  <1>1. NoStarvation'
    BY <1>0, NobodyStarves DEF NoStarvation
  <1>2. ASSUME Exact PROVE turnaround = SumOf(Flow) /\ waiting = SumOf(Flow) - SumOf(Bursts)
    <2>1. Compares \/ alg = "RR"
      BY <1>2 DEF Exact, Compares
    <2>2. \A i \in Procs : exit[i] # NEVER
      BY <2>1 DEF SInv, RunInv, QueuesInv
    <2>3. /\ turnaround = SumOf(Flows(array, exit))
          /\ waiting = turnaround - SumOf(BegunBursts(array, Now, exit))
      BY <1>2 DEF SInv, CountInv, SumsInv
    <2>4. Flows(array, exit) = Flow
      BY <2>2 DEF Flows, Flow, Procs
    <2>5. BegunBursts(array, Now, exit) = Bursts
      BY <2>2 DEF BegunBursts, Begun, Bursts, Procs
    <2> QED BY <2>3, <2>4, <2>5
  <1>3. StatisticsRight'
    <2>1. (2 * SumOf(Bursts) < Word)' <=> 2 * SumOf(Bursts) < Word
      BY <1>0 DEF Bursts
    <2>2. SumOf(Flow)' = SumOf(Flow) /\ SumOf(Bursts)' = SumOf(Bursts)
      BY <1>0 DEF Flow, Bursts
    <2> QED BY <2>1, <2>2, <1>0, <1>2 DEF StatisticsRight, Exact
  <1> QED BY <1>1, <1>3 DEF SInv, RunInv, RrInv, RestInv, CountInv

LEMMA FcfsProcessS == ASSUME SInv, FcfsProcess, UNCHANGED <<load, code>> PROVE SInv'
  <1>0. pc = "running" /\ alg = "FCFS" /\ TypeInv /\ QueuesInv /\ RoomInv
    BY DEF FcfsProcess, Running, SInv, PInv, RunInv
  <1>1. PICK k, pcb : FcfsRuns(k, pcb)
    BY <1>0, FcfsSteps
  <1>2. PInv'
    BY FcfsProcessT DEF SInv
  <1>3. Progress(pcb, pcb.remaining, TRUE) /\ RoomInv' /\ quantum' = quantum
    BY <1>0, <1>1, FcfsRunsProgress DEF FcfsRuns, call
  <1>4. ~Exact
    BY <1>0 DEF Exact
  <1> QED BY <1>0, <1>2, <1>3, <1>4, ProgressS

LEMMA SjfProcessS == ASSUME SInv, SjfProcess, UNCHANGED <<load, code>> PROVE SInv'
  <1>0. pc = "running" /\ alg = "SJF" /\ TypeInv /\ QueuesInv /\ RoomInv
    BY DEF SjfProcess, Running, SInv, PInv, RunInv
  <1>1. PInv'
    BY SjfProcessT DEF SInv
  <1>2. CASE Dies /\ UNCHANGED <<call, ready, pcbs>>
    BY <1>0, <1>1, <1>2, DiesS
  <1>3. ASSUME NEW k, NEW pcb, SjfRuns(k, pcb) PROVE SInv'
    <2>1. /\ Progress(pcb, pcb.remaining, TRUE) /\ RoomInv' /\ quantum' = quantum
          /\ ready' = ready /\ Adds(pcb, TRUE)
      BY <1>0, <1>3, SjfRunsProgress, SjfAdds DEF SjfRuns, call
    <2>2. \A k2 : k2 \notin 1 .. Len(ready'.items)
      <3>1. ready'.items = <<>>
        BY <1>0, <2>1 DEF RoomInv
      <3> QED BY <3>1
    <2> QED BY <1>0, <1>1, <2>1, <2>2, ProgressS
  <1> QED BY <1>0, <1>2, <1>3, SjfSteps

LEMMA SrtfTickS == ASSUME SInv, SrtfTick, UNCHANGED <<load, code>> PROVE SInv'
  <1>0. pc = "running" /\ alg = "SRTF" /\ TypeInv /\ QueuesInv /\ RoomInv
    BY DEF SrtfTick, Running, SInv, PInv, RunInv
  <1>1. PInv'
    BY SrtfTickT DEF SInv
  <1>2. CASE Dies /\ UNCHANGED <<call, ready, pcbs>>
    BY <1>0, <1>1, <1>2, DiesS
  <1>3. ASSUME NEW k, NEW pcb, NEW ran, SrtfRuns(k, pcb, ran) PROVE SInv'
    <2>1. /\ Progress(pcb, 1, ran.remaining = 0) /\ RoomInv' /\ quantum' = quantum
          /\ ready' = ready
      BY <1>0, <1>3, SrtfRunsProgress DEF SrtfRuns, call
    <2>2. Exact => Adds(pcb, ran.remaining = 0)
      BY <1>0, <1>3, SrtfAdds DEF SInv, CountInv
    <2>3. \A k2 : k2 \notin 1 .. Len(ready'.items)
      <3>1. ready'.items = <<>>
        BY <1>0, <2>1 DEF RoomInv
      <3> QED BY <3>1
    <2> QED BY <1>0, <1>1, <2>1, <2>2, <2>3, ProgressS
  <1> QED BY <1>0, <1>2, <1>3, SrtfSteps

\* Who is in the ready queue after a tick has arrived.
LEMMA RrArrivals ==
    ASSUME NEW now, NEW pcb, NEW ran, RrGoesOn(pcb, ran), pcb = ready.items[1],
           ran.arrival = pcb.arrival, Len(ready.items) \in Nat, Len(ready.items) > 0,
           \A k \in 1 .. Len(ready.items) : ready.items[k].arrival <= now
    PROVE  \A k \in 1 .. Len(ready'.items) : ready'.items[k].arrival <= now
  <1> DEFINE r == ready.items
             u == ready'.items
             n == Len(r)
  <1>0. n \in Nat /\ n > 0 /\ 1 \in 1 .. n
    OBVIOUS
  <1>1. ASSUME NEW k \in 1 .. Len(u), Len(u) = n
        PROVE  k \in 1 .. n /\ (k = n \/ (k \in 1 .. n - 1 /\ k + 1 \in 1 .. n))
               /\ (k = 1 \/ k \in 2 .. n)
    BY <1>0, <1>1
  <1>2. ran.arrival <= now
    BY <1>0
  <1> HIDE DEF r, u, n
  <1>3. CASE TailOf(r, u)
    <2>1. \A k \in 1 .. Len(u) : k \in 1 .. n - 1 /\ k + 1 \in 1 .. n
      BY <1>0, <1>3 DEF TailOf, n
    <2>2. \A k \in 1 .. n - 1 : u[k] = r[k + 1]
      BY <1>3 DEF TailOf, n
    <2>3. \A k \in 1 .. Len(u) : u[k].arrival <= now
      BY <2>1, <2>2 DEF r, n
    <2> QED BY <2>3 DEF u
  <1>4. CASE Rotated(r, u, ran)
    <2>1. Len(u) = n /\ u[n] = ran /\ \A k \in 1 .. n - 1 : u[k] = r[k + 1]
      BY <1>4 DEF Rotated, n
    <2>2. \A k \in 1 .. Len(u) : u[k].arrival <= now
      BY <2>1, <1>1, <1>2 DEF r, n
    <2> QED BY <2>2 DEF u
  <1>5. CASE HeadSet(r, u, ran)
    <2>1. Len(u) = n /\ u[1] = ran /\ \A k \in 2 .. n : u[k] = r[k]
      BY <1>5 DEF HeadSet, n
    <2>2. \A k \in 1 .. Len(u) : u[k].arrival <= now
      BY <2>1, <1>1, <1>2 DEF r, n
    <2> QED BY <2>2 DEF u
  <1> QED BY <1>3, <1>4, <1>5 DEF RrGoesOn, r, u

LEMMA RrTickS == ASSUME SInv, RrTick, UNCHANGED <<load, code>> PROVE SInv'
  <1>0. /\ pc = "running" /\ alg = "RR" /\ TypeInv /\ QueuesInv /\ RoomInv /\ SliceInv
        /\ TurnsInv /\ ready \in Pcbs
    BY RunningTypes DEF RrTick, Running, SInv, PInv, RunInv, RrInv
  <1>1. PInv'
    BY RrTickT DEF SInv
  <1>2. CASE Len(ready.items) = 0
    <2>1. Dies /\ UNCHANGED <<call, ready, pcbs>>
      BY <1>0, <1>2, PcbsItems DEF RrTick
    <2> QED BY <1>0, <1>1, <2>1, DiesS
  <1>3. CASE Len(ready.items) > 0
    <2>1. PICK pcb, ran, slice : RrTicked(pcb, ran, slice)
      BY <1>0, <1>3, RrTicks
    <2>2. Progress(pcb, 1, ran.remaining = 0) /\ RoomInv'
      BY <1>0, <2>1, RrTickedProgress
    <2>3. SliceInv' /\ TurnsInv' /\ quantum' = quantum
      BY <1>0, <2>1, RrTickedTurns DEF RrTicked, call
    <2>4. Exact => SumsInv
      BY <1>0 DEF SInv, CountInv
    <2>5. Exact => Adds(pcb, ran.remaining = 0)
      BY <1>0, <2>1, <2>4, RrAdds
    <2>6. ASSUME Exact PROVE \A k \in 1 .. Len(ready'.items) : ready'.items[k].arrival <= t'
      <3>1. t' = t + 1 /\ t \in Nat
        BY <1>0, <2>2, <2>4, <2>6, ProgressExact
      <3>2. RrGoesOn(pcb, ran) /\ pcb = ready.items[1] /\ ran.arrival = pcb.arrival
        BY <1>0, <2>1, RrTickedGoesOn
      <3>3. ready.items \in Seq(PcbType) /\ Len(ready.items) \in Nat
        BY <1>0, PcbsItems
      <3>4. \A k \in 1 .. Len(ready.items) : ready.items[k].arrival <= t'
        <4> SUFFICES ASSUME NEW k \in 1 .. Len(ready.items)
                     PROVE  ready.items[k].arrival <= t'
          OBVIOUS
        <4>1. ready.items[k].arrival <= t
          BY <2>4, <2>6 DEF SumsInv
        <4>2. ready.items[k].arrival \in Nat
          <5>1. ready.items[k] \in PcbType
            BY <3>3, PcbTypes
          <5> QED BY <5>1, WordIsNat DEF PcbType
        <4> QED BY <3>1, <4>1, <4>2
      <3>5. \A now : (\A k \in 1 .. Len(ready.items) : ready.items[k].arrival <= now)
              => \A k \in 1 .. Len(ready'.items) : ready'.items[k].arrival <= now
        BY <1>3, <3>2, <3>3, RrArrivals
      <3> QED BY <3>4, <3>5
    <2> QED BY <1>0, <1>1, <2>2, <2>3, <2>5, <2>6, ProgressS
  <1>4. Len(ready.items) = 0 \/ Len(ready.items) > 0
    BY <1>0, PcbsItems
  <1> QED BY <1>2, <1>3, <1>4

LEMMA OneMoreFits ==
    ASSUME NEW a \in Nat, NEW b \in Nat, NEW n \in Nat, NEW c \in Nat,
           a + b <= n, c >= n, a >= 1
    PROVE  c > b
  OBVIOUS

LEMMA RrAdmitS == ASSUME SInv, RrAdmit, UNCHANGED <<load, code>> PROVE SInv'
  <1>0. /\ pc = "running" /\ alg = "RR" /\ TypeInv /\ QueuesInv /\ RoomInv /\ SliceInv
        /\ TurnsInv
    BY DEF RrAdmit, Running, SInv, PInv, RunInv, RrInv
  <1>1. PInv'
    BY RrAdmitT DEF SInv
  <1>2. PICK k, pcb : RrAdmits(k, pcb)
    BY <1>0, RrAdmitSteps
  <1>3. Now' = Now /\ QueuesInv' /\ RoomInv' /\ SliceInv' /\ TurnsInv'
    BY <1>0, <1>2, RrAdmitsKeeps
  <1>4. /\ alg' = alg /\ quantum' = quantum /\ array' = array /\ Procs' = Procs
        /\ t' = t /\ exit' = exit /\ starving' = starving
        /\ waiting' = waiting /\ turnaround' = turnaround /\ pc' = pc
    BY <1>2 DEF RrAdmits, call, clock, sums, ghosts, Procs
  <1>5. Exact' <=> Exact
    BY <1>4 DEF Exact, Bursts
  <1>6. ASSUME Exact PROVE SumsInv'
    <2>0. SumsInv
      BY <1>0, <1>6 DEF SInv, CountInv
    <2>1. \A e \in Now : LeftRight(e)' <=> LeftRight(e)
      BY <1>4 DEF LeftRight
    <2>2. /\ ready.items \in Seq(PcbType) /\ Len(ready.items) \in Nat
          /\ Len(pcbs.items) \in Nat /\ Len(array) \in Nat /\ ready.capacity \in Nat
          /\ pcb \in PcbType /\ k \in 1 .. Len(pcbs.items)
      BY <1>0, <1>2, RunningTypes, PcbsItems DEF RrAdmits
    <2>3. ready'.items = Append(ready.items, pcb)
      <3>1. ready.capacity > Len(ready.items)
        <4>1. Len(pcbs.items) + Len(ready.items) <= Len(array) /\ ready.capacity >= Len(array)
          BY <1>0 DEF RoomInv
        <4>2. Len(pcbs.items) >= 1
          BY <2>2
        <4>3. Len(ready.items) \in Nat /\ Len(array) \in Nat /\ ready.capacity \in Nat
              /\ Len(pcbs.items) \in Nat
          BY <2>2
        <4> QED BY <4>1, <4>2, <4>3, OneMoreFits
      <3> QED BY <3>1, <1>2 DEF RrAdmits
    <2>4. pcb.arrival <= t
      <3>1. Unique(Now) /\ Now \in SUBSET PcbType
        BY <1>0, NowTypes DEF QueuesInv
      <3>2. \A e \in Now : e.id \in Procs /\ LeftRight(e)
        BY <1>0, <2>0 DEF QueuesInv, SoundPcb, SumsInv
      <3> DEFINE sum == SumOf(Ran(array, Now, OfZero(alg)))
      <3>3. sum \in Nat /\ 2 * sum < Word /\ Clock(sum) = sum
        BY <1>0, <1>6, <3>1, <3>2, ExactClock
      <3>4. t = Clock(sum)
        BY <1>0 DEF QueuesInv
      <3> HIDE DEF sum
      <3>5. t \in 0 .. Word - 1
        BY <3>3, <3>4, WordIsNat
      <3>6. t % Word = t
        BY <3>5, ModSmall, WordAssumption
      <3> QED BY <3>6, <1>2 DEF RrAdmits, Arrived
    <2>5. \A j \in 1 .. Len(ready'.items) : ready'.items[j].arrival <= t
      <3> SUFFICES ASSUME NEW j \in 1 .. Len(ready'.items)
                   PROVE  ready'.items[j].arrival <= t
        OBVIOUS
      <3>1. /\ Len(ready'.items) = Len(ready.items) + 1
            /\ ready'.items[Len(ready.items) + 1] = pcb
            /\ \A m \in 1 .. Len(ready.items) : ready'.items[m] = ready.items[m]
        BY <2>2, <2>3, AppendProperties
      <3>2. j = Len(ready.items) + 1 \/ j \in 1 .. Len(ready.items)
        BY <2>2, <3>1
      <3> QED BY <3>1, <3>2, <2>0, <2>4 DEF SumsInv
    <2> QED BY <2>0, <2>1, <2>5, <1>3, <1>4 DEF SumsInv
  <1>7. RunInv' /\ RrInv' /\ RestInv' /\ StatisticsRight'
    BY <1>0, <1>3, <1>4 DEF RunInv, RrInv, RestInv, StatisticsRight, Done
  <1> QED BY <1>1, <1>5, <1>6, <1>7 DEF SInv, CountInv

LEMMA NobodyWaits ==
    ASSUME TypeInv, pc = "running", RoomInv,
           \A k \in 1 .. Len(pcbs.items) : Compares /\ ~ (pcbs.items[k].remaining > 0),
           Len(ready.items) = 0
    PROVE  \A i \in Procs : ~Waits(i)
  BY DEF Waits, Now, Held, Members

LEMMA ReturnS ==
    ASSUME SInv, FcfsReturns \/ ShortestReturns \/ RrReturns, UNCHANGED <<load, code>>
    PROVE  SInv'
  <1>0. pc = "running" /\ TypeInv /\ RoomInv /\ pcbs \in Pcbs /\ ready \in Pcbs
    BY RunningTypes DEF FcfsReturns, ShortestReturns, RrReturns, Running, SInv, PInv, RunInv
  <1>1. PInv'
    BY FcfsReturnsT, ShortestReturnsT, RrReturnsT DEF SInv
  <1>2. pc' = "returned" /\ UNCHANGED <<call, sums, ghosts>>
    BY DEF FcfsReturns, ShortestReturns, RrReturns
  <1>3. CASE FcfsReturns
    <2>1. ~Compares /\ alg # "RR"
      BY <1>3 DEF FcfsReturns, Running, Compares
    <2> QED BY <1>0, <1>1, <1>2, <2>1, ReturnsS
  <1>4. CASE ShortestReturns
    <2>1. Compares /\ ready.items = <<>>
      BY <1>0, <1>4 DEF ShortestReturns, Running, Compares, RoomInv
    <2>2. \A k \in 1 .. Len(pcbs.items) : ~ (pcbs.items[k].remaining > 0)
      BY <1>0, <1>4, PcbsItems DEF ShortestReturns, any_burst_remaining
    <2>3. Len(ready.items) = 0
      BY <2>1
    <2>4. \A i \in Procs : ~Waits(i)
      BY <1>0, <2>1, <2>2, <2>3, NobodyWaits
    <2> QED BY <1>0, <1>1, <1>2, <2>4, ReturnsS
  <1>5. CASE RrReturns
    <2>1. Len(pcbs.items) = 0 /\ Len(ready.items) = 0
      BY <1>5 DEF RrReturns, dyn_array_size
    <2>2. \A i \in Procs : ~Waits(i)
      BY <1>0, <2>1, NobodyWaits
    <2> QED BY <1>0, <1>1, <1>2, <2>2, ReturnsS
  <1> QED BY <1>3, <1>4, <1>5

LEMMA LoadsS ==
    ASSUME SInv, \/ MainGivesUp \/ ReadHeader \/ ReadRecord \/ ReadRecord_short \/ ReadEnd
                 \/ ReadExcess \/ DispatchFails \/ MainEnds
    PROVE  SInv'
  <1>0. PInv /\ TypeInv /\ NoStarvation
    BY NobodyStarves DEF SInv, PInv
  <1>1. ASSUME pc \in Loading, PInv', pc' \notin {"running", "returned"}, alg' = alg
        PROVE  SInv'
    <2>1. alg = "none"
      BY <1>0, <1>1 DEF PInv, LoadInv
    <2> QED BY <1>1, <2>1, Elsewhere
  <1>2. CASE MainGivesUp
    BY <1>0, <1>1, <1>2, GivesUpP DEF MainGivesUp, Exit, Loading, schedule
  <1>3. CASE ReadHeader
    <2>1. pc = "main" /\ pc' \in {"records", "exit"} /\ alg' = alg
      BY <1>3 DEF ReadHeader, LoadFails, Exit, schedule
    <2> QED BY <1>0, <1>1, <1>3, <2>1, HeaderP DEF Loading
  <1>4. CASE ReadRecord
    <2>1. PICK job \in Jobs : LoadPcb(job)
      BY <1>4 DEF ReadRecord
    <2>2. pc = "records" /\ n_pcbs > 0 /\ wellformed /\ UNCHANGED wellformed
      BY <1>4 DEF ReadRecord
    <2>3. pc' \in {"records", "exit"} /\ alg' = alg
      BY <2>1, <2>2 DEF LoadPcb, LoadFails, Exit, schedule
    <2>4. PInv'
      BY <1>0, <2>1, <2>2, LoadsP
    <2> QED BY <1>1, <2>2, <2>3, <2>4 DEF Loading
  <1>5. CASE ReadRecord_short
    <2>1. pc = "records" /\ LoadFails /\ wellformed' \in BOOLEAN
      BY <1>5 DEF ReadRecord_short
    <2> QED BY <1>0, <1>1, <2>1, FailsP DEF Loading, LoadFails, Exit, schedule
  <1>6. CASE ReadEnd
    BY <1>0, <1>1, <1>6, ReadEndP DEF ReadEnd, Loading, schedule
  <1>7. CASE ReadExcess
    <2>1. pc = "records" /\ LoadFails /\ wellformed' \in BOOLEAN
      BY <1>7 DEF ReadExcess
    <2> QED BY <1>0, <1>1, <2>1, FailsP DEF Loading, LoadFails, Exit, schedule
  <1>8. CASE DispatchFails
    <2>1. pc' = "unusable" /\ alg' = "other"
      BY <1>8 DEF DispatchFails
    <2> QED BY <1>0, <1>8, <2>1, DispatchFailsP, Elsewhere
  <1>9. CASE MainEnds
    <2>1. pc' = "exit" /\ UNCHANGED <<alg, starving, array, quantum>>
      BY <1>9 DEF MainEnds, Exit, schedule
    <2> QED BY <1>0, <1>9, <2>1, MainEndsP, Elsewhere
  <1> QED BY <1>2, <1>3, <1>4, <1>5, <1>6, <1>7, <1>8, <1>9

LEMMA DispatchS == ASSUME SInv, Dispatch PROVE SInv'
  <1>0. pc = "dispatch" /\ UNCHANGED <<load, code>>
    BY DEF Dispatch
  <1>1. ASSUME NEW a \in Algorithms \ {"RR"}, Begin(a, 0) PROVE SInv'
    <2>1. a \in Algorithms /\ 0 \in Nat
      OBVIOUS
    <2> QED BY <1>0, <1>1, <2>1, BeginsS
  <1>2. ASSUME NEW n \in Quanta, Begin("RR", Quantum(n)) PROVE SInv'
    <2>1. "RR" \in Algorithms /\ Quantum(n) \in Nat
      BY QuantumIsNat DEF Algorithms
    <2>2. \A m \in Nat : Begin("RR", m) => SInv'
      BY <1>0, <2>1, BeginsS
    <2> QED BY <1>2, <2>1, <2>2
  <1> QED BY <1>1, <1>2 DEF Dispatch

LEMMA StuttersS == ASSUME SInv, UNCHANGED vars PROVE SInv'
  <1>1. /\ alg' = alg /\ quantum' = quantum /\ array' = array /\ pcbs' = pcbs /\ ready' = ready
        /\ t' = t /\ q' = q /\ waiting' = waiting /\ turnaround' = turnaround /\ pc' = pc
        /\ exit' = exit /\ starving' = starving /\ n_pcbs' = n_pcbs /\ fd' = fd
        /\ wellformed' = wellformed /\ code' = code /\ Procs' = Procs /\ Now' = Now
    BY DEF vars, load, Procs, Now
  <1>2. PInv'
    BY <1>1 DEF SInv, PInv, TypeInv, LoadInv, EndInv, FreedInv, Loaded
  <1>3. QueuesInv' <=> QueuesInv
    BY <1>1 DEF QueuesInv, SoundPcb, Waits, Compares, Clock
  <1>4. RoomInv' <=> RoomInv
    BY <1>1 DEF RoomInv
  <1>5. (SliceInv' <=> SliceInv) /\ (TurnsInv' <=> TurnsInv)
    BY <1>1 DEF SliceInv, TurnsInv, Behind
  <1>6. (SumsInv' <=> SumsInv) /\ (Exact' <=> Exact)
    BY <1>1 DEF SumsInv, Exact, LeftRight, Bursts
  <1>7. (NoStarvation' <=> NoStarvation) /\ (StatisticsRight' <=> StatisticsRight)
    BY <1>1 DEF NoStarvation, StatisticsRight, Done, Bursts, Flow
  <1> QED BY <1>1, <1>2, <1>3, <1>4, <1>5, <1>6, <1>7
          DEF SInv, RunInv, RrInv, RestInv, CountInv

LEMMA StartsS == Init => SInv
  <1> SUFFICES ASSUME Init PROVE SInv
    OBVIOUS
  <1>1. PInv
    BY StartsP
  <1>2. pc = "main" /\ alg = "none"
    BY DEF Init
  <1> QED BY <1>1, <1>2
          DEF SInv, RunInv, RrInv, RestInv, NoStarvation, CountInv, StatisticsRight, Done

LEMMA GoesOnS == SInv /\ [Next]_vars => SInv'
  <1> SUFFICES ASSUME SInv, [Next]_vars PROVE SInv'
    OBVIOUS
  <1>1. CASE Dispatch
    BY <1>1, DispatchS
  <1>2. CASE ScheduleStep /\ UNCHANGED <<load, code>>
    BY <1>2, FcfsProcessS, SjfProcessS, SrtfTickS, RrAdmitS, RrTickS, ReturnS DEF ScheduleStep
  <1>3. CASE UNCHANGED vars
    BY <1>3, StuttersS
  <1> QED BY <1>1, <1>2, <1>3, LoadsS DEF Next

LEMMA AlwaysS == Spec => []SInv
  BY StartsS, GoesOnS, PTL DEF Spec

\* What the two queues hold, as a sequence.
LEMMA QueuedIs ==
    ASSUME pcbs.items \in Seq(PcbType), ready.items \in Seq(PcbType),
           Distinct(pcbs.items, ready.items)
    PROVE  /\ \A j, k \in DOMAIN Queued : Queued[j].id = Queued[k].id => j = k
           /\ \A e : e \in Now <=> \E k \in DOMAIN Queued : Queued[k] = e
  <1> DEFINE s == pcbs.items
             r == ready.items
             n == Len(s)
             m == Len(r)
  <1>0. n \in Nat /\ m \in Nat /\ s \in Seq(PcbType) /\ r \in Seq(PcbType)
    OBVIOUS
  <1>1. /\ DOMAIN Queued = 1 .. n + m
        /\ \A k \in 1 .. n + m : Queued[k] = IF k <= n THEN s[k] ELSE r[k - n]
    <2>1. /\ s \o r \in Seq(PcbType) /\ Len(s \o r) = n + m
          /\ \A k \in 1 .. n + m : (s \o r)[k] = IF k <= n THEN s[k] ELSE r[k - n]
      <3> HIDE DEF s, r, n, m
      <3>1. /\ s \o r \in Seq(PcbType) /\ Len(s \o r) = Len(s) + Len(r)
            /\ \A k \in 1 .. Len(s) + Len(r) :
                 (s \o r)[k] = IF k <= Len(s) THEN s[k] ELSE r[k - Len(s)]
        BY <1>0, ConcatProperties
      <3> QED BY <3>1 DEF n, m
    <2>2. Queued = s \o r
      BY DEF Queued
    <2> HIDE DEF s, r, n, m
    <2>3. /\ Queued \in Seq(PcbType) /\ Len(Queued) = n + m
          /\ \A k \in 1 .. n + m : Queued[k] = IF k <= n THEN s[k] ELSE r[k - n]
      BY <2>1, <2>2
    <2>4. DOMAIN Queued = 1 .. Len(Queued)
      BY <2>3
    <2> QED BY <2>3, <2>4
  <1>2. Distinct(s, r) /\ Now = Members(s) \cup Members(r)
    BY DEF Now, Held
  <1> HIDE DEF s, r
  <1>3. ASSUME NEW k \in 1 .. n + m
        PROVE  \/ k \in 1 .. n /\ Queued[k] = s[k]
               \/ k - n \in 1 .. m /\ k \notin 1 .. n /\ Queued[k] = r[k - n]
    <2>1. k <= n => k \in 1 .. n
      BY <1>0
    <2>2. ~ (k <= n) => k - n \in 1 .. m /\ k \notin 1 .. n
      BY <1>0
    <2> QED BY <1>1, <2>1, <2>2
  <1>4. \A k \in 1 .. n : k \in 1 .. n + m
    BY <1>0
  <1>5. \A k \in 1 .. m : n + k \in 1 .. n + m /\ (n + k) - n = k /\ ~ (n + k <= n)
    BY <1>0
  <1>6. ASSUME NEW j \in 1 .. n + m, NEW k \in 1 .. n + m, Queued[j].id = Queued[k].id
        PROVE  j = k
    <2>1. CASE j \in 1 .. n /\ Queued[j] = s[j]
      <3>1. k \in 1 .. n /\ Queued[k] = s[k]
        <4>1. CASE k - n \in 1 .. m /\ Queued[k] = r[k - n]
          BY <4>1, <2>1, <1>2, <1>6 DEF Distinct
        <4> QED BY <4>1, <1>3
      <3> QED BY <2>1, <3>1, <1>2, <1>6 DEF Distinct
    <2>2. CASE j - n \in 1 .. m /\ j \notin 1 .. n /\ Queued[j] = r[j - n]
      <3>1. k - n \in 1 .. m /\ Queued[k] = r[k - n]
        BY <2>2, <1>2, <1>3, <1>6 DEF Distinct
      <3>2. j - n = k - n
        BY <2>2, <3>1, <1>2, <1>6 DEF Distinct
      <3> QED BY <3>2, <1>0
    <2> QED BY <2>1, <2>2, <1>3
  <1>7. ASSUME NEW e \in Now PROVE \E k \in 1 .. n + m : Queued[k] = e
    <2>1. CASE e \in Members(s)
      <3>1. PICK k \in 1 .. n : e = s[k]
        BY <2>1 DEF Members
      <3>2. Queued[k] = e
        BY <3>1, <1>1, <1>4
      <3> QED BY <3>2, <1>4
    <2>2. CASE e \in Members(r)
      <3>1. PICK k \in 1 .. m : e = r[k]
        BY <2>2 DEF Members
      <3>2. Queued[n + k] = r[(n + k) - n]
        BY <1>1, <1>5
      <3> QED BY <3>1, <3>2, <1>5
    <2> QED BY <2>1, <2>2, <1>2
  <1>8. ASSUME NEW k \in 1 .. n + m PROVE Queued[k] \in Now
    BY <1>2, <1>3 DEF Members
  <1> QED BY <1>1, <1>6, <1>7, <1>8

LEMMA NothingLost == SInv => NoProcessLost
  <1> SUFFICES ASSUME SInv, pc = "running" PROVE NoProcessLost
    BY DEF NoProcessLost
  <1>0. /\ TypeInv /\ QueuesInv /\ pcbs.items \in Seq(PcbType) /\ ready.items \in Seq(PcbType)
        /\ Unique(Now) /\ Procs = 1 .. Len(array)
    BY RunningTypes, PcbsItems, NowTypes DEF SInv, PInv, RunInv, QueuesInv
  <1>1. /\ \A j, k \in DOMAIN Queued : Queued[j].id = Queued[k].id => j = k
        /\ \A e : e \in Now <=> \E k \in DOMAIN Queued : Queued[k] = e
    BY <1>0, QueuedIs DEF QueuesInv
  <1>2. ASSUME NEW i \in Procs PROVE InQueue(i) <=> exit[i] = NEVER
    <2>1. InQueue(i) <=> Waits(i)
      BY <1>1 DEF InQueue, Waits, Compares
    <2> QED BY <2>1, <1>0 DEF QueuesInv
  <1> DEFINE z == OfZero(alg)
  <1>3. \A b : ToRun(b) = Wrapped(z, b)
    BY DEF ToRun, Wrapped, OfZero
  <1>4. ASSUME NEW i \in Procs PROVE Left(i) = RestIn(Now, z, i)
    <2> HIDE DEF z
    <2> DEFINE at == {k \in DOMAIN Queued : Queued[k].id = i}
    <2>1. CASE at = {}
      <3>1. \A e \in Now : e.id # i
        BY <2>1, <1>1
      <3>2. RestIn(Now, z, i) = 0
        BY <3>1, RestOfNone
      <3> QED BY <2>1, <3>2 DEF Left
    <2>2. CASE at # {}
      <3> DEFINE k == CHOOSE k \in at : TRUE
      <3>1. k \in at
        BY <2>2
      <3>2. Left(i) = ToRun(Queued[k].remaining)
        BY <2>2 DEF Left
      <3> HIDE DEF k
      <3>3. Queued[k] \in Now /\ Queued[k].id = i
        BY <3>1, <1>1
      <3>4. RestIn(Now, z, Queued[k].id) = Wrapped(z, Queued[k].remaining)
        BY <3>3, <1>0, RestOf
      <3> QED BY <3>2, <3>3, <3>4, <1>3
    <2> QED BY <2>1, <2>2
  <1>5. [i \in Procs |-> ToRun(array[i].burst) - Left(i)] = Ran(array, Now, z)
    <2> HIDE DEF z
    <2> QED BY <1>0, <1>3, <1>4 DEF Ran
  <1>6. t = Clock(SumOf([i \in Procs |-> ToRun(array[i].burst) - Left(i)]))
    BY <1>0, <1>5 DEF QueuesInv
  <1> QED BY <1>1, <1>2, <1>6 DEF NoProcessLost

-----------------------------------------------------------------------------
(* All schedules.                                                          *)

LEMMA LeastExists ==
    ASSUME NEW S, S \subseteq Nat, S # {}
    PROVE  LeastOf(S) \in S /\ \A m \in S : LeastOf(S) <= m
  <1> DEFINE Before == {ss \in Nat \X Nat : ss[1] < ss[2]}
  <1>1. OpToRel(<, Nat) = Before
    BY Zenon DEF OpToRel
  <1>2. IsWellFoundedOn(Before, Nat)
    BY <1>1, NatLessThanWellFounded
  <1>3. PICK n \in S : \A m \in S : ~ (<<m, n>> \in Before)
    BY <1>2, WFMin
  <1>4. \A m \in S : n <= m
    <2> SUFFICES ASSUME NEW m \in S PROVE n <= m
      OBVIOUS
    <2>1. n \in Nat /\ m \in Nat /\ ~ (<<m, n>> \in Before)
      BY <1>3
    <2>2. ~ (m < n)
      BY <2>1
    <2> QED BY <2>1, <2>2
  <1> QED BY <1>3, <1>4 DEF LeastOf

Total == SumOf(Bursts)
Lefts == [Procs -> 0 .. Total]

\* A process runs for a tick, n ticks before the end.
Able(n, s) == {i \in Procs : s[i] > 0 /\ array[i].arrival <= Total - n}
Cost(n, s, i) == IF s[i] = 1 THEN (Total - n) + 1 ELSE 0
Less(s, i) == [s EXCEPT ![i] = @ - 1]

\* The level of Best for n, from the one before it.
Level(n, before) ==
    [s \in Lefts |-> IF n = 0 THEN 0
                     ELSE LeastOf({Cost(n, s, i) + before[Less(s, i)] : i \in Able(n, s)})]

IsTable(V) == V = [n \in 0 .. Total |-> Level(n, V[n - 1])]

LEMMA LevelZero == \A a, b : Level(0, a) = Level(0, b)
  BY DEF Level

LEMMA TableExists ==
    ASSUME Total \in Nat
    PROVE  \E V : IsTable(V)
  <1> DEFINE N == Total
             Upto(n, g) == g = [m \in 0 .. n |-> Level(m, g[m - 1])]
             T == {n \in 0 .. N : \E g : Upto(n, g)}
  <1>1. 0 \in T
    <2> DEFINE g == [m \in 0 .. 0 |-> Level(0, 0)]
    <2>1. g = [m \in 0 .. 0 |-> Level(m, g[m - 1])]
      <3>1. \A m \in 0 .. 0 : m = 0 /\ Level(0, g[m - 1]) = Level(0, 0)
        BY LevelZero
      <3> QED BY <3>1
    <2> HIDE DEF g
    <2>2. Upto(0, g)
      BY <2>1
    <2> QED BY <2>2
  <1>2. ASSUME NEW n \in 1 .. N, n - 1 \in T PROVE n \in T
    <2>1. PICK g : Upto(n - 1, g)
      BY <1>2
    <2> DEFINE h == [m \in 0 .. n |-> IF m = n THEN Level(n, g[n - 1]) ELSE g[m]]
    <2>2. n \in Nat /\ n - 1 \in 0 .. n /\ n - 1 # n
      OBVIOUS
    <2>3. h[n - 1] = g[n - 1]
      BY <2>2
    <2>4. ASSUME NEW m \in 0 .. n PROVE h[m] = Level(m, h[m - 1])
      <3>1. CASE m = n
        BY <3>1, <2>3
      <3>2. CASE m # n
        <4>1. m \in 0 .. n - 1 /\ h[m] = g[m]
          BY <3>2, <2>2
        <4>2. g[m] = Level(m, g[m - 1])
          BY <4>1, <2>1
        <4>3. CASE m = 0
          <5>1. Level(0, g[m - 1]) = Level(0, h[m - 1])
            BY LevelZero
          <5> QED BY <5>1, <4>1, <4>2, <4>3
        <4>4. CASE m # 0
          <5>1. m - 1 \in 0 .. n /\ m - 1 # n
            BY <4>1, <4>4
          <5>2. h[m - 1] = g[m - 1]
            BY <5>1
          <5> QED BY <5>2, <4>1, <4>2
        <4> QED BY <4>3, <4>4
      <3> QED BY <3>1, <3>2
    <2>5. h = [m \in 0 .. n |-> h[m]]
      OBVIOUS
    <2> HIDE DEF h
    <2>6. h = [m \in 0 .. n |-> Level(m, h[m - 1])]
      BY <2>4, <2>5
    <2>7. Upto(n, h)
      BY <2>6
    <2>8. \E k : Upto(n, k)
      BY <2>7
    <2> HIDE DEF Upto
    <2> QED BY <2>8
  <1> HIDE DEF T
  <1>3. \A n \in 0 .. N : n \in T
    BY <1>1, <1>2, CountingUp
  <1>4. N \in T
    BY <1>3
  <1> QED BY <1>4 DEF T, IsTable

LEMMA BestIs ==
    ASSUME Total \in Nat
    PROVE  \E V : IsTable(V) /\ Best(Bursts) = V[Total][Bursts]
  <1> DEFINE V == CHOOSE V : IsTable(V)
  <1>1. IsTable(V)
    BY TableExists
  <1>2. Best(Bursts) = V[Total][Bursts]
    BY Zenon DEF Best, IsTable, Level, Lefts, Cost, Less, Able, Total
  <1> HIDE DEF V
  <1> QED BY <1>1, <1>2

-----------------------------------------------------------------------------
(* What the processes may have left at some time.                          *)

LEMMA SumOfMinus ==
    ASSUME NEW f \in Seq(Int), NEW g \in Seq(Int), NEW h \in Seq(Int),
           Len(f) = Len(g), Len(f) = Len(h),
           \A i \in 1 .. Len(f) : h[i] = f[i] - g[i]
    PROVE  SumOf(h) = SumOf(f) - SumOf(g)
  <1>1. PICK a : Sums(f, a)
    BY SumsExist
  <1>2. PICK b : Sums(g, b)
    BY SumsExist
  <1>3. PICK c : Sums(h, c)
    BY SumsExist
  <1> DEFINE N == Len(f)
             T == {n \in 0 .. N : c[n] = a[n] - b[n]}
  <1>0. /\ N \in Nat /\ f \in [1 .. N -> Int] /\ g \in [1 .. N -> Int] /\ h \in [1 .. N -> Int]
    <2>1. N \in Nat /\ f \in [1 .. N -> Int]
      OBVIOUS
    <2>2. g \in [1 .. N -> Int]
      <3>1. g \in [1 .. Len(g) -> Int]
        BY LenProperties
      <3> QED BY <3>1, Zenon
    <2>3. h \in [1 .. N -> Int]
      <3>1. h \in [1 .. Len(h) -> Int]
        OBVIOUS
      <3> QED BY <3>1, Zenon
    <2> QED BY <2>1, <2>2, <2>3
  <1>4. 0 \in T
    BY <1>0, <1>1, <1>2, <1>3 DEF Sums
  <1>5. ASSUME NEW n \in 1 .. N, n - 1 \in T PROVE n \in T
    <2>0. n - 1 \in 0 .. N
      BY <1>0
    <2>1. /\ a[n] = a[n - 1] + f[n] /\ b[n] = b[n - 1] + g[n] /\ c[n] = c[n - 1] + h[n]
          /\ a[n - 1] \in Int /\ b[n - 1] \in Int /\ c[n - 1] \in Int
          /\ f[n] \in Int /\ g[n] \in Int /\ h[n] \in Int
      BY <2>0, <1>0, <1>1, <1>2, <1>3 DEF Sums
    <2>2. h[n] = f[n] - g[n]
      OBVIOUS
    <2>3. c[n - 1] = a[n - 1] - b[n - 1]
      BY <1>5
    <2>4. c[n] = a[n] - b[n]
      <3>1. PICK u \in Int, v \in Int, x \in Int, y \in Int :
              u = a[n - 1] /\ v = b[n - 1] /\ x = f[n] /\ y = g[n]
        BY <2>1
      <3>2. a[n] = u + x /\ b[n] = v + y /\ c[n] = (u - v) + (x - y)
        BY <2>1, <2>2, <2>3, <3>1
      <3>3. (u - v) + (x - y) = (u + x) - (v + y)
        OBVIOUS
      <3> QED BY <3>2, <3>3
    <2> QED BY <2>4, <1>0
  <1> HIDE DEF T
  <1>6. \A n \in 0 .. N : n \in T
    BY <1>0, <1>4, <1>5, CountingUp
  <1>7. c[N] = a[N] - b[N]
    BY <1>0, <1>6 DEF T
  <1> QED BY <1>7, <1>1, <1>2, <1>3, SumOfIs

\* No term of a sum of natural numbers is greater than it.
LEMMA SumOfNats ==
    ASSUME NEW f \in Seq(Nat)
    PROVE  SumOf(f) \in Nat /\ \A i \in 1 .. Len(f) : f[i] <= SumOf(f)
  <1> DEFINE zeros == [j \in 1 .. Len(f) |-> 0]
  <1>0. /\ f \in Seq(Int) /\ zeros \in Seq(Int) /\ Len(zeros) = Len(f) /\ Len(f) \in Nat
        /\ \A j \in 1 .. Len(f) : zeros[j] = 0 /\ f[j] \in Nat
    OBVIOUS
  <1> HIDE DEF zeros
  <1>1. SumOf(zeros) = 0
    BY <1>0, SumOfZeros
  <1>2. SumOf(zeros) <= SumOf(f)
    BY <1>0, SumOfSmaller
  <1>3. SumOf(f) \in Int
    BY <1>0, SumIsInt
  <1>4. ASSUME NEW i \in 1 .. Len(f) PROVE f[i] <= SumOf(f)
    <2> DEFINE g == [j \in 1 .. Len(f) |-> IF j = i THEN f[i] ELSE 0]
    <2>1. /\ g \in Seq(Int) /\ Len(g) = Len(f)
          /\ \A j \in 1 .. Len(f) : g[j] = IF j = i THEN f[i] ELSE 0
      BY <1>0
    <2> HIDE DEF g
    <2>2. SumOf(g) = SumOf(zeros) + (g[i] - zeros[i])
      <3>1. \A j \in 1 .. Len(zeros) : j # i => g[j] = zeros[j]
        BY <2>1, <1>0
      <3>2. i \in 1 .. Len(zeros) /\ Len(zeros) = Len(g)
        BY <2>1, <1>0
      <3> QED BY <2>1, <3>1, <3>2, <1>0, SumOfChanged
    <2>3. SumOf(g) <= SumOf(f)
      <3>1. ASSUME NEW j \in 1 .. Len(f) PROVE g[j] <= f[j]
        <4>1. g[j] = (IF j = i THEN f[i] ELSE 0) /\ f[j] \in Nat
          BY <2>1, <1>0
        <4> QED BY <4>1
      <3>2. \A j \in 1 .. Len(g) : g[j] <= f[j]
        BY <3>1, <2>1
      <3> QED BY <2>1, <3>2, <1>0, SumOfSmaller
    <2> QED BY <2>1, <2>2, <2>3, <1>0, <1>1
  <1> QED BY <1>1, <1>2, <1>3, <1>4

LEMMA JobsAre ==
    ASSUME array \in Seq(Jobs)
    PROVE  /\ Len(array) \in Nat /\ Procs = 1 .. Len(array)
           /\ \A i \in Procs : array[i].burst \in Nat /\ array[i].arrival \in Nat
           /\ Bursts \in Seq(Nat) /\ Len(Bursts) = Len(array)
           /\ \A i \in Procs : Bursts[i] = array[i].burst
           /\ Total \in Nat
  <1>1. Len(array) \in Nat /\ Procs = 1 .. Len(array)
    BY DEF Procs
  <1>2. \A i \in Procs : array[i].burst \in Nat /\ array[i].arrival \in Nat
    BY <1>1, JobBursts, WordIsNat
  <1>3. Bursts \in [1 .. Len(array) -> Nat] /\ \A i \in Procs : Bursts[i] = array[i].burst
    BY <1>1, <1>2 DEF Bursts
  <1>4. Bursts \in Seq(Nat) /\ Len(Bursts) = Len(array)
    BY <1>1, <1>3
  <1> QED BY <1>1, <1>2, <1>3, <1>4, SumOfNats DEF Total

\* The processes can have s left, n ticks before the end.
Possible(n, s) ==
    /\ n \in 0 .. Total /\ s \in [Procs -> Nat]
    /\ SumOf(s) = n
    /\ \A i \in Procs : array[i].arrival > Total - n => s[i] = array[i].burst

LEMMA LeftsAre ==
    ASSUME array \in Seq(Jobs), NEW s \in [Procs -> Nat]
    PROVE  /\ s \in Seq(Nat) /\ s \in Seq(Int) /\ Len(s) = Len(array)
           /\ SumOf(s) \in Nat /\ \A i \in Procs : s[i] <= SumOf(s)
           /\ SumOf(s) <= Total => s \in Lefts
  <1>0. Procs = 1 .. Len(array) /\ Len(array) \in Nat /\ Total \in Nat
    BY JobsAre
  <1>1. s \in Seq(Nat) /\ s \in Seq(Int) /\ Len(s) = Len(array)
    BY <1>0
  <1>2. SumOf(s) \in Nat /\ \A i \in Procs : s[i] <= SumOf(s)
    BY <1>0, <1>1, SumOfNats
  <1>3. SumOf(s) <= Total => \A i \in Procs : s[i] \in 0 .. Total
    BY <1>0, <1>2
  <1> QED BY <1>1, <1>2, <1>3 DEF Lefts

Without(s, i) == [k \in Procs |-> IF k = i THEN s[k] - 1 ELSE s[k]]
Moved(s, i, j) == [k \in Procs |-> IF k = i THEN s[k] - 1 ELSE IF k = j THEN s[k] + 1 ELSE s[k]]
Swapped(s, i, j) == [k \in Procs |-> IF k = i THEN s[j] ELSE IF k = j THEN s[i] ELSE s[k]]

LEMMA LessIs ==
    ASSUME NEW s \in [Procs -> Nat], NEW i \in Procs
    PROVE  Less(s, i) = Without(s, i)
  BY DEF Less, Without

LEMMA SumOfOne ==
    ASSUME array \in Seq(Jobs), NEW s \in [Procs -> Nat], NEW r \in [Procs -> Nat], NEW i \in Procs,
           \A k \in Procs : k # i => r[k] = s[k]
    PROVE  SumOf(r) = SumOf(s) + (r[i] - s[i])
  <1>1. Procs = 1 .. Len(array) /\ s \in Seq(Int) /\ r \in Seq(Int)
        /\ Len(s) = Len(array) /\ Len(r) = Len(array)
    BY JobsAre, LeftsAre
  <1>2. i \in 1 .. Len(s) /\ \A k \in 1 .. Len(s) : k # i => r[k] = s[k]
    BY <1>1
  <1> QED BY <1>1, <1>2, SumOfChanged

\* A process that is able runs.
LEMMA RunPossible ==
    ASSUME array \in Seq(Jobs), NEW n, NEW s, Possible(n, s), n > 0, NEW i \in Able(n, s)
    PROVE  Possible(n - 1, Less(s, i))
  <1>0. /\ n \in 1 .. Total /\ s \in [Procs -> Nat] /\ SumOf(s) = n /\ i \in Procs
        /\ s[i] > 0 /\ array[i].arrival <= Total - n /\ Total \in Nat
        /\ \A k \in Procs : array[k].arrival \in Nat
    BY JobsAre DEF Possible, Able
  <1>1. Less(s, i) = Without(s, i)
    BY <1>0, LessIs
  <1>2. Without(s, i) \in [Procs -> Nat]
    BY <1>0 DEF Without
  <1>3. SumOf(Without(s, i)) = n - 1
    <2>1. /\ \A k \in Procs : k # i => Without(s, i)[k] = s[k]
          /\ Without(s, i)[i] = s[i] - 1
      BY <1>0 DEF Without
    <2>2. SumOf(Without(s, i)) = SumOf(s) + (Without(s, i)[i] - s[i])
      BY <2>1, <1>0, <1>2, SumOfOne
    <2>3. s[i] \in Nat
      BY <1>0
    <2> QED BY <2>1, <2>2, <2>3, <1>0
  <1>4. ASSUME NEW k \in Procs, array[k].arrival > Total - (n - 1)
        PROVE  Without(s, i)[k] = array[k].burst
    <2>1. array[k].arrival > Total - n /\ k # i
      BY <1>0, <1>4
    <2> QED BY <2>1 DEF Without, Possible
  <1> QED BY <1>0, <1>1, <1>2, <1>3, <1>4 DEF Possible

\* Of two processes that have arrived, one may have less left and the other
\* more, or each what the other has.
LEMMA MovePossible ==
    ASSUME array \in Seq(Jobs), NEW n, NEW s, Possible(n, s), NEW i \in Procs, NEW j \in Procs,
           i # j, s[i] > 0, array[i].arrival <= Total - n, array[j].arrival <= Total - n
    PROVE  Possible(n, Moved(s, i, j))
  <1>0. /\ n \in 0 .. Total /\ s \in [Procs -> Nat] /\ SumOf(s) = n /\ Total \in Nat
        /\ \A k \in Procs : array[k].arrival \in Nat
        /\ s[i] \in Nat /\ s[j] \in Nat
    BY JobsAre DEF Possible
  <1> DEFINE r == Without(s, i)
             m == Moved(s, i, j)
  <1>1. /\ r \in [Procs -> Nat] /\ m \in [Procs -> Nat]
        /\ \A k \in Procs : k # i => r[k] = s[k]
        /\ r[i] = s[i] - 1
        /\ \A k \in Procs : k # j => m[k] = r[k]
        /\ m[j] = r[j] + 1
    BY <1>0 DEF Without, Moved
  <1>2. \A k \in Procs : k \notin {i, j} => m[k] = s[k]
    BY <1>0 DEF Moved
  <1> HIDE DEF r, m
  <1>3. SumOf(r) = SumOf(s) + (r[i] - s[i]) /\ SumOf(m) = SumOf(r) + (m[j] - r[j])
    BY <1>0, <1>1, SumOfOne
  <1>4. SumOf(m) = n
    <2>1. r[j] \in Nat
      BY <1>1
    <2> QED BY <2>1, <1>0, <1>1, <1>3
  <1>5. ASSUME NEW k \in Procs, array[k].arrival > Total - n PROVE m[k] = array[k].burst
    <2>1. k \notin {i, j}
      BY <1>0, <1>5
    <2> QED BY <2>1, <1>2, <1>5 DEF Possible
  <1> QED BY <1>0, <1>1, <1>4, <1>5 DEF Possible, m

LEMMA SwapPossible ==
    ASSUME array \in Seq(Jobs), NEW n, NEW s, Possible(n, s), NEW i \in Procs, NEW j \in Procs,
           i # j, array[i].arrival <= Total - n, array[j].arrival <= Total - n
    PROVE  Possible(n, Swapped(s, i, j))
  <1>0. /\ n \in 0 .. Total /\ s \in [Procs -> Nat] /\ SumOf(s) = n /\ Total \in Nat
        /\ \A k \in Procs : array[k].arrival \in Nat
        /\ s[i] \in Nat /\ s[j] \in Nat
    BY JobsAre DEF Possible
  <1> DEFINE r == [s EXCEPT ![i] = s[j]]
             m == Swapped(s, i, j)
  <1>1. /\ r \in [Procs -> Nat] /\ m \in [Procs -> Nat]
        /\ \A k \in Procs : k # i => r[k] = s[k]
        /\ r[i] = s[j]
        /\ \A k \in Procs : k # j => m[k] = r[k]
        /\ m[j] = s[i] /\ r[j] = s[j]
    BY <1>0 DEF Swapped
  <1>2. \A k \in Procs : k \notin {i, j} => m[k] = s[k]
    BY <1>0 DEF Swapped
  <1> HIDE DEF r, m
  <1>3. SumOf(r) = SumOf(s) + (r[i] - s[i]) /\ SumOf(m) = SumOf(r) + (m[j] - r[j])
    BY <1>0, <1>1, SumOfOne
  <1>4. SumOf(m) = n
    BY <1>0, <1>1, <1>3
  <1>5. ASSUME NEW k \in Procs, array[k].arrival > Total - n PROVE m[k] = array[k].burst
    <2>1. k \notin {i, j}
      BY <1>0, <1>5
    <2> QED BY <2>1, <1>2, <1>5 DEF Possible
  <1> QED BY <1>0, <1>1, <1>4, <1>5 DEF Possible, m

\* Some process is ready at all times: then some process is able.
Busy == \A time \in 0 .. Total - 1 : Work(time) > time

LEMMA SomeAble ==
    ASSUME array \in Seq(Jobs), Busy, NEW n, NEW s, Possible(n, s), n > 0
    PROVE  Able(n, s) # {}
  <1> SUFFICES ASSUME Able(n, s) = {} PROVE FALSE
    OBVIOUS
  <1> DEFINE time == Total - n
             work == [i \in Procs |-> IF array[i].arrival <= time THEN array[i].burst ELSE 0]
  <1>0. /\ n \in 1 .. Total /\ s \in [Procs -> Nat] /\ SumOf(s) = n /\ Total \in Nat
        /\ time \in 0 .. Total - 1 /\ Procs = 1 .. Len(array) /\ Len(array) \in Nat
        /\ \A i \in Procs : array[i].arrival \in Nat /\ array[i].burst \in Nat
        /\ Bursts \in Seq(Int) /\ Len(Bursts) = Len(array)
        /\ \A i \in Procs : Bursts[i] = array[i].burst
    BY JobsAre DEF Possible
  <1>1. work \in [Procs -> Nat]
    BY <1>0
  <1>2. Work(time) = SumOf(work)
    BY DEF Work
  <1>3. ASSUME NEW i \in Procs PROVE s[i] = Bursts[i] - work[i]
    <2>1. CASE array[i].arrival <= time
      <3>1. ~ (s[i] > 0) /\ s[i] \in Nat
        BY <2>1, <1>0 DEF Able
      <3> QED BY <3>1, <2>1, <1>0
    <2>2. CASE ~ (array[i].arrival <= time)
      <3>1. array[i].arrival > Total - n
        BY <2>2, <1>0
      <3>2. s[i] = array[i].burst
        BY <3>1 DEF Possible
      <3> QED BY <3>2, <2>2, <1>0
    <2> QED BY <2>1, <2>2
  <1> HIDE DEF work
  <1>4. work \in Seq(Int) /\ s \in Seq(Int) /\ Len(work) = Len(array) /\ Len(s) = Len(array)
        /\ SumOf(work) \in Nat
    BY <1>0, <1>1, LeftsAre
  <1>5. SumOf(s) = SumOf(Bursts) - SumOf(work)
    BY <1>0, <1>3, <1>4, SumOfMinus
  <1>6. Work(time) > time
    BY <1>0 DEF Busy
  <1> QED BY <1>0, <1>2, <1>4, <1>5, <1>6 DEF Total

-----------------------------------------------------------------------------
(* What the best schedule does.                                            *)

Options(V, n, s) == {Cost(n, s, i) + V[n - 1][Less(s, i)] : i \in Able(n, s)}

LEMMA TableIs ==
    ASSUME array \in Seq(Jobs), NEW V, IsTable(V), NEW n, NEW s, Possible(n, s)
    PROVE  V[n][s] = IF n = 0 THEN 0 ELSE LeastOf(Options(V, n, s))
  <1>1. n \in 0 .. Total /\ s \in Lefts
    <2>1. Total \in Nat
      BY JobsAre
    <2> QED BY <2>1, LeftsAre DEF Possible
  <1>2. V[n] = Level(n, V[n - 1])
    BY <1>1 DEF IsTable
  <1> QED BY <1>1, <1>2 DEF Level, Options

LEMMA ChoiceIsNat ==
    ASSUME array \in Seq(Jobs), Busy, NEW V, NEW n, NEW s, Possible(n, s), n > 0,
           \A r : Possible(n - 1, r) => V[n - 1][r] \in Nat
    PROVE  /\ Options(V, n, s) \subseteq Nat /\ Options(V, n, s) # {}
           /\ \A i \in Procs : Cost(n, s, i) \in Nat
  <1>1. n \in 0 .. Total /\ Total \in Nat
    BY JobsAre DEF Possible
  <1>2. \A i \in Procs : Cost(n, s, i) \in Nat
    BY <1>1 DEF Cost
  <1>3. ASSUME NEW i \in Able(n, s) PROVE Cost(n, s, i) + V[n - 1][Less(s, i)] \in Nat
    <2>1. Possible(n - 1, Less(s, i))
      BY RunPossible
    <2>2. V[n - 1][Less(s, i)] \in Nat
      BY <2>1
    <2>3. Cost(n, s, i) \in Nat
      BY <1>2 DEF Able
    <2> QED BY <2>2, <2>3
  <1>4. Able(n, s) # {}
    BY SomeAble
  <1> QED BY <1>2, <1>3, <1>4 DEF Options

LEMMA TableIsNat ==
    ASSUME array \in Seq(Jobs), Busy, NEW V, IsTable(V), NEW n, NEW s, Possible(n, s)
    PROVE  V[n][s] \in Nat
  <1> DEFINE T == {m \in 0 .. Total : \A r : Possible(m, r) => V[m][r] \in Nat}
  <1>0. Total \in Nat
    BY JobsAre
  <1>1. 0 \in T
    BY <1>0, TableIs
  <1>2. ASSUME NEW m \in 1 .. Total, m - 1 \in T PROVE m \in T
    <2>1. ASSUME NEW r, Possible(m, r) PROVE V[m][r] \in Nat
      <3>1. m > 0 /\ m # 0
        OBVIOUS
      <3>2. Options(V, m, r) \subseteq Nat /\ Options(V, m, r) # {}
        BY <1>2, <2>1, <3>1, ChoiceIsNat
      <3>3. LeastOf(Options(V, m, r)) \in Nat
        BY <3>2, LeastExists
      <3> QED BY <2>1, <3>1, <3>3, TableIs
    <2> QED BY <2>1, <1>0
  <1> HIDE DEF T
  <1>3. \A m \in 0 .. Total : m \in T
    BY <1>0, <1>1, <1>2, CountingUp
  <1>4. n \in T
    BY <1>3 DEF Possible
  <1> QED BY <1>4 DEF T

\* It is one of those that are possible, and none is better.
LEMMA TableIsLeast ==
    ASSUME array \in Seq(Jobs), Busy, NEW V, IsTable(V), NEW n, NEW s, Possible(n, s), n > 0
    PROVE  /\ \E i \in Able(n, s) : V[n][s] = Cost(n, s, i) + V[n - 1][Less(s, i)]
           /\ \A i \in Able(n, s) : V[n][s] <= Cost(n, s, i) + V[n - 1][Less(s, i)]
  <1>1. n # 0
    OBVIOUS
  <1>2. Options(V, n, s) \subseteq Nat /\ Options(V, n, s) # {}
    <2>1. \A r : Possible(n - 1, r) => V[n - 1][r] \in Nat
      BY TableIsNat
    <2> QED BY <2>1, ChoiceIsNat
  <1>3. V[n][s] = LeastOf(Options(V, n, s))
    BY <1>1, TableIs
  <1>4. V[n][s] \in Options(V, n, s) /\ \A m \in Options(V, n, s) : V[n][s] <= m
    BY <1>2, <1>3, LeastExists
  <1> QED BY <1>4 DEF Options

\* Two processes that have arrived are alike.
LEMMA Alike ==
    ASSUME array \in Seq(Jobs), Busy, NEW V, IsTable(V), NEW n, NEW s, Possible(n, s),
           NEW i \in Procs, NEW j \in Procs, i # j,
           array[i].arrival <= Total - n, array[j].arrival <= Total - n
    PROVE  V[n][Swapped(s, i, j)] <= V[n][s]
  <1> DEFINE There(m) == array[i].arrival <= Total - m /\ array[j].arrival <= Total - m
             T == {m \in 0 .. Total : \A r : Possible(m, r) /\ There(m) =>
                                               V[m][Swapped(r, i, j)] <= V[m][r]}
  <1>0. /\ Total \in Nat
        /\ array[i].arrival \in Nat /\ array[j].arrival \in Nat
    BY JobsAre
  <1>1. 0 \in T
    <2>1. ASSUME NEW r, Possible(0, r), There(0) PROVE V[0][Swapped(r, i, j)] <= V[0][r]
      <3>1. Possible(0, Swapped(r, i, j))
        BY <2>1, SwapPossible
      <3>2. V[0][Swapped(r, i, j)] = 0 /\ V[0][r] = 0
        BY <2>1, <3>1, TableIs
      <3> QED BY <3>2
    <2> HIDE DEF There
    <2> QED BY <2>1, <1>0
  <1>2. ASSUME NEW m \in 1 .. Total, m - 1 \in T PROVE m \in T
    <2>1. ASSUME NEW r, Possible(m, r), There(m) PROVE V[m][Swapped(r, i, j)] <= V[m][r]
      <3> DEFINE w == Swapped(r, i, j)
      <3>0. m > 0 /\ r \in [Procs -> Nat] /\ Possible(m, w)
        <4>1. Possible(m, Swapped(r, i, j))
          BY <2>1, SwapPossible
        <4> QED BY <2>1, <4>1 DEF Possible
      <3>1. PICK k \in Able(m, r) : V[m][r] = Cost(m, r, k) + V[m - 1][Less(r, k)]
        BY <2>1, <3>0, TableIsLeast
      <3> DEFINE l == IF k = i THEN j ELSE IF k = j THEN i ELSE k
      <3>2. l \in Procs /\ k \in Procs /\ w[l] = r[k] /\ l \in Able(m, w)
        <4>1. k \in Procs /\ r[k] > 0 /\ array[k].arrival <= Total - m
          BY DEF Able
        <4>2. l \in Procs /\ w[l] = r[k] /\ array[l].arrival <= Total - m
          BY <2>1, <3>0, <4>1 DEF Swapped
        <4> QED BY <4>1, <4>2 DEF Able
      <3>3. Less(w, l) = Swapped(Less(r, k), i, j)
        <4>1. Less(r, k) = Without(r, k)
          BY <3>0, <3>2, LessIs
        <4>2. w \in [Procs -> Nat]
          BY <3>0 DEF Possible
        <4>3. Less(w, l) = Without(w, l)
          <5> HIDE DEF w, l
          <5> QED BY <3>2, <4>2, LessIs
        <4>4. ASSUME NEW p \in Procs
              PROVE  Without(w, l)[p] = Swapped(Without(r, k), i, j)[p]
          BY <3>0, <3>2 DEF Without, Swapped
        <4>5. Without(w, l) = Swapped(Without(r, k), i, j)
          BY <4>4 DEF Without, Swapped
        <4> QED BY <4>1, <4>3, <4>5
      <3> HIDE DEF w, l
      <3>4. Possible(m - 1, Less(r, k)) /\ Possible(m - 1, Less(w, l))
        BY <2>1, <3>0, <3>2, RunPossible
      <3>5. V[m - 1][Less(w, l)] <= V[m - 1][Less(r, k)]
        <4>1. There(m - 1)
          BY <2>1, <1>0
        <4>2. V[m - 1][Swapped(Less(r, k), i, j)] <= V[m - 1][Less(r, k)]
          BY <4>1, <3>4, <1>2
        <4> QED BY <4>2, <3>3
      <3>6. V[m][w] <= Cost(m, w, l) + V[m - 1][Less(w, l)]
        BY <3>0, <3>2, TableIsLeast
      <3>7. Cost(m, w, l) = Cost(m, r, k) /\ Cost(m, r, k) \in Nat
        BY <3>2, <1>0 DEF Cost
      <3>8. /\ V[m][w] \in Nat /\ V[m - 1][Less(w, l)] \in Nat /\ V[m - 1][Less(r, k)] \in Nat
        BY <3>0, <3>4, TableIsNat
      <3>9. V[m][w] <= V[m][r]
        <4>1. PICK a \in Nat, b \in Nat, c \in Nat :
                a = V[m - 1][Less(w, l)] /\ b = V[m - 1][Less(r, k)] /\ c = Cost(m, r, k)
          BY <3>7, <3>8
        <4>2. PICK e \in Nat : e = V[m][w]
          BY <3>8
        <4>3. a <= b /\ e <= c + a
          BY <3>5, <3>6, <3>7, <4>1, <4>2
        <4>4. V[m][r] = c + b
          BY <3>1, <4>1
        <4>5. e <= c + b
          BY <4>3
        <4> QED BY <4>2, <4>4, <4>5
      <3> QED BY <3>9 DEF w
    <2> HIDE DEF There
    <2> QED BY <2>1
  <1> HIDE DEF T
  <1>3. \A m \in 0 .. Total : m \in T
    BY <1>0, <1>1, <1>2, CountingUp
  <1>4. n \in T
    BY <1>3 DEF Possible
  <1> QED BY <1>4 DEF T

\* What has ended by now.
Ended(n, s, i) == IF s[i] = 1 THEN Total - n ELSE 0

\* It is better if the shorter of two processes has even less left and the
\* longer more.
LEMMA ShorterIsBetter ==
    ASSUME array \in Seq(Jobs), Busy, NEW V, IsTable(V), NEW n, NEW s, Possible(n, s),
           NEW i \in Procs, NEW j \in Procs, i # j,
           array[i].arrival <= Total - n, array[j].arrival <= Total - n,
           1 <= s[i], s[i] <= s[j]
    PROVE  Ended(n, s, i) + V[n][Moved(s, i, j)] <= V[n][s]
  <1> DEFINE There(m) == array[i].arrival <= Total - m /\ array[j].arrival <= Total - m
             T == {m \in 0 .. Total : \A r : Possible(m, r) /\ There(m) /\ 1 <= r[i] /\ r[i] <= r[j] =>
                                               Ended(m, r, i) + V[m][Moved(r, i, j)] <= V[m][r]}
  <1>0. /\ Total \in Nat
        /\ array[i].arrival \in Nat /\ array[j].arrival \in Nat
    BY JobsAre
  <1>1. 0 \in T
    <2>1. ASSUME NEW r, Possible(0, r) PROVE ~ (1 <= r[i])
      <3>1. r \in [Procs -> Nat] /\ SumOf(r) = 0
        BY <2>1 DEF Possible
      <3>2. r[i] <= 0
        BY <3>1, LeftsAre
      <3> QED BY <3>1, <3>2
    <2> HIDE DEF There
    <2> QED BY <2>1, <1>0
  <1>2. ASSUME NEW m \in 1 .. Total, m - 1 \in T PROVE m \in T
    <2>1. ASSUME NEW r, Possible(m, r), There(m), 1 <= r[i], r[i] <= r[j]
          PROVE  Ended(m, r, i) + V[m][Moved(r, i, j)] <= V[m][r]
      <3> DEFINE w == Moved(r, i, j)
      <3>0. /\ m > 0 /\ r \in [Procs -> Nat] /\ r[i] \in Nat /\ r[j] \in Nat /\ r[i] > 0
        BY <2>1 DEF Possible
      <3>1. Possible(m, w) /\ w \in [Procs -> Nat]
        <4>1. Possible(m, Moved(r, i, j))
          BY <2>1, <3>0, MovePossible
        <4> HIDE DEF w
        <4>2. Possible(m, w)
          BY <4>1 DEF w
        <4> QED BY <4>2 DEF Possible
      <3>2. PICK k \in Able(m, r) : V[m][r] = Cost(m, r, k) + V[m - 1][Less(r, k)]
        BY <2>1, <3>0, TableIsLeast
      <3>3. k \in Procs /\ r[k] > 0 /\ r[k] \in Nat /\ array[k].arrival <= Total - m
        BY <3>0 DEF Able
      <3>4. Less(r, k) = Without(r, k)
        BY <3>0, <3>3, LessIs
      <3>5. Possible(m - 1, Less(r, k)) /\ V[m - 1][Less(r, k)] \in Nat
        BY <2>1, <3>0, RunPossible, TableIsNat
      <3>6. There(m - 1) /\ Total - m \in Nat
        BY <2>1, <1>0
      \* How j can run in w.
      <3>7. j \in Able(m, w) /\ Cost(m, w, j) = 0 /\ Less(w, j) = Without(r, i)
        <4>1. w[j] = r[j] + 1
          BY DEF Moved
        <4>2. j \in Able(m, w) /\ Cost(m, w, j) = 0
          BY <2>1, <3>0, <4>1 DEF Able, Cost
        <4>3. Less(w, j) = Without(w, j)
          <5> HIDE DEF w
          <5> QED BY <3>1, LessIs
        <4>4. ASSUME NEW p \in Procs PROVE Without(w, j)[p] = Without(r, i)[p]
          <5>1. r[p] \in Nat
            BY <3>0
          <5> QED BY <5>1, <3>0 DEF Without, Moved
        <4>5. Without(w, j) = Without(r, i)
          BY <4>4 DEF Without
        <4> QED BY <4>2, <4>3, <4>5
      <3> HIDE DEF w
      <3>8. /\ V[m][w] \in Nat /\ V[m][w] <= V[m - 1][Without(r, i)]
            /\ V[m - 1][Without(r, i)] \in Nat
        <4>1. V[m][w] <= Cost(m, w, j) + V[m - 1][Less(w, j)]
          BY <3>0, <3>1, <3>7, TableIsLeast
        <4>2. Possible(m - 1, Less(w, j)) /\ V[m][w] \in Nat
          BY <3>0, <3>1, <3>7, RunPossible, TableIsNat
        <4>3. V[m - 1][Less(w, j)] \in Nat
          BY <4>2, TableIsNat
        <4> QED BY <4>1, <4>2, <4>3, <3>7
      <3>9. CASE k \notin {i, j}
        <4>1. /\ Less(r, k)[i] = r[i] /\ Less(r, k)[j] = r[j]
          BY <3>4, <3>9 DEF Without
        <4>2. Ended(m - 1, Less(r, k), i) + V[m - 1][Moved(Less(r, k), i, j)] <= V[m - 1][Less(r, k)]
          BY <4>1, <3>5, <3>6, <2>1, <1>2
        <4>3. w[k] = r[k] /\ k \in Able(m, w)
          BY <3>3, <3>9 DEF w, Moved, Able
        <4>4. Less(w, k) = Moved(Less(r, k), i, j)
          <5>1. Less(w, k) = Without(w, k)
            BY <3>1, <3>3, LessIs
          <5>2. ASSUME NEW p \in Procs PROVE Without(w, k)[p] = Moved(Without(r, k), i, j)[p]
            BY <3>0, <3>3, <3>9 DEF Without, Moved, w
          <5>3. Without(w, k) = Moved(Without(r, k), i, j)
            BY <5>2 DEF Without, Moved
          <5> QED BY <5>1, <5>3, <3>4
        <4>5. V[m][w] <= Cost(m, w, k) + V[m - 1][Less(w, k)]
          BY <3>0, <3>1, <4>3, TableIsLeast
        <4>6. Cost(m, w, k) = Cost(m, r, k) /\ Cost(m, r, k) \in Nat
          BY <4>3, <3>6 DEF Cost
        <4>7. V[m - 1][Less(w, k)] \in Nat
          BY <3>0, <3>1, <4>3, RunPossible, TableIsNat
        <4>8. Ended(m, r, i) <= Ended(m - 1, Less(r, k), i)
              /\ Ended(m, r, i) \in Nat /\ Ended(m - 1, Less(r, k), i) \in Nat
          BY <4>1, <3>6, <1>0 DEF Ended
        <4>9. Ended(m, r, i) + V[m][w] <= V[m][r]
          <5> DEFINE a == V[m - 1][Less(w, k)]
                     b == V[m - 1][Less(r, k)]
                     c == Cost(m, r, k)
                     d == Ended(m, r, i)
                     e == Ended(m - 1, Less(r, k), i)
          <5>1. /\ e + a <= b /\ V[m][w] <= c + a /\ d <= e /\ V[m][r] = c + b
                /\ a \in Nat /\ b \in Nat /\ c \in Nat /\ d \in Nat /\ e \in Nat
                /\ V[m][w] \in Nat
            BY <4>2, <4>4, <4>5, <4>6, <4>7, <4>8, <3>2, <3>5, <3>8
          <5> HIDE DEF a, b, c, d, e
          <5>2. d + V[m][w] <= V[m][r]
            BY <5>1
          <5> QED BY <5>2 DEF d
        <4> QED BY <4>9 DEF w
      <3>10. Ended(m, r, i) \in Nat /\ Ended(m, r, i) <= Cost(m, r, i) /\ Cost(m, r, i) \in Nat
        BY <3>6 DEF Ended, Cost
      <3>11. CASE k = i
        <4>1. Ended(m, r, i) + V[m][w] <= V[m][r]
          BY <3>2, <3>4, <3>8, <3>10, <3>11
        <4> QED BY <4>1 DEF w
      <3>12. CASE k = j /\ r[i] < r[j]
        <4>1. Less(r, j)[i] = r[i] /\ Less(r, j)[j] = r[j] - 1
          BY <3>4, <3>12 DEF Without
        <4>2. Ended(m - 1, Less(r, j), i) + V[m - 1][Moved(Less(r, j), i, j)] <= V[m - 1][Less(r, j)]
          <5>1. 1 <= Less(r, j)[i] /\ Less(r, j)[i] <= Less(r, j)[j]
            BY <4>1, <3>0, <3>12
          <5> QED BY <5>1, <3>5, <3>6, <3>12, <1>2
        <4>3. Moved(Less(r, j), i, j) = Without(r, i)
          <5>1. ASSUME NEW p \in Procs PROVE Moved(Without(r, j), i, j)[p] = Without(r, i)[p]
            <6>1. r[p] \in Nat
              BY <3>0
            <6> QED BY <6>1 DEF Without, Moved
          <5>2. Moved(Without(r, j), i, j) = Without(r, i)
            BY <5>1 DEF Without, Moved
          <5> QED BY <5>2, <3>4, <3>12
        <4>4. Cost(m, r, j) = 0
          BY <3>0, <3>12 DEF Cost
        <4>5. Ended(m, r, i) <= Ended(m - 1, Less(r, j), i)
              /\ Ended(m - 1, Less(r, j), i) \in Nat
          BY <4>1, <3>6, <1>0 DEF Ended
        <4>6. Ended(m, r, i) + V[m][w] <= V[m][r]
          <5>1. PICK a \in Nat, b \in Nat, c \in Nat, d \in Nat, e \in Nat :
                  /\ a = V[m - 1][Without(r, i)] /\ b = V[m - 1][Less(r, j)]
                  /\ c = Ended(m - 1, Less(r, j), i) /\ d = Ended(m, r, i) /\ e = V[m][w]
            BY <4>5, <3>5, <3>8, <3>10, <3>12
          <5>2. d <= c /\ e <= a
            BY <5>1, <4>5, <3>8
          <5>3. c + a <= b
            BY <5>1, <4>2, <4>3
          <5>4. V[m][r] = b
            BY <5>1, <4>4, <3>2, <3>12
          <5>5. d + e <= b
            BY <5>2, <5>3
          <5> QED BY <5>1, <5>4, <5>5
        <4> QED BY <4>6 DEF w
      <3>13. CASE k = j /\ r[i] = r[j]
        <4>1. Swapped(Less(r, j), i, j) = Without(r, i)
          <5>1. ASSUME NEW p \in Procs PROVE Swapped(Without(r, j), i, j)[p] = Without(r, i)[p]
            BY <3>0, <3>13 DEF Without, Swapped
          <5>2. Swapped(Without(r, j), i, j) = Without(r, i)
            BY <5>1 DEF Without, Swapped
          <5> QED BY <5>2, <3>4, <3>13
        <4>2. V[m - 1][Swapped(Less(r, j), i, j)] <= V[m - 1][Less(r, j)]
          BY <3>5, <3>6, <3>13, Alike
        <4>3. Cost(m, r, j) = Cost(m, r, i)
          BY <3>13 DEF Cost
        <4>4. Ended(m, r, i) + V[m][w] <= V[m][r]
          <5>1. V[m - 1][Without(r, i)] <= V[m - 1][Less(r, j)] /\ V[m][r] = Cost(m, r, i) + V[m - 1][Less(r, j)]
            BY <4>1, <4>2, <4>3, <3>2, <3>13
          <5>2. V[m - 1][Less(r, j)] \in Nat
            BY <3>5, <3>13
          <5>3. PICK a \in Nat, b \in Nat, c \in Nat, d \in Nat, e \in Nat :
                  /\ a = V[m - 1][Without(r, i)] /\ b = V[m - 1][Less(r, j)]
                  /\ c = Cost(m, r, i) /\ d = Ended(m, r, i) /\ e = V[m][w]
            BY <5>2, <3>8, <3>10
          <5>4. e <= a /\ a <= b /\ d <= c
            BY <5>1, <5>3, <3>8, <3>10
          <5>5. V[m][r] = c + b
            BY <5>1, <5>3
          <5>6. d + e <= c + b
            BY <5>4
          <5> QED BY <5>3, <5>5, <5>6
        <4> QED BY <4>4 DEF w
      <3>14. r[i] < r[j] \/ r[i] = r[j]
        BY <2>1, <3>0
      <3> QED BY <3>9, <3>11, <3>12, <3>13, <3>14
    <2> HIDE DEF There
    <2> QED BY <2>1
  <1> HIDE DEF T
  <1>3. \A m \in 0 .. Total : m \in T
    BY <1>0, <1>1, <1>2, CountingUp
  <1>4. n \in T
    BY <1>3 DEF Possible
  <1> QED BY <1>4 DEF T

\* So to run a shortest process is best.
LEMMA ShortestIsBest ==
    ASSUME array \in Seq(Jobs), Busy, NEW V, IsTable(V), NEW n, NEW s, Possible(n, s), n > 0,
           NEW i \in Able(n, s), \A j \in Able(n, s) : s[i] <= s[j]
    PROVE  V[n][s] = Cost(n, s, i) + V[n - 1][Less(s, i)]
  <1>0. /\ s \in [Procs -> Nat] /\ n \in 1 .. Total /\ Total \in Nat
        /\ i \in Procs /\ s[i] \in Nat /\ s[i] > 0 /\ array[i].arrival <= Total - n
        /\ \A k \in Procs : array[k].arrival \in Nat
    BY JobsAre DEF Possible, Able
  <1>1. PICK j \in Able(n, s) : V[n][s] = Cost(n, s, j) + V[n - 1][Less(s, j)]
    BY TableIsLeast
  <1>2. /\ j \in Procs /\ s[j] \in Nat /\ s[j] > 0 /\ array[j].arrival <= Total - n
        /\ s[i] <= s[j]
    BY <1>0 DEF Able
  <1>3. V[n][s] <= Cost(n, s, i) + V[n - 1][Less(s, i)]
    BY TableIsLeast
  <1>4. /\ Possible(n - 1, Less(s, i)) /\ Possible(n - 1, Less(s, j))
        /\ V[n - 1][Less(s, i)] \in Nat /\ V[n - 1][Less(s, j)] \in Nat /\ V[n][s] \in Nat
        /\ Cost(n, s, i) \in Nat /\ Cost(n, s, j) \in Nat
    <2>1. Possible(n - 1, Less(s, i)) /\ Possible(n - 1, Less(s, j))
      BY RunPossible
    <2> QED BY <2>1, <1>0, TableIsNat DEF Cost
  <1>5. Less(s, i) = Without(s, i) /\ Less(s, j) = Without(s, j)
    BY <1>0, <1>2, LessIs
  <1>6. array[i].arrival <= Total - (n - 1) /\ array[j].arrival <= Total - (n - 1)
    BY <1>0, <1>2
  <1>7. CASE j # i /\ s[i] = s[j]
    <2>1. Swapped(Less(s, j), i, j) = Less(s, i)
      <3>1. ASSUME NEW p \in Procs PROVE Swapped(Without(s, j), i, j)[p] = Without(s, i)[p]
        BY <1>0, <1>2, <1>7 DEF Without, Swapped
      <3>2. Swapped(Without(s, j), i, j) = Without(s, i)
        BY <3>1 DEF Without, Swapped
      <3> QED BY <3>2, <1>5
    <2>2. V[n - 1][Swapped(Less(s, j), i, j)] <= V[n - 1][Less(s, j)]
      BY <1>0, <1>2, <1>4, <1>6, <1>7, Alike
    <2>3. Cost(n, s, i) = Cost(n, s, j)
      BY <1>7 DEF Cost
    <2> QED BY <2>1, <2>2, <2>3, <1>1, <1>3, <1>4
  <1>8. CASE j # i /\ s[i] < s[j]
    <2> DEFINE u == Less(s, j)
    <2>1. u[i] = s[i] /\ u[j] = s[j] - 1
      BY <1>0, <1>2, <1>5, <1>8 DEF Without
    <2>2. 1 <= u[i] /\ u[i] <= u[j]
      BY <2>1, <1>0, <1>2, <1>8
    <2>3. Moved(u, i, j) = Less(s, i)
      <3>1. ASSUME NEW p \in Procs PROVE Moved(Without(s, j), i, j)[p] = Without(s, i)[p]
        <4>1. s[p] \in Nat
          BY <1>0
        <4> QED BY <4>1, <1>8 DEF Without, Moved
      <3>2. Moved(Without(s, j), i, j) = Without(s, i)
        BY <3>1 DEF Without, Moved
      <3> QED BY <3>2, <1>5
    <2> HIDE DEF u
    <2>4. Ended(n - 1, u, i) + V[n - 1][Moved(u, i, j)] <= V[n - 1][u]
      <3>1. Possible(n - 1, u)
        BY <1>4 DEF u
      <3> QED BY <3>1, <2>2, <1>0, <1>2, <1>6, <1>8, ShorterIsBetter
    <2>5. Cost(n, s, j) = 0 /\ Ended(n - 1, u, i) = Cost(n, s, i)
      BY <2>1, <1>0, <1>2, <1>8 DEF Cost, Ended
    <2>6. u = Less(s, j)
      BY DEF u
    <2> QED BY <2>3, <2>4, <2>5, <2>6, <1>1, <1>3, <1>4
  <1>9. CASE j = i
    BY <1>1, <1>9
  <1>10. s[i] < s[j] \/ s[i] = s[j]
    BY <1>0, <1>2
  <1> QED BY <1>7, <1>8, <1>9, <1>10

\* And if all are there from the beginning to run it to its end.
Down(s, i, m) == [k \in Procs |-> IF k = i THEN s[i] - m ELSE s[k]]

LEMMA RunToItsEnd ==
    ASSUME array \in Seq(Jobs), Busy, AllAtOnce, NEW V, IsTable(V), NEW n, NEW s, Possible(n, s),
           NEW i \in Procs, s[i] > 0, \A j \in Procs : s[j] > 0 => s[i] <= s[j]
    PROVE  /\ Possible(n - s[i], Down(s, i, s[i]))
           /\ V[n][s] = ((Total - n) + s[i]) + V[n - s[i]][Down(s, i, s[i])]
  <1>0. /\ s \in [Procs -> Nat] /\ n \in 0 .. Total /\ Total \in Nat /\ s[i] \in Nat
        /\ s[i] <= n
        /\ \A k \in Procs : array[k].arrival = 0
    BY JobsAre, LeftsAre DEF Possible, AllAtOnce
  <1> DEFINE N == s[i] - 1
             T == {m \in 0 .. N : Possible(n - m, Down(s, i, m)) /\ V[n][s] = V[n - m][Down(s, i, m)]}
  <1>1. 0 \in T
    <2>1. Down(s, i, 0) = s
      BY <1>0 DEF Down
    <2>2. n - 0 = n /\ 0 \in 0 .. N
      BY <1>0
    <2> QED BY <2>1, <2>2
  <1>2. ASSUME NEW m \in 0 .. N
        PROVE  /\ Down(s, i, m) \in [Procs -> Nat] /\ Down(s, i, m)[i] = s[i] - m
               /\ \A k \in Procs : k # i => Down(s, i, m)[k] = s[k]
               /\ Less(Down(s, i, m), i) = Down(s, i, m + 1)
    <2>1. /\ Down(s, i, m) \in [Procs -> Nat] /\ Down(s, i, m)[i] = s[i] - m
          /\ \A k \in Procs : k # i => Down(s, i, m)[k] = s[k]
      BY <1>0 DEF Down
    <2>2. Less(Down(s, i, m), i) = Without(Down(s, i, m), i)
      BY <2>1, LessIs
    <2>3. ASSUME NEW p \in Procs PROVE Without(Down(s, i, m), i)[p] = Down(s, i, m + 1)[p]
      BY <1>0 DEF Without, Down
    <2>4. Without(Down(s, i, m), i) = Down(s, i, m + 1)
      BY <2>3 DEF Without, Down
    <2> QED BY <2>1, <2>2, <2>4
  <1>3. ASSUME NEW m \in 0 .. N, m \in T
        PROVE  /\ Possible(n - (m + 1), Down(s, i, m + 1))
               /\ V[n][s] = Cost(n - m, Down(s, i, m), i) + V[n - (m + 1)][Down(s, i, m + 1)]
    <2> DEFINE u == Down(s, i, m)
    <2>1. Possible(n - m, u) /\ V[n][s] = V[n - m][u]
      BY <1>3
    <2>2. n - m > 0 /\ (n - m) - 1 = n - (m + 1) /\ Total - (n - m) >= 0
      BY <1>0
    <2>3. /\ u \in [Procs -> Nat] /\ u[i] = s[i] - m /\ Less(u, i) = Down(s, i, m + 1)
          /\ \A k \in Procs : k # i => u[k] = s[k]
      BY <1>2
    <2> HIDE DEF u
    <2>4. i \in Able(n - m, u)
      BY <2>2, <2>3, <1>0 DEF Able
    <2>5. \A j \in Able(n - m, u) : u[i] <= u[j]
      <3> SUFFICES ASSUME NEW j \in Able(n - m, u) PROVE u[i] <= u[j]
        OBVIOUS
      <3>1. j \in Procs /\ u[j] > 0 /\ u[j] \in Nat
        BY <2>3 DEF Able
      <3>2. CASE j # i
        <4>1. u[j] = s[j] /\ s[i] <= s[j]
          BY <3>1, <3>2, <2>3
        <4> QED BY <4>1, <2>3, <3>1, <1>0
      <3> QED BY <3>1, <3>2, <2>3
    <2>6. Possible((n - m) - 1, Less(u, i))
      BY <2>1, <2>2, <2>4, RunPossible
    <2>7. V[n - m][u] = Cost(n - m, u, i) + V[(n - m) - 1][Less(u, i)]
      BY <2>1, <2>2, <2>4, <2>5, ShortestIsBest
    <2> QED BY <2>1, <2>2, <2>3, <2>6, <2>7 DEF u
  <1>4. ASSUME NEW m \in 1 .. N, m - 1 \in T PROVE m \in T
    <2>1. m - 1 \in 0 .. N /\ (m - 1) + 1 = m /\ m \in 0 .. N
      BY <1>0
    <2>2. /\ Possible(n - m, Down(s, i, m))
          /\ V[n][s] = Cost(n - (m - 1), Down(s, i, m - 1), i) + V[n - m][Down(s, i, m)]
      <3> HIDE DEF T
      <3>1. /\ Possible(n - ((m - 1) + 1), Down(s, i, (m - 1) + 1))
            /\ V[n][s] = Cost(n - (m - 1), Down(s, i, m - 1), i)
                           + V[n - ((m - 1) + 1)][Down(s, i, (m - 1) + 1)]
        BY <2>1, <1>3, <1>4
      <3> QED BY <3>1, <2>1
    <2>3. Down(s, i, m - 1)[i] # 1
      BY <2>1, <1>0, <1>2
    <2>4. Cost(n - (m - 1), Down(s, i, m - 1), i) = 0
      BY <2>3 DEF Cost
    <2>5. V[n - m][Down(s, i, m)] \in Nat
      BY <2>2, TableIsNat
    <2> QED BY <2>1, <2>2, <2>4, <2>5
  <1>5. N \in T
    <2> HIDE DEF T
    <2>1. N \in Nat
      BY <1>0
    <2>2. \A m \in 0 .. N : m \in T
      BY <2>1, <1>1, <1>4, CountingUp
    <2> QED BY <2>1, <2>2
  <1>6. N \in 0 .. N /\ N + 1 = s[i]
    BY <1>0
  <1>7. /\ Possible(n - s[i], Down(s, i, s[i]))
        /\ V[n][s] = Cost(n - N, Down(s, i, N), i) + V[n - s[i]][Down(s, i, s[i])]
    <2> HIDE DEF T, N
    <2>1. /\ Possible(n - (N + 1), Down(s, i, N + 1))
          /\ V[n][s] = Cost(n - N, Down(s, i, N), i) + V[n - (N + 1)][Down(s, i, N + 1)]
      BY <1>3, <1>5, <1>6
    <2> QED BY <2>1, <1>6
  <1>8. Cost(n - N, Down(s, i, N), i) = (Total - n) + s[i]
    <2>1. Down(s, i, N)[i] = 1
      BY <1>0, <1>2, <1>6
    <2>2. (Total - (n - N)) + 1 = (Total - n) + s[i]
      BY <1>0
    <2> HIDE DEF N
    <2> QED BY <2>1, <2>2 DEF Cost
  <1> QED BY <1>7, <1>8

-----------------------------------------------------------------------------
(* The schedulers that are best.                                           *)

IsBest ==
    \/ alg = "SRTF" /\ SumOf(Bursts) <= Word
    \/ alg = "SJF" /\ AllAtOnce

\* What each process has left, and when those that ran have ended.
Rests(C) == [i \in Procs |-> RestIn(C, 0, i)]
Remains == Rests(Now)
Exits(ex) == [i \in Procs |-> IF array[i].burst = 0 \/ ex[i] = NEVER THEN 0 ELSE ex[i]]

\* What has arrived has been enough so far; and what is left can be done so
\* that all in all it is the best.
FreshInv ==
    \A i \in Procs : /\ Remains[i] <= array[i].burst
                     /\ array[i].arrival > t => Remains[i] = array[i].burst
BusyInv == \A time \in 0 .. t - 1 : Work(time) > time
OptimumInv ==
    Busy => \A V : IsTable(V) =>
              V[Total][Bursts] = SumOf(Exits(exit)) + V[Total - t][Remains]

BestInv == pc = "running" /\ IsBest => FreshInv /\ BusyInv /\ OptimumInv

LInv == SInv /\ BestInv /\ LeastTurnaround

\* The jobs are the same, and so is what is best.
LEMMA SameJobs ==
    ASSUME array' = array
    PROVE  /\ Procs' = Procs /\ Total' = Total /\ Bursts' = Bursts
           /\ Busy' <=> Busy
           /\ AllAtOnce' <=> AllAtOnce
           /\ Best(Bursts)' = Best(Bursts)
           /\ \A V : IsTable(V)' <=> IsTable(V)
           /\ \A time : Work(time)' = Work(time)
  <1>1. Procs' = Procs /\ Bursts' = Bursts /\ Total' = Total
    BY DEF Procs, Bursts, Total
  <1>2. \A time : Work(time)' = Work(time)
    BY <1>1 DEF Work
  <1>3. \A V : IsTable(V)' <=> IsTable(V)
    BY <1>1 DEF IsTable, Level, Lefts, Cost, Able, Less
  <1>4. Best(Bursts)' = Best(Bursts)
    BY <1>1 DEF Best
  <1>5. (Busy' <=> Busy) /\ (AllAtOnce' <=> AllAtOnce)
    BY <1>1, <1>2 DEF Busy, AllAtOnce
  <1> QED BY <1>1, <1>2, <1>3, <1>4, <1>5

LEMMA RemainsAre ==
    ASSUME TypeInv, QueuesInv, Compares
    PROVE  /\ Unique(Now) /\ Now \in SUBSET PcbType
           /\ Remains \in [Procs -> Nat]
           /\ \A e \in Now : e.id \in Procs /\ Remains[e.id] = e.remaining
           /\ \A i \in Procs : Remains[i] > 0 => \E e \in Now : e.id = i
           /\ SumOf(Remains) = Total - t
           /\ t \in 0 .. Total
  <1>0. /\ array \in Seq(Jobs) /\ Unique(Now) /\ Now \in SUBSET PcbType
        /\ OfZero(alg) = 0 /\ t \in Nat
    BY NowTypes DEF QueuesInv, TypeInv, OfZero, Compares
  <1>1. /\ Procs = 1 .. Len(array) /\ Bursts \in Seq(Nat) /\ Len(Bursts) = Len(array)
        /\ \A i \in Procs : Bursts[i] = array[i].burst /\ array[i].burst \in Nat
        /\ Len(array) \in Nat /\ Total \in Nat
    BY <1>0, JobsAre
  <1>2. Remains \in [Procs -> Nat] /\ \A i \in Procs : Remains[i] = RestIn(Now, 0, i)
    <2>1. \A i \in Procs : RestIn(Now, 0, i) \in Nat
      BY <1>0, RestTypes
    <2> QED BY <2>1 DEF Remains, Rests
  <1>3. ASSUME NEW e \in Now PROVE e.id \in Procs /\ Remains[e.id] = e.remaining
    <2>1. e.id \in Procs
      BY DEF QueuesInv, SoundPcb
    <2>2. RestIn(Now, 0, e.id) = Wrapped(0, e.remaining)
      BY <1>0, RestOf
    <2> QED BY <2>1, <2>2, <1>2 DEF Wrapped
  <1>4. ASSUME NEW i \in Procs, Remains[i] > 0 PROVE \E e \in Now : e.id = i
    BY <1>2, <1>4, RestOfNone
  <1>5. SumOf(Ran(array, Now, 0)) = SumOf(Bursts) - SumOf(Remains)
    <2> DEFINE h == Ran(array, Now, 0)
    <2>1. /\ h \in Seq(Int) /\ Len(h) = Len(array)
          /\ \A i \in 1 .. Len(array) : h[i] = Wrapped(0, array[i].burst) - RestIn(Now, 0, i)
      BY <1>0, RanTypes
    <2>2. Remains \in Seq(Int) /\ Len(Remains) = Len(array)
      BY <1>0, <1>2, LeftsAre
    <2>3. Bursts \in Seq(Int)
      BY <1>1
    <2>4. \A i \in 1 .. Len(Bursts) : h[i] = Bursts[i] - Remains[i]
      BY <2>1, <1>1, <1>2 DEF Wrapped
    <2> HIDE DEF h
    <2> QED BY <2>1, <2>2, <2>3, <2>4, <1>1, SumOfMinus DEF h
  <1>6. t = SumOf(Ran(array, Now, 0))
    BY <1>0 DEF QueuesInv, Clock, Compares
  <1>7. SumOf(Remains) \in Nat
    BY <1>0, <1>2, LeftsAre
  <1>8. SumOf(Remains) = Total - t /\ t \in 0 .. Total
    BY <1>0, <1>1, <1>5, <1>6, <1>7 DEF Total
  <1> QED BY <1>0, <1>2, <1>3, <1>4, <1>8

LEMMA RemainsPossible ==
    ASSUME TypeInv, QueuesInv, Compares, FreshInv
    PROVE  Possible(Total - t, Remains)
  <1>1. /\ Remains \in [Procs -> Nat] /\ SumOf(Remains) = Total - t /\ t \in 0 .. Total
        /\ Total \in Nat
    BY RemainsAre, JobsAre DEF TypeInv
  <1>2. Total - (Total - t) = t /\ Total - t \in 0 .. Total
    BY <1>1
  <1> QED BY <1>1, <1>2 DEF Possible, FreshInv

LEMMA AlwaysBusy ==
    ASSUME array \in Seq(Jobs), AllAtOnce
    PROVE  Busy
  <1> SUFFICES ASSUME NEW time \in 0 .. Total - 1 PROVE Work(time) > time
    BY DEF Busy
  <1>1. Total \in Nat
    BY JobsAre
  <1>2. [i \in Procs |-> IF array[i].arrival <= time THEN array[i].burst ELSE 0] = Bursts
    BY <1>1 DEF AllAtOnce, Bursts
  <1> QED BY <1>1, <1>2 DEF Work, Total

\* What find_shortest_burst finds is a shortest process that has arrived.
LEMMA FindsShortest ==
    ASSUME TypeInv, QueuesInv, RoomInv, Compares, IsBest, FreshInv,
           NEW k \in 1 .. Len(pcbs.items), NEW pcb, pcb = pcbs.items[k], find_shortest_burst(k)
    PROVE  /\ pcb \in Now /\ pcb.id \in Procs /\ Remains[pcb.id] = pcb.remaining
           /\ Total - t > 0
           /\ pcb.id \in Able(Total - t, Remains)
           /\ \A j \in Able(Total - t, Remains) : Remains[pcb.id] <= Remains[j]
  <1>0. /\ pcbs \in Pcbs /\ pcb \in Now /\ pcb.remaining > 0 /\ Arrived(pcb)
        /\ pcb \in PcbType /\ array \in Seq(Jobs)
    BY ShortestIs, PcbsItems DEF TypeInv, Now, Held, Members
  <1>1. /\ Now \in SUBSET PcbType
        /\ Remains \in [Procs -> Nat] /\ SumOf(Remains) = Total - t /\ t \in 0 .. Total
        /\ \A e \in Now : e.id \in Procs /\ Remains[e.id] = e.remaining
        /\ \A i \in Procs : Remains[i] > 0 => \E e \in Now : e.id = i
        /\ Total \in Nat /\ \A i \in Procs : array[i].arrival \in Nat
    BY <1>0, RemainsAre, JobsAre
  <1>2. pcb.id \in Procs /\ Remains[pcb.id] = pcb.remaining
    BY <1>0, <1>1
  <1>3. Total - t > 0
    <2>1. Remains[pcb.id] <= SumOf(Remains) /\ Remains[pcb.id] \in Nat
      BY <1>0, <1>1, <1>2, LeftsAre
    <2> QED BY <2>1, <1>0, <1>1, <1>2
  <1>4. ASSUME NEW e \in Now PROVE Arrived(e) <=> array[e.id].arrival <= t
    <2>1. e.arrival = array[e.id].arrival /\ e.arrival \in Nat /\ e.id \in Procs
      BY <1>1 DEF QueuesInv, SoundPcb
    <2>2. CASE alg = "SRTF" /\ SumOf(Bursts) <= Word
      <3>1. t \in 0 .. Word - 1
        BY <1>1, <1>3, <2>2, WordIsNat DEF Total
      <3>2. t % Word = t
        BY <3>1, ModSmall, WordAssumption
      <3> QED BY <3>2, <2>1 DEF Arrived
    <2>3. CASE AllAtOnce
      <3>1. t % Word \in Nat /\ t \in Nat
        <4>1. t \in Int /\ t \in Nat
          BY <1>1
        <4>2. t % Word \in 0 .. Word - 1
          BY <4>1, ModIn, WordAssumption
        <4> QED BY <4>1, <4>2
      <3>2. e.arrival = 0
        BY <2>1, <2>3 DEF AllAtOnce
      <3> QED BY <3>1, <3>2, <2>1 DEF Arrived
    <2> QED BY <2>2, <2>3 DEF IsBest
  <1>5. Total - (Total - t) = t
    BY <1>1
  <1>6. pcb.id \in Able(Total - t, Remains)
    BY <1>0, <1>2, <1>4, <1>5 DEF Able
  <1>7. ASSUME NEW j \in Able(Total - t, Remains) PROVE Remains[pcb.id] <= Remains[j]
    <2>1. j \in Procs /\ Remains[j] > 0 /\ array[j].arrival <= t
      BY <1>5 DEF Able
    <2>2. PICK e \in Now : e.id = j
      BY <2>1, <1>1
    <2>3. e.remaining = Remains[j] /\ Arrived(e)
      BY <2>1, <2>2, <1>1, <1>4
    <2>4. ready.items = <<>>
      BY DEF RoomInv, Compares
    <2>5. PICK l \in 1 .. Len(pcbs.items) : pcbs.items[l] = e
      <3>1. \A m : m \notin 1 .. Len(ready.items)
        BY <2>4
      <3> QED BY <3>1 DEF Now, Held, Members
    <2>6. pcbs.items[l].remaining > pcb.remaining \/ pcbs.items[l].remaining = pcb.remaining
      <3>1. l \in DOMAIN pcbs.items /\ dyn_array_at(pcbs, l) = e /\ dyn_array_at(pcbs, k) = pcb
        BY <2>5, <1>0, PcbsItems
      <3> QED BY <3>1, <2>1, <2>3, <2>5 DEF find_shortest_burst
    <2>7. e.remaining \in Nat /\ pcb.remaining \in Nat
      BY <1>0, <1>1, WordIsNat DEF PcbType
    <2> QED BY <2>3, <2>5, <2>6, <2>7, <1>2
  <1> QED BY <1>0, <1>2, <1>3, <1>6, <1>7

\* Some process has run at each time so far, so what has arrived is enough.
LEMMA ArrivedIsEnough ==
    ASSUME TypeInv, QueuesInv, Compares, FreshInv, NEW id \in Procs,
           Remains[id] > 0, array[id].arrival <= t
    PROVE  Work(t) > t
  <1> DEFINE work == [i \in Procs |-> IF array[i].arrival <= t THEN array[i].burst ELSE 0]
             late == [i \in Procs |-> IF array[i].arrival <= t THEN Bursts[i] - Remains[i] ELSE 0]
             ran == [i \in Procs |-> Bursts[i] - Remains[i]]
             more == [i \in Procs |-> IF array[i].arrival <= t THEN Remains[i] ELSE 0]
  <1>0. /\ array \in Seq(Jobs) /\ Procs = 1 .. Len(array) /\ Len(array) \in Nat
        /\ Remains \in [Procs -> Nat] /\ SumOf(Remains) = Total - t /\ t \in 0 .. Total
        /\ Total \in Nat /\ Bursts \in Seq(Nat) /\ Len(Bursts) = Len(array)
        /\ \A i \in Procs : Bursts[i] = array[i].burst /\ array[i].burst \in Nat
                            /\ array[i].arrival \in Nat
    BY RemainsAre, JobsAre DEF TypeInv
  <1>1. work \in [Procs -> Nat] /\ more \in [Procs -> Nat]
    BY <1>0
  <1>2. \A i \in Procs : ran[i] \in Int
    BY <1>0
  <1>3. /\ ran \in Seq(Int) /\ Len(ran) = Len(array)
        /\ work \in Seq(Int) /\ Len(work) = Len(array)
        /\ more \in Seq(Int) /\ Len(more) = Len(array)
        /\ Remains \in Seq(Int) /\ Len(Remains) = Len(array)
        /\ Bursts \in Seq(Int)
        /\ SumOf(more) \in Nat /\ more[id] <= SumOf(more)
    <2>1. ran \in [1 .. Len(array) -> Int]
      BY <1>0, <1>2
    <2> HIDE DEF ran, work, more
    <2>2. ran \in Seq(Int) /\ Len(ran) = Len(array)
      <3>1. Len(array) \in Nat
        BY <1>0
      <3> QED BY <2>1, <3>1
    <2>3. \A s \in [Procs -> Nat] :
            /\ s \in Seq(Int) /\ Len(s) = Len(array)
            /\ SumOf(s) \in Nat /\ \A i \in Procs : s[i] <= SumOf(s)
      BY <1>0, LeftsAre
    <2>4. Bursts \in Seq(Int)
      BY <1>0
    <2> QED BY <2>2, <2>3, <2>4, <1>0, <1>1
  <1>4. SumOf(ran) = SumOf(Bursts) - SumOf(Remains)
    <2>1. \A i \in 1 .. Len(Bursts) : ran[i] = Bursts[i] - Remains[i]
      BY <1>0
    <2> HIDE DEF ran, work, more
    <2>2. Len(Bursts) = Len(Remains) /\ Len(Bursts) = Len(ran)
      BY <1>0, <1>3
    <2> QED BY <2>1, <2>2, <1>3, SumOfMinus
  <1>5. SumOf(more) = SumOf(work) - SumOf(ran)
    <2>1. ASSUME NEW i \in Procs PROVE more[i] = work[i] - ran[i]
      <3>1. CASE array[i].arrival <= t
        BY <3>1, <1>0
      <3>2. CASE ~ (array[i].arrival <= t)
        <4>1. array[i].arrival > t
          BY <3>2, <1>0
        <4>2. Remains[i] = array[i].burst
          BY <4>1 DEF FreshInv
        <4> QED BY <3>2, <4>2, <1>0
      <3> QED BY <3>1, <3>2
    <2> HIDE DEF ran, work, more
    <2>2. \A i \in 1 .. Len(work) : more[i] = work[i] - ran[i]
      BY <2>1, <1>0, <1>3
    <2>3. Len(work) = Len(ran) /\ Len(work) = Len(more)
      BY <1>3
    <2> QED BY <2>2, <2>3, <1>3, SumOfMinus
  <1>6. Work(t) = SumOf(work)
    BY DEF Work
  <1>7. more[id] = Remains[id] /\ Remains[id] \in Nat
    BY <1>0
  <1>8. SumOf(work) \in Int /\ SumOf(ran) \in Int
    <2> HIDE DEF ran, work, more
    <2> QED BY <1>3, SumIsInt
  <1> HIDE DEF ran, work, more
  <1> QED BY <1>0, <1>3, <1>4, <1>5, <1>6, <1>7, <1>8 DEF Total

\* A process runs for n ticks, and has that much less left.
LEMMA RestAfter ==
    ASSUME NEW C \in SUBSET PcbType, Unique(C), NEW e \in C, NEW e2 \in PcbType, e2.id = e.id
    PROVE  /\ RestIn((C \ {e}) \cup {e2}, 0, e.id) = e2.remaining
           /\ \A i : i # e.id => RestIn((C \ {e}) \cup {e2}, 0, i) = RestIn(C, 0, i)
  <1> DEFINE D == (C \ {e}) \cup {e2}
  <1>1. Unique(D) /\ D \in SUBSET PcbType /\ e2 \in D
    BY DEF Unique
  <1>2. \A d : d.id # e.id => (d \in C <=> d \in D)
    OBVIOUS
  <1> HIDE DEF D
  <1>3. RestIn(D, 0, e2.id) = Wrapped(0, e2.remaining)
    BY <1>1, RestOf
  <1>4. ASSUME NEW i, i # e.id PROVE RestIn(D, 0, i) = RestIn(C, 0, i)
    BY <1>1, <1>2, <1>4, RestSame
  <1> QED BY <1>3, <1>4 DEF D, Wrapped

LEMMA RemainsAfter ==
    ASSUME TypeInv, QueuesInv, Compares, IsBest, NEW e, NEW n, NEW ends, Progress(e, n, ends)
    PROVE  /\ e \in Now /\ e.id \in Procs /\ n \in Nat /\ Remains[e.id] > 0
           /\ n <= Remains[e.id]
           /\ Remains' = Down(Remains, e.id, n)
           /\ ends <=> n = Remains[e.id]
           /\ t' = t + n
           /\ \A i \in Procs : exit'[i] = IF i = e.id /\ ends THEN t' ELSE exit[i]
  <1>0. /\ Unique(Now) /\ Now \in SUBSET PcbType /\ Remains \in [Procs -> Nat]
        /\ \A d \in Now : d.id \in Procs /\ Remains[d.id] = d.remaining
        /\ e \in Now /\ e.remaining > 0 /\ n \in Nat /\ t \in Nat /\ ends \in BOOLEAN
        /\ Procs' = Procs /\ OfZero(alg) = 0
    BY RemainsAre DEF Progress, Procs, OfZero, Compares, TypeInv
  <1>1. PICK e2 : Stays(e, e2, n, ends)
    BY DEF Progress, Leaves
  <1>2. /\ e2 \in PcbType /\ e2.id = e.id /\ Now' = (Now \ {e}) \cup {e2}
        /\ ends <=> e2.remaining = 0
        /\ e.remaining = n + e2.remaining
        /\ e.remaining \in Nat /\ e2.remaining \in Nat
    <2>1. e \in PcbType /\ e2 \in PcbType
      BY <1>0, <1>1 DEF Stays
    <2>2. e.remaining \in Nat /\ e2.remaining \in Nat
      BY <2>1, WordIsNat DEF PcbType
    <2> QED BY <1>0, <1>1, <2>2 DEF Stays, Wrapped
  <1>3. Remains' = Down(Remains, e.id, n)
    <2>1. /\ RestIn(Now', 0, e.id) = e2.remaining
          /\ \A i : i # e.id => RestIn(Now', 0, i) = RestIn(Now, 0, i)
      <3>1. Now \in SUBSET PcbType /\ Unique(Now) /\ e \in Now /\ e2 \in PcbType /\ e2.id = e.id
        BY <1>0, <1>2
      <3>2. /\ RestIn((Now \ {e}) \cup {e2}, 0, e.id) = e2.remaining
            /\ \A i : i # e.id => RestIn((Now \ {e}) \cup {e2}, 0, i) = RestIn(Now, 0, i)
        BY <3>1, RestAfter
      <3> QED BY <3>2, <1>2
    <2>2. Remains' = [i \in Procs |-> RestIn(Now', 0, i)]
      BY <1>0 DEF Remains, Rests
    <2>3. \A i \in Procs : Remains[i] = RestIn(Now, 0, i)
      BY DEF Remains, Rests
    <2>4. Remains[e.id] - n = e2.remaining
      BY <1>0, <1>2
    <2> QED BY <2>1, <2>2, <2>3, <2>4 DEF Down
  <1>4. t' = t + n
    BY DEF Progress, Runs, Later, Clock, Compares
  <1>5. Remains[e.id] = e.remaining
    BY <1>0
  <1>6. ASSUME NEW i \in Procs PROVE exit'[i] = IF i = e.id /\ ends THEN t' ELSE exit[i]
    <2>1. exit \in [Procs -> Int]
      BY DEF TypeInv, Compares
    <2>2. exit' = [exit EXCEPT ![e.id] = IF ends THEN t' ELSE @]
      BY DEF Progress, Runs
    <2> QED BY <2>1, <2>2
  <1> QED BY <1>0, <1>2, <1>3, <1>4, <1>5, <1>6

LEMMA ExitsAre ==
    ASSUME TypeInv, Compares
    PROVE  Exits(exit) \in Seq(Int) /\ Len(Exits(exit)) = Len(array) /\ SumOf(Exits(exit)) \in Int
  <1>1. Procs = 1 .. Len(array) /\ Len(array) \in Nat
    BY ProcsUpto
  <1>2. exit \in [Procs -> Int]
    BY DEF TypeInv, Compares
  <1>3. Exits(exit) \in [1 .. Len(array) -> Int]
    BY <1>1, <1>2 DEF Exits
  <1>4. Exits(exit) \in Seq(Int) /\ Len(Exits(exit)) = Len(array)
    BY <1>1, <1>3
  <1> QED BY <1>4, SumIsInt

LEMMA ExitsAfter ==
    ASSUME TypeInv, QueuesInv, Compares, IsBest, FreshInv,
           NEW e, NEW n, NEW ends, Progress(e, n, ends)
    PROVE  SumOf(Exits(exit)') = SumOf(Exits(exit)) + (IF ends THEN t + n ELSE 0)
  <1>0. /\ e.id \in Procs /\ t' = t + n /\ e \in Now /\ Remains[e.id] > 0 /\ n \in Nat /\ t \in Nat
        /\ \A i \in Procs : exit'[i] = IF i = e.id /\ ends THEN t' ELSE exit[i]
    BY RemainsAfter DEF TypeInv
  <1>1. /\ Procs = 1 .. Len(array) /\ Len(array) \in Nat /\ exit \in [Procs -> Int]
        /\ Procs' = Procs /\ array' = array /\ ends \in BOOLEAN
    BY ProcsUpto DEF TypeInv, Compares, Progress, Procs
  <1>2. exit[e.id] = NEVER
    <2>1. Waits(e.id)
      BY <1>0 DEF Waits, Progress
    <2> QED BY <2>1, <1>0 DEF QueuesInv
  <1>3. array[e.id].burst # 0
    <2>1. Remains[e.id] <= array[e.id].burst
      BY <1>0 DEF FreshInv
    <2>2. array[e.id].burst \in Nat /\ Remains[e.id] \in Nat
      BY <1>0, RemainsAre, JobsAre DEF TypeInv
    <2> QED BY <2>1, <2>2, <1>0
  <1> DEFINE f == Exits(exit)
             g == Exits(exit')
  <1>4. /\ \A i \in Procs : i # e.id => g[i] = f[i]
        /\ f[e.id] = 0 /\ g[e.id] = IF ends THEN t + n ELSE 0
    <2>1. \A i \in Procs : i # e.id => exit'[i] = exit[i]
      BY <1>0
    <2>2. exit'[e.id] = IF ends THEN t + n ELSE NEVER
      BY <1>0, <1>2
    <2>3. t + n # NEVER
      BY <1>0 DEF NEVER
    <2> QED BY <2>1, <2>2, <2>3, <1>0, <1>2, <1>3 DEF Exits
  <1>5. f \in Seq(Int) /\ Len(f) = Len(array)
    BY ExitsAre
  <1>6. g \in Seq(Int) /\ Len(g) = Len(array)
    <2>1. ASSUME NEW i \in Procs PROVE g[i] \in Int
      <3>1. f[i] \in Int
        BY <1>1, <1>5
      <3> HIDE DEF f, g
      <3> QED BY <1>0, <1>4, <3>1
    <2>2. g \in [1 .. Len(array) -> Int]
      BY <2>1, <1>1 DEF Exits
    <2> HIDE DEF f, g
    <2> QED BY <2>2, <1>1
  <1>7. g = Exits(exit)'
    BY <1>1 DEF Exits
  <1> HIDE DEF f, g
  <1>8. SumOf(g) = SumOf(f) + (g[e.id] - f[e.id])
    <2>1. e.id \in 1 .. Len(f) /\ \A i \in 1 .. Len(f) : i # e.id => g[i] = f[i]
      BY <1>0, <1>1, <1>4, <1>5
    <2>2. Len(f) = Len(g)
      BY <1>5, <1>6
    <2> QED BY <2>1, <2>2, <1>5, <1>6, SumOfChanged
  <1>9. SumOf(f) \in Int
    BY <1>5, SumIsInt
  <1>10. SumOf(g) = SumOf(f) + (IF ends THEN t + n ELSE 0)
    BY <1>0, <1>4, <1>8, <1>9
  <1> QED BY <1>7, <1>10 DEF f

\* Whoever runs was the best to run for as long as it did.
BestRun(e, n, ends) ==
    Busy => \A V : IsTable(V) =>
              V[Total - t][Remains] =
                (IF ends THEN t + n ELSE 0) + V[Total - (t + n)][Down(Remains, e.id, n)]

LEMMA RunsBest ==
    ASSUME TypeInv, QueuesInv, Compares, IsBest, FreshInv, BusyInv, OptimumInv,
           NEW e, NEW n, NEW ends, Progress(e, n, ends),
           array[e.id].arrival <= t, BestRun(e, n, ends),
           Possible(Total - (t + n), Down(Remains, e.id, n)),
           \A time \in t .. t + n - 1 : Work(time) > time
    PROVE  FreshInv' /\ BusyInv' /\ OptimumInv'
  <1>0. /\ e.id \in Procs /\ t' = t + n /\ n \in Nat /\ t \in Nat /\ n <= Remains[e.id]
        /\ Remains' = Down(Remains, e.id, n)
        /\ Remains \in [Procs -> Nat]
        /\ array' = array /\ array \in Seq(Jobs)
    BY RemainsAfter, RemainsAre DEF TypeInv, Progress
  <1>1. /\ Procs' = Procs /\ Total' = Total /\ Bursts' = Bursts
        /\ Busy' <=> Busy
        /\ \A V : IsTable(V)' <=> IsTable(V)
        /\ \A time : Work(time)' = Work(time)
    BY <1>0, SameJobs
  <1>2. \A i \in Procs : array[i].burst \in Nat /\ array[i].arrival \in Nat
    BY <1>0, JobsAre
  <1>3. FreshInv'
    <2>1. ASSUME NEW i \in Procs
          PROVE  /\ Remains'[i] <= array[i].burst
                 /\ array[i].arrival > t' => Remains'[i] = array[i].burst
      <3>1. /\ Remains[i] <= array[i].burst
            /\ array[i].arrival > t => Remains[i] = array[i].burst
        BY DEF FreshInv
      <3>2. CASE i = e.id
        <4>1. Remains'[i] = Remains[i] - n /\ Remains[i] \in Nat
          BY <3>2, <1>0 DEF Down
        <4>2. ~ (array[i].arrival > t')
          BY <3>2, <1>0, <1>2
        <4> QED BY <4>1, <4>2, <3>1, <1>0, <1>2
      <3>3. CASE i # e.id
        <4>1. Remains'[i] = Remains[i]
          BY <3>3, <1>0 DEF Down
        <4>2. array[i].arrival > t' => array[i].arrival > t
          BY <1>0, <1>2
        <4> QED BY <4>1, <4>2, <3>1
      <3> QED BY <3>2, <3>3
    <2> QED BY <2>1, <1>0, <1>1 DEF FreshInv
  <1>4. BusyInv'
    <2>1. ASSUME NEW time \in 0 .. t' - 1 PROVE Work(time) > time
      <3>1. time \in 0 .. t - 1 \/ time \in t .. t + n - 1
        BY <1>0
      <3> QED BY <3>1 DEF BusyInv
    <2> QED BY <2>1, <1>1 DEF BusyInv
  <1>5. ASSUME Busy, NEW V, IsTable(V)
        PROVE  V[Total][Bursts] = SumOf(Exits(exit)') + V[Total - t'][Remains']
    <2>1. V[Total][Bursts] = SumOf(Exits(exit)) + V[Total - t][Remains]
      BY <1>5 DEF OptimumInv
    <2>2. V[Total - t][Remains] = (IF ends THEN t + n ELSE 0) + V[Total - t'][Remains']
      BY <1>0, <1>5 DEF BestRun
    <2>3. V[Total - t'][Remains'] \in Nat
      BY <1>0, <1>5, TableIsNat
    <2>4. SumOf(Exits(exit)') = SumOf(Exits(exit)) + (IF ends THEN t + n ELSE 0)
      BY ExitsAfter
    <2>5. SumOf(Exits(exit)) \in Int
      BY ExitsAre
    <2>6. PICK a \in Nat : a = IF ends THEN t + n ELSE 0
      BY <1>0
    <2> QED BY <2>1, <2>2, <2>3, <2>4, <2>5, <2>6
  <1>6. OptimumInv'
    BY <1>1, <1>5 DEF OptimumInv
  <1> QED BY <1>3, <1>4, <1>6

LEMMA SrtfRunsBest ==
    ASSUME SInv, pc = "running", alg = "SRTF", IsBest, FreshInv, BusyInv, OptimumInv,
           NEW k, NEW pcb, NEW ran, SrtfRuns(k, pcb, ran)
    PROVE  FreshInv' /\ BusyInv' /\ OptimumInv'
  <1>0. /\ TypeInv /\ QueuesInv /\ RoomInv /\ Compares
        /\ k \in 1 .. Len(pcbs.items) /\ pcb = pcbs.items[k] /\ find_shortest_burst(k)
    BY DEF SInv, PInv, RunInv, SrtfRuns, Compares
  <1>1. Progress(pcb, 1, ran.remaining = 0)
    BY <1>0, SrtfRunsProgress
  <1>2. /\ pcb.id \in Procs /\ Total - t > 0
        /\ pcb.id \in Able(Total - t, Remains)
        /\ \A j \in Able(Total - t, Remains) : Remains[pcb.id] <= Remains[j]
    BY <1>0, FindsShortest
  <1>3. /\ array \in Seq(Jobs) /\ Total \in Nat /\ t \in 0 .. Total
        /\ Remains \in [Procs -> Nat] /\ Possible(Total - t, Remains)
    BY <1>0, RemainsAre, RemainsPossible, JobsAre DEF TypeInv
  <1>4. (Total - t) - 1 = Total - (t + 1) /\ Total - (Total - t) = t
    BY <1>3
  <1>5. Less(Remains, pcb.id) = Down(Remains, pcb.id, 1)
    <2>1. Less(Remains, pcb.id) = Without(Remains, pcb.id)
      BY <1>2, <1>3, LessIs
    <2> QED BY <2>1 DEF Without, Down
  <1>6. Possible(Total - (t + 1), Down(Remains, pcb.id, 1))
    <2>1. Possible((Total - t) - 1, Less(Remains, pcb.id))
      BY <1>2, <1>3, RunPossible
    <2> QED BY <2>1, <1>4, <1>5
  <1>7. ran.remaining = 0 <=> Remains[pcb.id] = 1
    <2>1. ran.remaining = 0 <=> 1 = Remains[pcb.id]
      BY <1>0, <1>1, RemainsAfter
    <2> QED BY <2>1
  <1>8. BestRun(pcb, 1, ran.remaining = 0)
    <2>1. ASSUME Busy, NEW V, IsTable(V)
          PROVE  V[Total - t][Remains] = (IF ran.remaining = 0 THEN t + 1 ELSE 0)
                                           + V[Total - (t + 1)][Down(Remains, pcb.id, 1)]
      <3>1. V[Total - t][Remains] = Cost(Total - t, Remains, pcb.id)
                                      + V[(Total - t) - 1][Less(Remains, pcb.id)]
        BY <1>2, <1>3, <2>1, ShortestIsBest
      <3>2. Cost(Total - t, Remains, pcb.id) = IF ran.remaining = 0 THEN t + 1 ELSE 0
        BY <1>4, <1>7 DEF Cost
      <3> QED BY <3>1, <3>2, <1>4, <1>5
    <2> QED BY <2>1 DEF BestRun
  <1>9. array[pcb.id].arrival <= t /\ Remains[pcb.id] > 0
    BY <1>2, <1>4 DEF Able
  <1>10. \A time \in t .. t + 1 - 1 : Work(time) > time
    <2>1. Work(t) > t
      BY <1>0, <1>2, <1>9, ArrivedIsEnough
    <2>2. \A time \in t .. t + 1 - 1 : time = t
      BY <1>3
    <2> QED BY <2>1, <2>2
  <1> QED BY <1>0, <1>1, <1>6, <1>8, <1>9, <1>10, RunsBest

LEMMA SjfRunsBest ==
    ASSUME SInv, pc = "running", alg = "SJF", IsBest, FreshInv, BusyInv, OptimumInv,
           NEW k, NEW pcb, SjfRuns(k, pcb)
    PROVE  FreshInv' /\ BusyInv' /\ OptimumInv'
  <1>0. /\ TypeInv /\ QueuesInv /\ RoomInv /\ Compares /\ AllAtOnce
        /\ k \in 1 .. Len(pcbs.items) /\ pcb = pcbs.items[k] /\ find_shortest_burst(k)
    BY DEF SInv, PInv, RunInv, SjfRuns, Compares, IsBest
  <1> DEFINE n == pcb.remaining
  <1>1. Progress(pcb, n, TRUE)
    BY <1>0, SjfRunsProgress
  <1>2. /\ pcb.id \in Procs /\ Remains[pcb.id] = n /\ Total - t > 0
        /\ pcb.id \in Able(Total - t, Remains)
        /\ \A j \in Able(Total - t, Remains) : Remains[pcb.id] <= Remains[j]
    BY <1>0, FindsShortest
  <1>3. /\ array \in Seq(Jobs) /\ Total \in Nat /\ t \in 0 .. Total
        /\ Remains \in [Procs -> Nat] /\ Possible(Total - t, Remains)
        /\ Busy
    BY <1>0, RemainsAre, RemainsPossible, JobsAre, AlwaysBusy DEF TypeInv
  <1>4. Remains[pcb.id] > 0 /\ \A j \in Procs : Remains[j] > 0 => Remains[pcb.id] <= Remains[j]
    <2>1. \A j \in Procs : array[j].arrival <= Total - (Total - t)
      BY <1>0, <1>3 DEF AllAtOnce
    <2> QED BY <2>1, <1>2 DEF Able
  <1>5. n \in Nat /\ (Total - t) - n = Total - (t + n) /\ (Total - (Total - t)) + n = t + n
    BY <1>2, <1>3
  <1> HIDE DEF n
  <1>6. Possible(Total - (t + n), Down(Remains, pcb.id, n))
    <2>1. Possible((Total - t) - Remains[pcb.id], Down(Remains, pcb.id, Remains[pcb.id]))
      BY <1>0, <1>2, <1>3, <1>4, TableExists, RunToItsEnd
    <2> QED BY <2>1, <1>2, <1>5
  <1>7. BestRun(pcb, n, TRUE)
    <2>1. ASSUME NEW V, IsTable(V)
          PROVE  V[Total - t][Remains] = (t + n) + V[Total - (t + n)][Down(Remains, pcb.id, n)]
      <3>1. V[Total - t][Remains] = ((Total - (Total - t)) + Remains[pcb.id])
               + V[(Total - t) - Remains[pcb.id]][Down(Remains, pcb.id, Remains[pcb.id])]
        <4> DEFINE m == Total - t
        <4>1. m \in Nat /\ Possible(m, Remains)
          BY <1>2, <1>3
        <4> HIDE DEF m
        <4>2. array \in Seq(Jobs) /\ Busy /\ AllAtOnce /\ pcb.id \in Procs
          BY <1>0, <1>2, <1>3
        <4>3. V[m][Remains] = ((Total - m) + Remains[pcb.id])
                               + V[m - Remains[pcb.id]][Down(Remains, pcb.id, Remains[pcb.id])]
          BY <4>1, <4>2, <1>4, <2>1, RunToItsEnd
        <4> QED BY <4>3 DEF m
      <3> QED BY <3>1, <1>2, <1>5
    <2> QED BY <2>1 DEF BestRun
  <1>8. array[pcb.id].arrival <= t
    BY <1>0, <1>2, <1>3 DEF AllAtOnce
  <1>9. \A time \in t .. t + n - 1 : Work(time) > time
    <2>1. n <= Total - t
      BY <1>2, <1>3, RemainsAre, LeftsAre, <1>0
    <2>2. \A time \in t .. t + n - 1 : time \in 0 .. Total - 1
      BY <2>1, <1>3, <1>5
    <2> QED BY <2>2, <1>3 DEF Busy
  <1> QED BY <1>0, <1>1, <1>6, <1>7, <1>8, <1>9, RunsBest

\* When a call begins nothing has run.
LEMMA BeginsBest ==
    ASSUME PInv, PInv', pc = "dispatch", NEW a \in Algorithms, NEW n \in Nat, Begin(a, n),
           UNCHANGED <<load, code>>
    PROVE  BestInv'
  <1> SUFFICES ASSUME pc' = "running", IsBest' PROVE FreshInv' /\ BusyInv' /\ OptimumInv'
    BY DEF BestInv
  <1>0. /\ array' = array /\ array \in Seq(Jobs) /\ t' = 0 /\ alg' = a
        /\ exit' = [i \in Procs |-> IF a \in {"SJF", "SRTF"} /\ array[i].burst = 0
                                    THEN array[i].arrival ELSE NEVER]
    BY DEF Begin, clock, PInv, TypeInv, LoadInv, Loading
  <1>1. /\ Procs' = Procs /\ Total' = Total /\ Bursts' = Bursts
        /\ Busy' <=> Busy
        /\ \A V : IsTable(V)' <=> IsTable(V)
    BY <1>0, SameJobs
  <1>2. /\ Procs = 1 .. Len(array) /\ Len(array) \in Nat /\ Total \in Nat
        /\ Bursts \in Seq(Nat) /\ Len(Bursts) = Len(array)
        /\ \A i \in Procs : array[i].burst \in Nat /\ array[i].arrival \in Nat
                            /\ Bursts[i] = array[i].burst
    BY <1>0, JobsAre
  <1>3. Remains' = Bursts
    <2>1. FirstQueues(Now') /\ Now' \in SUBSET PcbType
      BY BeginsRuns
    <2>2. Unique(Now')
      BY <2>1, <1>0, FirstSums
    <2>3. ASSUME NEW i \in Procs PROVE RestIn(Now', 0, i) = array[i].burst
      <3>1. Loaded(i) \in Now' /\ Loaded(i).id = i /\ Loaded(i).remaining = array[i].burst
        BY <2>1 DEF FirstQueues, Loaded
      <3>2. RestIn(Now', 0, Loaded(i).id) = Wrapped(0, Loaded(i).remaining)
        BY <2>2, <3>1, RestOf
      <3> QED BY <3>1, <3>2 DEF Wrapped
    <2>4. Remains' = [i \in Procs |-> RestIn(Now', 0, i)]
      BY <1>1 DEF Remains, Rests
    <2> QED BY <2>3, <2>4 DEF Bursts
  <1>4. FreshInv'
    BY <1>0, <1>1, <1>2, <1>3 DEF FreshInv
  <1>5. BusyInv'
    <2>1. \A time : time \notin 0 .. t' - 1
      BY <1>0
    <2> QED BY <2>1 DEF BusyInv
  <1>6. Possible(Total, Bursts)
    <2>1. Bursts \in [Procs -> Nat]
      BY <1>2 DEF Bursts
    <2> QED BY <2>1, <1>2 DEF Possible, Total
  <1>7. SumOf(Exits(exit)') = 0
    <2> DEFINE f == Exits(exit)'
    <2>1. f = [i \in Procs |-> IF array[i].burst = 0 \/ exit'[i] = NEVER THEN 0 ELSE exit'[i]]
      BY <1>0, <1>1 DEF Exits
    <2>2. f = [i \in 1 .. Len(array) |-> 0]
      BY <2>1, <1>0, <1>2
    <2>3. f \in Seq(Int) /\ \A i \in 1 .. Len(f) : f[i] = 0
      BY <2>2, <1>2
    <2> HIDE DEF f
    <2>4. SumOf(f) = 0
      BY <2>3, SumOfZeros
    <2> QED BY <2>4 DEF f
  <1>8. ASSUME Busy, NEW V, IsTable(V)
        PROVE  V[Total][Bursts] = SumOf(Exits(exit)') + V[Total - t'][Remains']
    <2>1. V[Total][Bursts] \in Nat
      BY <1>0, <1>6, <1>8, TableIsNat
    <2>2. Total - t' = Total
      BY <1>0, <1>2
    <2> QED BY <2>1, <2>2, <1>3, <1>7
  <1>9. OptimumInv'
    BY <1>1, <1>8 DEF OptimumInv
  <1> QED BY <1>4, <1>5, <1>9

\* When nobody has anything left the sum is that of the best schedule.
LEMMA ReturnsBest ==
    ASSUME SInv, BestInv, ShortestReturns, UNCHANGED <<load, code>>
    PROVE  LeastTurnaround'
  <1> SUFFICES ASSUME IsBest'
               PROVE  SumOf([i \in Procs |-> IF array[i].burst = 0 THEN 0 ELSE exit[i]])'
                        = Best(Bursts)'
    BY DEF LeastTurnaround, IsBest
  <1>0. /\ pc = "running" /\ Compares /\ TypeInv /\ QueuesInv /\ RoomInv /\ pcbs \in Pcbs
        /\ array' = array /\ alg' = alg /\ exit' = exit /\ array \in Seq(Jobs)
    BY RunningTypes
       DEF ShortestReturns, Running, Compares, SInv, PInv, RunInv, TypeInv, call, ghosts
  <1>1. Procs' = Procs /\ Bursts' = Bursts /\ Best(Bursts)' = Best(Bursts)
        /\ (AllAtOnce' <=> AllAtOnce)
    BY <1>0, SameJobs
  <1>2. IsBest /\ FreshInv /\ BusyInv /\ OptimumInv
    BY <1>0, <1>1 DEF IsBest, BestInv
  <1>3. \A i \in Procs : ~Waits(i)
    <2>1. \A k \in 1 .. Len(pcbs.items) : ~ (pcbs.items[k].remaining > 0)
      BY <1>0, PcbsItems DEF ShortestReturns, any_burst_remaining
    <2>2. ready.items = <<>>
      BY <1>0 DEF RoomInv, Compares
    <2>3. Len(ready.items) = 0
      BY <2>2
    <2> QED BY <2>1, <2>3, <1>0, NobodyWaits
  <1>4. \A i \in Procs : exit[i] # NEVER
    BY <1>0, <1>3 DEF QueuesInv
  <1>5. /\ Remains \in [Procs -> Nat] /\ SumOf(Remains) = Total - t /\ t \in 0 .. Total
        /\ Total \in Nat /\ \A i \in Procs : Remains[i] > 0 => \E e \in Now : e.id = i
        /\ \A e \in Now : Remains[e.id] = e.remaining
        /\ Remains \in Seq(Int) /\ Len(Remains) = Len(array) /\ Procs = 1 .. Len(array)
    BY <1>0, RemainsAre, LeftsAre, JobsAre
  <1>6. \A i \in Procs : Remains[i] = 0
    <2> SUFFICES ASSUME NEW i \in Procs PROVE Remains[i] = 0
      OBVIOUS
    <2>1. ~ (Remains[i] > 0)
      BY <1>3, <1>5 DEF Waits
    <2> QED BY <2>1, <1>5
  <1>7. t = Total
    <2>1. SumOf(Remains) = 0
      BY <1>5, <1>6, SumOfZeros
    <2> QED BY <2>1, <1>5
  <1>8. Busy
    BY <1>2, <1>7 DEF BusyInv, Busy
  <1>9. PICK V : IsTable(V) /\ Best(Bursts) = V[Total][Bursts]
    BY <1>5, BestIs
  <1>10. V[Total - t][Remains] = 0
    <2>1. Possible(Total - t, Remains)
      BY <1>0, <1>2, RemainsPossible
    <2>2. Total - t = 0
      BY <1>5, <1>7
    <2> QED BY <2>1, <2>2, <1>0, <1>9, TableIs
  <1>11. Best(Bursts) = SumOf(Exits(exit))
    <2>1. V[Total][Bursts] = SumOf(Exits(exit)) + V[Total - t][Remains]
      BY <1>2, <1>8, <1>9 DEF OptimumInv
    <2>2. SumOf(Exits(exit)) \in Int
      BY <1>0, ExitsAre
    <2> QED BY <2>1, <2>2, <1>9, <1>10
  <1>12. Exits(exit) = [i \in Procs |-> IF array[i].burst = 0 THEN 0 ELSE exit[i]]
    BY <1>4 DEF Exits
  <1> QED BY <1>0, <1>1, <1>11, <1>12

\* Steps after which no scheduler, or one that is not best, runs or has run.
LEMMA NothingToShow ==
    ASSUME pc' \notin {"running", "returned"} \/ alg' \notin {"SJF", "SRTF"}
    PROVE  BestInv' /\ LeastTurnaround'
  BY DEF BestInv, IsBest, LeastTurnaround, Done

LEMMA LoadsBest ==
    ASSUME \/ MainGivesUp \/ ReadHeader \/ ReadRecord \/ ReadRecord_short \/ ReadEnd
           \/ ReadExcess \/ DispatchFails \/ MainEnds
    PROVE  BestInv' /\ LeastTurnaround'
  <1>1. CASE ReadRecord
    <2>1. PICK job \in Jobs : LoadPcb(job)
      BY <1>1 DEF ReadRecord
    <2>2. pc = "records"
      BY <1>1 DEF ReadRecord
    <2>3. pc' \in {"records", "exit"}
      BY <2>1, <2>2 DEF LoadPcb, LoadFails, Exit
    <2> QED BY <2>3, NothingToShow
  <1>2. CASE MainGivesUp \/ ReadHeader \/ ReadRecord_short \/ ReadEnd \/ ReadExcess
             \/ DispatchFails \/ MainEnds
    <2>1. pc' \in {"records", "dispatch", "unusable", "exit"}
      BY <1>2 DEF MainGivesUp, ReadHeader, ReadRecord_short, ReadEnd, ReadExcess,
                  DispatchFails, MainEnds, LoadFails, Exit
    <2> QED BY <2>1, NothingToShow
  <1> QED BY <1>1, <1>2

LEMMA DispatchBest == ASSUME SInv, Dispatch PROVE BestInv' /\ LeastTurnaround'
  <1>0. pc = "dispatch" /\ UNCHANGED <<load, code>> /\ PInv /\ PInv'
    BY DispatchS DEF Dispatch, SInv
  <1>1. ASSUME NEW a \in Algorithms, NEW n \in Nat, Begin(a, n)
        PROVE  BestInv' /\ LeastTurnaround'
    <2>1. BestInv'
      BY <1>0, <1>1, BeginsBest
    <2>2. pc' # "returned"
      BY <1>1 DEF Begin
    <2> QED BY <2>1, <2>2 DEF LeastTurnaround, Done
  <1>2. ASSUME NEW a \in Algorithms \ {"RR"}, Begin(a, 0) PROVE BestInv' /\ LeastTurnaround'
    <2>1. a \in Algorithms /\ 0 \in Nat
      OBVIOUS
    <2> QED BY <1>1, <1>2, <2>1
  <1>3. ASSUME NEW n \in Quanta, Begin("RR", Quantum(n)) PROVE BestInv' /\ LeastTurnaround'
    <2>1. "RR" \in Algorithms /\ Quantum(n) \in Nat
      BY QuantumIsNat DEF Algorithms
    <2>2. \A m \in Nat : Begin("RR", m) => BestInv' /\ LeastTurnaround'
      BY <1>1, <2>1
    <2> QED BY <1>3, <2>1, <2>2
  <1> QED BY <1>2, <1>3 DEF Dispatch

LEMMA ShortestStepsBest ==
    ASSUME SInv, BestInv, SjfProcess \/ SrtfTick
    PROVE  BestInv' /\ LeastTurnaround'
  <1>0. pc = "running" /\ TypeInv
    BY DEF SjfProcess, SrtfTick, Running, SInv, PInv
  <1>1. ASSUME Dies PROVE BestInv' /\ LeastTurnaround'
    BY <1>1, NothingToShow DEF Dies
  <1>2. ASSUME UNCHANGED <<call, ready, q, pc>>, IsBest => FreshInv' /\ BusyInv' /\ OptimumInv'
        PROVE  BestInv' /\ LeastTurnaround'
    <2>1. alg' = alg /\ array' = array /\ pc' = pc
      BY <1>2 DEF call
    <2>2. IsBest' <=> IsBest
      BY <2>1, SameJobs DEF IsBest
    <2> QED BY <1>0, <1>2, <2>1, <2>2 DEF BestInv, LeastTurnaround, Done
  <1>3. CASE SjfProcess
    <2>0. alg = "SJF"
      BY <1>3 DEF SjfProcess, Running
    <2>1. ASSUME NEW k, NEW pcb, SjfRuns(k, pcb) PROVE BestInv' /\ LeastTurnaround'
      <3>1. IsBest => FreshInv' /\ BusyInv' /\ OptimumInv'
        BY <1>0, <2>0, <2>1, SjfRunsBest DEF BestInv
      <3> QED BY <1>2, <2>1, <3>1 DEF SjfRuns
    <2> QED BY <1>0, <1>1, <1>3, <2>1, SjfSteps
  <1>4. CASE SrtfTick
    <2>0. alg = "SRTF"
      BY <1>4 DEF SrtfTick, Running
    <2>1. ASSUME NEW k, NEW pcb, NEW ran, SrtfRuns(k, pcb, ran)
          PROVE  BestInv' /\ LeastTurnaround'
      <3>1. IsBest => FreshInv' /\ BusyInv' /\ OptimumInv'
        BY <1>0, <2>0, <2>1, SrtfRunsBest DEF BestInv
      <3> QED BY <1>2, <2>1, <3>1 DEF SrtfRuns
    <2> QED BY <1>0, <1>1, <1>4, <2>1, SrtfSteps
  <1> QED BY <1>3, <1>4

LEMMA SchedulesBest ==
    ASSUME SInv, BestInv, ScheduleStep, UNCHANGED <<load, code>>
    PROVE  BestInv' /\ LeastTurnaround'
  <1>1. CASE FcfsProcess \/ FcfsReturns \/ RrAdmit \/ RrTick \/ RrReturns
    <2>1. alg' = alg /\ alg \in {"FCFS", "RR"}
      BY <1>1 DEF FcfsProcess, FcfsReturns, RrAdmit, RrTick, RrReturns, Running, call
    <2> QED BY <2>1, NothingToShow
  <1>2. CASE SjfProcess \/ SrtfTick
    BY <1>2, ShortestStepsBest
  <1>3. CASE ShortestReturns
    <2>1. LeastTurnaround'
      BY <1>3, ReturnsBest
    <2>2. pc' = "returned"
      BY <1>3 DEF ShortestReturns
    <2> QED BY <2>1, <2>2 DEF BestInv
  <1> QED BY <1>1, <1>2, <1>3 DEF ScheduleStep

LEMMA StuttersBest ==
    ASSUME BestInv, LeastTurnaround, UNCHANGED vars
    PROVE  BestInv' /\ LeastTurnaround'
  <1>1. /\ alg' = alg /\ array' = array /\ pcbs' = pcbs /\ ready' = ready
        /\ t' = t /\ pc' = pc /\ exit' = exit /\ Now' = Now
    BY DEF vars, Now
  <1>2. /\ Procs' = Procs /\ Total' = Total /\ Bursts' = Bursts
        /\ Busy' <=> Busy
        /\ AllAtOnce' <=> AllAtOnce
        /\ Best(Bursts)' = Best(Bursts)
        /\ \A V : IsTable(V)' <=> IsTable(V)
        /\ \A time : Work(time)' = Work(time)
    BY <1>1, SameJobs
  <1>3. Remains' = Remains /\ Exits(exit)' = Exits(exit)
    BY <1>1, <1>2 DEF Remains, Rests, Exits
  <1>4. (FreshInv' <=> FreshInv) /\ (BusyInv' <=> BusyInv) /\ (OptimumInv' <=> OptimumInv)
    BY <1>1, <1>2, <1>3 DEF FreshInv, BusyInv, OptimumInv
  <1>5. IsBest' <=> IsBest
    BY <1>1, <1>2 DEF IsBest
  <1>6. LeastTurnaround' <=> LeastTurnaround
    BY <1>1, <1>2 DEF LeastTurnaround, Done
  <1> QED BY <1>1, <1>4, <1>5, <1>6 DEF BestInv

LEMMA StartsL == Init => LInv
  <1> SUFFICES ASSUME Init PROVE LInv
    OBVIOUS
  <1>1. pc = "main"
    BY DEF Init
  <1> QED BY <1>1, StartsS DEF LInv, BestInv, LeastTurnaround, Done

LEMMA GoesOnL == LInv /\ [Next]_vars => LInv'
  <1> SUFFICES ASSUME LInv, [Next]_vars PROVE LInv'
    OBVIOUS
  <1>0. SInv /\ SInv' /\ BestInv /\ LeastTurnaround
    BY GoesOnS DEF LInv
  <1>1. CASE Dispatch
    BY <1>0, <1>1, DispatchBest DEF LInv
  <1>2. CASE ScheduleStep /\ UNCHANGED <<load, code>>
    BY <1>0, <1>2, SchedulesBest DEF LInv
  <1>3. CASE UNCHANGED vars
    BY <1>0, <1>3, StuttersBest DEF LInv
  <1>4. CASE \/ MainGivesUp \/ ReadHeader \/ ReadRecord \/ ReadRecord_short \/ ReadEnd
             \/ ReadExcess \/ DispatchFails \/ MainEnds
    BY <1>0, <1>4, LoadsBest DEF LInv
  <1> QED BY <1>1, <1>2, <1>3, <1>4 DEF Next

-----------------------------------------------------------------------------
(* What the program exits with.                                            *)

CodeInv ==
    /\ pc = "returned" => AllRan
    /\ pc \in {"refused", "unusable"} => ~AllRan
    /\ pc = "exit" => (code = 0 <=> AllRan)

CInv == SInv /\ CodeInv

LEMMA StartsC == Init => CInv
  <1> SUFFICES ASSUME Init PROVE CInv
    OBVIOUS
  <1>1. pc = "main"
    BY DEF Init
  <1> QED BY <1>1, StartsS DEF CInv, CodeInv

\* A call that is refused has run nobody.
LEMMA DispatchC == ASSUME SInv, Dispatch PROVE CodeInv'
  <1>0. /\ pc = "dispatch" /\ pcbs \in Pcbs /\ array \in Seq(Jobs)
        /\ Len(pcbs.items) = Len(array) /\ Len(array) \in Nat
        /\ dyn_array_size(pcbs) = Len(pcbs.items)
    BY PcbsItems DEF Dispatch, SInv, PInv, TypeInv, LoadInv, Loading
  <1>1. ASSUME NEW a, NEW n, Begin(a, n) PROVE CodeInv'
    <2>1. PICK queue \in IF a = "RR" THEN dyn_array_create(dyn_array_size(pcbs)) ELSE {ready} :
            IF dyn_array_size(pcbs) = 0 \/ (a = "RR" /\ (n = 0 \/ queue = NULL))
            THEN pc' = "refused" /\ UNCHANGED ready
            ELSE pc' = "running" /\ ready' = queue
      BY <1>1 DEF Begin
    <2>2. /\ array' = array /\ Procs' = Procs /\ Procs = 1 .. Len(array)
          /\ exit' = [i \in Procs |-> IF a \in {"SJF", "SRTF"} /\ array[i].burst = 0
                                      THEN array[i].arrival ELSE NEVER]
      BY <1>1 DEF Begin, Procs
    <2>3. pc' = "refused" => Len(array) = 0 \/ a = "RR"
      BY <1>0, <2>1
    <2>4. ASSUME pc' = "refused" PROVE ~AllRan'
      <3>1. CASE Len(array) = 0
        <4>1. array = <<>>
          BY <1>0, <3>1
        <4> QED BY <2>2, <4>1 DEF AllRan
      <3>2. CASE Len(array) # 0 /\ a = "RR"
        <4>1. 1 \in Procs /\ exit'[1] = NEVER
          BY <1>0, <2>2, <3>2
        <4> QED BY <2>2, <4>1 DEF AllRan
      <3> QED BY <2>3, <2>4, <3>1, <3>2
    <2> QED BY <2>1, <2>4 DEF CodeInv
  <1> QED BY <1>1 DEF Dispatch

\* A scheduler that returns has left nobody in its queues.
LEMMA SchedulesC ==
    ASSUME SInv, ScheduleStep, UNCHANGED <<load, code>>
    PROVE  CodeInv'
  <1>0. /\ pc = "running" /\ alg \in Algorithms /\ pcbs \in Pcbs /\ ready \in Pcbs
        /\ TypeInv /\ QueuesInv /\ RoomInv
    BY RunningTypes DEF ScheduleStep, FcfsProcess, FcfsReturns, SjfProcess, SrtfTick,
       ShortestReturns, RrAdmit, RrTick, RrReturns, Running, SInv, PInv, RunInv
  <1>1. CASE FcfsProcess \/ SjfProcess \/ SrtfTick \/ RrAdmit \/ RrTick
    <2>1. pc' \in {"running", "dead"}
      BY <1>0, <1>1 DEF FcfsProcess, SjfProcess, SrtfTick, RrAdmit, RrTick, Dies
    <2> QED BY <2>1 DEF CodeInv
  <1>2. CASE FcfsReturns \/ ShortestReturns \/ RrReturns
    <2>1. /\ pc' = "returned" /\ alg' = alg /\ array' = array /\ exit' = exit
          /\ Procs' = Procs
      BY <1>2 DEF FcfsReturns, ShortestReturns, RrReturns, call, ghosts, Procs
    <2>2. ASSUME NEW i \in Procs PROVE ~Waits(i)
      <3>1. CASE FcfsReturns
        <4>1. Len(pcbs.items) = 0 /\ Len(ready.items) = 0
          BY <1>0, <3>1 DEF FcfsReturns, Running, RoomInv, dyn_array_size
        <4> QED BY <1>0, <2>2, <4>1, NobodyWaits
      <3>2. CASE ShortestReturns
        <4>1. Compares /\ Len(ready.items) = 0
          BY <1>0, <3>2 DEF ShortestReturns, Running, Compares, RoomInv
        <4>2. \A k \in 1 .. Len(pcbs.items) : ~ (pcbs.items[k].remaining > 0)
          BY <1>0, <3>2, PcbsItems DEF ShortestReturns, any_burst_remaining
        <4> QED BY <1>0, <2>2, <4>1, <4>2, NobodyWaits
      <3>3. CASE RrReturns
        <4>1. Len(pcbs.items) = 0 /\ Len(ready.items) = 0
          BY <3>3 DEF RrReturns, dyn_array_size
        <4> QED BY <1>0, <2>2, <4>1, NobodyWaits
      <3> QED BY <1>2, <3>1, <3>2, <3>3
    <2>3. array # <<>> /\ \A i \in Procs : exit[i] # NEVER
      BY <1>0, <2>2 DEF QueuesInv, RoomInv
    <2> QED BY <1>0, <2>1, <2>3 DEF CodeInv, AllRan
  <1> QED BY <1>1, <1>2 DEF ScheduleStep

LEMMA GoesOnC == CInv /\ [Next]_vars => CInv'
  <1> SUFFICES ASSUME CInv, [Next]_vars PROVE CInv'
    OBVIOUS
  <1>0. SInv /\ SInv' /\ CodeInv
    BY GoesOnS DEF CInv
  <1>1. CASE Dispatch
    BY <1>0, <1>1, DispatchC DEF CInv
  <1>2. CASE ScheduleStep /\ UNCHANGED <<load, code>>
    BY <1>0, <1>2, SchedulesC DEF CInv
  <1>3. ASSUME pc \in Loading, pc' \in Loading \/ (pc' = "exit" /\ code' = EXIT_FAILURE),
               alg' = alg
        PROVE  CodeInv'
    <2>1. alg = "none"
      BY <1>0, <1>3 DEF SInv, PInv, LoadInv
    <2> QED BY <1>3, <2>1 DEF CodeInv, AllRan, Algorithms, Loading, EXIT_FAILURE
  <1>4. ASSUME \/ MainGivesUp \/ ReadHeader \/ ReadRecord \/ ReadRecord_short \/ ReadEnd
               \/ ReadExcess
        PROVE  CodeInv'
    <2>1. CASE MainGivesUp \/ ReadEnd
      BY <1>3, <2>1 DEF MainGivesUp, ReadEnd, Exit, schedule, Loading
    <2>2. CASE ReadHeader
      BY <1>3, <2>2 DEF ReadHeader, LoadFails, Exit, schedule, Loading
    <2>3. CASE ReadRecord
      <3>1. PICK job \in Jobs : LoadPcb(job)
        BY <2>3 DEF ReadRecord
      <3> QED BY <1>3, <2>3, <3>1 DEF ReadRecord, LoadPcb, LoadFails, Exit, schedule, Loading
    <2>4. CASE ReadRecord_short \/ ReadExcess
      BY <1>3, <2>4 DEF ReadRecord_short, ReadExcess, LoadFails, Exit, schedule, Loading
    <2> QED BY <1>4, <2>1, <2>2, <2>3, <2>4
  <1>5. CASE DispatchFails
    <2>1. pc' = "unusable" /\ alg' = "other"
      BY <1>5 DEF DispatchFails
    <2> QED BY <1>0, <2>1 DEF CInv, CodeInv, AllRan, Algorithms
  <1>6. CASE MainEnds
    <2>1. /\ pc' = "exit" /\ (code' = 0 <=> pc = "returned")
          /\ pc \in {"returned", "refused", "unusable"} /\ (AllRan' <=> AllRan)
      BY <1>6 DEF MainEnds, Exit, schedule, AllRan, Procs
    <2> QED BY <1>0, <2>1 DEF CInv, CodeInv
  <1>7. CASE UNCHANGED vars
    <2>1. UNCHANGED <<pc, code>> /\ (AllRan' <=> AllRan)
      BY <1>7 DEF vars, AllRan, Procs
    <2> QED BY <1>0, <2>1 DEF CInv, CodeInv
  <1> QED BY <1>0, <1>1, <1>2, <1>4, <1>5, <1>6, <1>7 DEF Next, CInv

-----------------------------------------------------------------------------
(* Theorems.                                                               *)

(* Only what was read from a file with as many records as its header says  *)
(* and nothing after them is ever scheduled or reported on.                *)
THEOREM OnlyWholeFiles == Spec => []WholeFilesOnly
  <1>1. SInv => WholeFilesOnly
    BY DEF SInv, PInv, EndInv, WholeFilesOnly
  <1> QED BY <1>1, AlwaysS, PTL

(* However the program ends it has freed its arrays, it leaves the file    *)
(* open only if it could load it, and it says EXIT_SUCCESS just when a     *)
(* scheduler has run all processes of the file, at least one, to their end.*)
THEOREM NothingIsLeft == Spec => []ExitIsClean
  <1>1. CInv => ExitIsClean
    BY DEF CInv, CodeInv, SInv, PInv, EndInv, FreedInv, ExitIsClean
  <1> QED BY <1>1, StartsC, GoesOnC, PTL DEF Spec

(* Under each scheduler the queues hold every process that has not ended   *)
(* exactly once, with the burst it has left, and the clock counts the      *)
(* ticks that they have run.                                               *)
THEOREM EveryProcessKept == Spec => []NoProcessLost
  BY NothingLost, AlwaysS, PTL

(* Under round_robin a process that is ready runs within one slice of each *)
(* of the others.                                                          *)
THEOREM TurnsAreFair == Spec => []NoStarvation
  BY NobodyStarves, AlwaysS, PTL

(* The turnaround that a scheduler reports is the sum of exit - arrival,   *)
(* and the waiting time is what of that was not burst: all the time that a *)
(* process was ready and did not run, not only that before its first tick. *)
THEOREM ResultsAreRight == Spec => []StatisticsRight
  <1>1. SInv => StatisticsRight
    BY DEF SInv
  <1> QED BY <1>1, AlwaysS, PTL

(* Shortest remaining time first, and shortest job first if all processes  *)
(* arrive at once, let the processes end as early in all as any schedule.  *)
THEOREM ShortestIsLeast == Spec => []LeastTurnaround
  <1>1. LInv => LeastTurnaround
    BY DEF LInv
  <1> QED BY <1>1, StartsL, GoesOnL, PTL DEF Spec
=============================================================================
