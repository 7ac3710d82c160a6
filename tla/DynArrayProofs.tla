--------------------------- MODULE DynArrayProofs ---------------------------
(***************************************************************************)
(* Proofs about DynArray: for any elements, keys and capacities the array  *)
(* stays in its buffer, and no element is lost, doubled, destructed twice  *)
(* or handed out twice, by whatever shifts and sorts.                      *)
(***************************************************************************)
EXTENDS DynArray, FiniteSetTheorems, SequenceTheorems, TLAPS

\* The elements in the array.
Used == 0 .. size - 1
Held == {array[k] : k \in Used}

TypeInv ==
    /\ size \in Nat /\ capacity \in Nat
    /\ array = [k \in 0 .. capacity - 1 |-> array[k]]
    /\ fresh \subseteq Elems
    /\ out \in [Elems -> Nat]
    /\ ~exists => size = 0

Distinct == \A j, k \in Used : array[j] = array[k] => j = k

OutInv == \A e \in Elems : out[e] = IF e \in fresh \cup Held THEN 0 ELSE 1

IInv == TypeInv /\ WithinBuffer /\ Distinct /\ OutInv

-----------------------------------------------------------------------------
(* Counting.                                                               *)

\* Where the elements differ, each is counted at most once.
LEMMA CountOfDistinct ==
    ASSUME IInv, NEW R, R \subseteq Used, NEW e
    PROVE  Cardinality({k \in R : array[k] = e})
             = IF \E k \in R : array[k] = e THEN 1 ELSE 0
  <1>1. CASE ~ \E k \in R : array[k] = e
    <2>1. {k \in R : array[k] = e} = {}
      BY <1>1
    <2> QED BY <1>1, <2>1, FS_EmptySet
  <1>2. CASE \E k \in R : array[k] = e
    <2>1. PICK k \in R : array[k] = e
      BY <1>2
    <2>2. {j \in R : array[j] = e} = {k}
      BY <2>1 DEF IInv, Distinct
    <2> QED BY <1>2, <2>2, FS_Singleton
  <1> QED BY <1>1, <1>2

LEMMA OnceFromInv == IInv => EachElementOnce
  <1> SUFFICES ASSUME IInv, NEW e \in Elems
               PROVE  out[e] + Cardinality({k \in 0 .. size - 1 : array[k] = e})
                        = IF e \in fresh THEN 0 ELSE 1
    BY DEF EachElementOnce
  <1>1. Cardinality({k \in 0 .. size - 1 : array[k] = e})
          = IF \E k \in Used : array[k] = e THEN 1 ELSE 0
    BY CountOfDistinct DEF Used
  <1>2. out[e] = IF e \in fresh \/ (\E k \in Used : array[k] = e) THEN 0 ELSE 1
    BY DEF IInv, OutInv, Held
  <1>3. ~ (e \in fresh /\ \E k \in Used : array[k] = e)
    BY DEF IInv, WithinBuffer, Used
  <1> QED BY <1>1, <1>2, <1>3

-----------------------------------------------------------------------------
(* The steps.                                                              *)

LEMMA InitInv == Init => IInv
  <1> SUFFICES ASSUME Init PROVE IInv
    OBVIOUS
  <1>1. /\ exists = FALSE /\ capacity = 0 /\ size = 0 /\ array = <<>>
        /\ fresh = Elems /\ out = [e \in Elems |-> 0]
    BY DEF Init
  <1>2. 0 .. 0 - 1 = {} /\ Used = {}
    BY <1>1 DEF Used
  <1>3. array = [k \in {} |-> array[k]] /\ DOMAIN array = {}
    BY <1>1
  <1>4. TypeInv
    BY <1>1, <1>2, <1>3 DEF TypeInv
  <1>5. WithinBuffer /\ Distinct
    BY <1>1, <1>2, <1>3 DEF WithinBuffer, Distinct
  <1>6. OutInv
    BY <1>1 DEF OutInv
  <1> QED BY <1>4, <1>5, <1>6 DEF IInv

LEMMA StutterInv ==
    ASSUME IInv, UNCHANGED <<exists, capacity, size, array, fresh, out>>
    PROVE  IInv'
  <1>1. TypeInv'
    BY DEF IInv, TypeInv
  <1>2. WithinBuffer' /\ Distinct'
    BY DEF IInv, WithinBuffer, Distinct, Used
  <1>3. Held' = Held
    BY DEF Held, Used
  <1>4. OutInv'
    BY <1>3 DEF IInv, OutInv
  <1> QED BY <1>1, <1>2, <1>4 DEF IInv

\* An array that was just made.
LEMMA NewArrayInv ==
    ASSUME IInv, ~exists, exists', UNCHANGED <<fresh, out, size>>,
           NEW c \in Nat, capacity' = c, array' = [k \in 0 .. c - 1 |-> Junk]
    PROVE  IInv'
  <1>1. size = 0 /\ Used = {} /\ Used' = {} /\ Held = {} /\ Held' = {}
    BY DEF IInv, TypeInv, Used, Held
  <1>2. TypeInv'
    BY DEF IInv, TypeInv
  <1>3. WithinBuffer' /\ Distinct'
    BY <1>1 DEF WithinBuffer, Distinct
  <1>4. OutInv'
    BY <1>1 DEF IInv, OutInv
  <1> QED BY <1>2, <1>3, <1>4 DEF IInv

LEMMA CreateInv ==
    ASSUME IInv, NEW wanted \in Wanted, dyn_array_create(wanted) PROVE IInv'
  <1>1. CASE Fails
    BY <1>1, StutterInv DEF Fails
  <1>2. CASE ~Fails
    <2>1. PICK c \in MinCapacity .. 2 * (MinCapacity + wanted) :
            capacity' = c /\ array' = [k \in 0 .. c - 1 |-> Junk]
      BY <1>2 DEF dyn_array_create
    <2>2. c \in Nat
      BY CapacityAssumption
    <2>3. ~exists /\ exists' /\ size' = 0 /\ UNCHANGED <<fresh, out>>
      BY <1>2 DEF dyn_array_create
    <2>4. size' = size
      BY <2>3 DEF IInv, TypeInv
    <2> QED BY <2>1, <2>2, <2>3, <2>4, NewArrayInv
  <1> QED BY <1>1, <1>2

LEMMA ImportInv ==
    ASSUME IInv, NEW d \in Elems, NEW e \in Elems, dyn_array_import(d, e) PROVE IInv'
  <1>1. PICK c \in MinCapacity .. 2 * (MinCapacity + 2) :
          /\ 2 <= c /\ capacity' = c
          /\ array' = [k \in 0 .. c - 1 |-> CASE k = 0 -> d [] k = 1 -> e [] OTHER -> Junk]
    BY DEF dyn_array_import, IsDoubled
  <1>2. /\ ~exists /\ exists' /\ size' = 2 /\ fresh' = fresh \ {d, e} /\ out' = out
        /\ d \in fresh /\ e \in fresh /\ d # e
    BY ElemsAssumption DEF dyn_array_import, NextElem
  <1>3. c \in Nat /\ size = 0 /\ Held = {}
    BY <1>2, CapacityAssumption DEF IInv, TypeInv, Held, Used
  <1>4. array'[0] = d /\ array'[1] = e /\ Used' = {0, 1}
    BY <1>1, <1>2, <1>3 DEF Used
  <1>5. TypeInv'
    BY <1>1, <1>2, <1>3 DEF IInv, TypeInv
  <1>6. Held' = {d, e}
    BY <1>4 DEF Held
  <1>7. WithinBuffer'
    <2>1. size' \in 0 .. capacity' /\ DOMAIN array' = 0 .. capacity' - 1
      BY <1>1, <1>2, <1>3
    <2>2. \A k \in Used' : array'[k] \in Elems \ fresh'
      BY <1>2, <1>4
    <2> QED BY <2>1, <2>2 DEF WithinBuffer, Used
  <1>8. Distinct'
    BY <1>2, <1>4 DEF Distinct
  <1>9. OutInv'
    BY <1>2, <1>3, <1>6 DEF IInv, OutInv
  <1> QED BY <1>5, <1>7, <1>8, <1>9 DEF IInv

\* What dyn_shift_insert leaves where.
LEMMA AfterInsert ==
    ASSUME IInv, NEW p \in Nat, NEW e \in fresh, Inserts(p, <<e>>)
    PROVE  /\ p <= size /\ size' = size + 1 /\ fresh' = fresh \ {e} /\ out' = out
           /\ exists' = exists /\ res' = Result(TRUE, <<>>)
           /\ capacity' \in Nat /\ size + 1 <= capacity'
           /\ array' = [k \in 0 .. capacity' - 1 |-> array'[k]]
           /\ \A k \in 0 .. size :
                array'[k] = IF k < p THEN array[k] ELSE IF k = p THEN e ELSE array[k - 1]
  <1>1. /\ p <= size /\ size' = size + 1 /\ fresh' = fresh \ {e} /\ out' = out
        /\ exists' = exists /\ res' = Result(TRUE, <<>>)
    <2>1. {<<e>>[k] : k \in 1 .. 1} = {e}
      OBVIOUS
    <2> QED BY <2>1 DEF Inserts
  <1>2. PICK c \in capacity .. 2 * (capacity + 1) :
          /\ Grows(size + 1, c)
          /\ capacity' = c
          /\ array' = [k \in 0 .. c - 1 |->
               IF k < p \/ k >= size + 1 THEN InBuffer(k)
               ELSE IF k < p + 1 THEN <<e>>[k - p + 1]
               ELSE Opened(k, p, 1)]
    BY DEF Inserts
  <1>3. c \in Nat /\ size + 1 <= c
    BY <1>2 DEF IInv, TypeInv, Grows, IsDoubled
  <1>4. ASSUME NEW k \in 0 .. size
        PROVE  array'[k] = IF k < p THEN array[k] ELSE IF k = p THEN e ELSE array[k - 1]
    <2>1. k \in 0 .. c - 1 /\ ~ (k >= size + 1) /\ size <= capacity
      BY <1>3 DEF IInv, TypeInv, WithinBuffer
    <2>2. CASE k < p
      BY <1>1, <1>2, <2>1, <2>2 DEF InBuffer, IInv, TypeInv
    <2>3. CASE k = p
      BY <1>2, <2>1, <2>3
    <2>4. CASE k > p
      <3>1. array'[k] = InBuffer(k - 1)
        BY <1>2, <2>1, <2>4 DEF Opened
      <3> QED BY <2>1, <2>4, <3>1 DEF InBuffer, IInv, TypeInv
    <2> QED BY <2>2, <2>3, <2>4
  <1>5. array' = [k \in 0 .. capacity' - 1 |-> array'[k]]
    BY <1>2
  <1> QED BY <1>1, <1>2, <1>3, <1>4, <1>5

LEMMA InsertedInv ==
    ASSUME IInv, exists, NEW p \in Nat, NEW e \in fresh, Inserted(p, e)
    PROVE  IInv'
  <1>1. CASE Fails
    BY <1>1, StutterInv DEF Fails
  <1>2. CASE Inserts(p, <<e>>)
    <2>1. /\ p <= size /\ size' = size + 1 /\ fresh' = fresh \ {e} /\ out' = out
          /\ exists' = exists
      BY <1>2, AfterInsert
    <2> DEFINE c == capacity'
    <2>3. /\ c \in Nat /\ size + 1 <= c /\ DOMAIN array' = 0 .. c - 1
          /\ array' = [k \in 0 .. c - 1 |-> array'[k]]
      BY <1>2, AfterInsert
    <2>4. \A k \in 0 .. size :
            array'[k] = IF k < p THEN array[k] ELSE IF k = p THEN e ELSE array[k - 1]
      BY <1>2, AfterInsert
    <2>5. Used' = 0 .. size /\ size \in Nat
      BY <2>1 DEF Used, IInv, TypeInv
    <2>6. ASSUME NEW k \in 0 .. size, k # p
          PROVE  \E j \in Used : array'[k] = array[j] /\ j = IF k < p THEN k ELSE k - 1
      BY <2>1, <2>4, <2>5, <2>6 DEF Used
    <2>7. array'[p] = e
      BY <2>1, <2>4, <2>5
    <2>8. Held' = Held \cup {e}
      <3>1. Held' \subseteq Held \cup {e}
        BY <2>5, <2>6, <2>7 DEF Held
      <3>2. e \in Held'
        BY <2>1, <2>5, <2>7 DEF Held
      <3>3. ASSUME NEW j \in Used PROVE array[j] \in Held'
        <4>1. CASE j < p
          <5>1. j \in 0 .. size
            BY <2>5 DEF Used
          <5>2. array'[j] = array[j]
            BY <2>4, <4>1, <5>1
          <5> QED BY <2>5, <5>1, <5>2 DEF Held
        <4>2. CASE j >= p
          <5>1. j + 1 \in 0 .. size /\ ~ (j + 1 < p) /\ j + 1 # p /\ (j + 1) - 1 = j
            BY <2>5, <4>2 DEF Used
          <5>2. array'[j + 1] = array[j]
            BY <2>4, <5>1
          <5> QED BY <2>5, <5>1, <5>2 DEF Held
        <4> QED BY <2>5, <4>1, <4>2 DEF Used
      <3> QED BY <3>1, <3>2, <3>3 DEF Held
    <2>9. e \in Elems /\ e \notin Held
      BY DEF IInv, TypeInv, WithinBuffer, Held, Used
    <2>10. TypeInv'
      BY <2>1, <2>3, <2>5 DEF IInv, TypeInv
    <2>11. WithinBuffer'
      <3>1. \A k \in Used' : array'[k] \in Held \cup {e}
        BY <2>8 DEF Held
      <3>2. Held \subseteq Elems \ fresh
        BY DEF IInv, WithinBuffer, Held, Used
      <3> QED BY <2>1, <2>3, <2>5, <2>9, <3>1, <3>2 DEF WithinBuffer, Used
    <2>12. Distinct'
      <3> SUFFICES ASSUME NEW i \in 0 .. size, NEW k \in 0 .. size, array'[i] = array'[k]
                   PROVE  i = k
        BY <2>5 DEF Distinct
      <3>1. CASE i = p \/ k = p
        BY <2>6, <2>7, <2>9, <3>1 DEF Held
      <3>2. CASE i # p /\ k # p
        <4>1. (IF i < p THEN i ELSE i - 1) = (IF k < p THEN k ELSE k - 1)
          BY <2>6, <3>2 DEF IInv, Distinct
        <4> QED BY <3>2, <4>1
      <3> QED BY <3>1, <3>2
    <2>13. OutInv'
      BY <2>1, <2>8 DEF IInv, OutInv
    <2> QED BY <2>10, <2>11, <2>12, <2>13 DEF IInv
  <1> QED BY <1>1, <1>2 DEF Inserted

LEMMA RemovesInv ==
    ASSUME IInv, exists, NEW p \in Nat, NEW n \in Nat, NEW val, Removes(p, n, val)
    PROVE  IInv'
  <1> DEFINE R == p .. p + n - 1
             Gone == {array[k] : k \in R}
  <1>1. /\ n > 0 /\ p + n <= size /\ size' = size - n
        /\ UNCHANGED <<exists, capacity, fresh>>
        /\ array' = [k \in 0 .. capacity - 1 |-> Closed(k, p, n)]
        /\ out' = [e \in Elems |-> out[e] + Cardinality({k \in R : array[k] = e})]
    BY DEF Removes
  <1>2. size \in Nat /\ capacity \in Nat /\ size <= capacity
    BY DEF IInv, TypeInv, WithinBuffer
  <1>3. Used' = 0 .. (size - n) - 1 /\ R \subseteq Used
    BY <1>1, <1>2 DEF Used
  <1>4. ASSUME NEW k \in Used'
        PROVE  \E j \in Used \ R : array'[k] = array[j] /\ j = IF k < p THEN k ELSE k + n
    <2>1. k \in 0 .. capacity - 1 /\ k + n < size
      BY <1>1, <1>2, <1>3
    <2>2. array'[k] = IF k < p THEN array[k] ELSE array[k + n]
      BY <1>1, <1>3, <2>1 DEF Closed
    <2> QED BY <1>1, <1>2, <1>3, <2>1, <2>2 DEF Used
  <1>5. ASSUME NEW j \in Used \ R PROVE array[j] \in Held'
    <2>1. CASE j < p
      <3>1. j \in Used'
        BY <1>1, <1>2, <1>3, <2>1 DEF Used
      <3>2. array'[j] = array[j]
        BY <1>4, <2>1, <3>1
      <3> QED BY <3>1, <3>2 DEF Held
    <2>2. CASE ~ (j < p)
      <3>1. j - n \in Used' /\ ~ (j - n < p) /\ (j - n) + n = j
        BY <1>1, <1>2, <1>3, <2>2 DEF Used
      <3>2. array'[j - n] = array[j]
        BY <1>4, <3>1
      <3> QED BY <3>1, <3>2 DEF Held
    <2> QED BY <2>1, <2>2
  <1>6. Held' = Held \ Gone
    <2>1. \A j \in Used \ R : array[j] \in Held \ Gone
      BY <1>3 DEF IInv, Distinct, Held
    <2>2. Held' \subseteq Held \ Gone
      BY <1>4, <2>1 DEF Held
    <2>3. Held \ Gone \subseteq Held'
      BY <1>5 DEF Held
    <2> QED BY <2>2, <2>3
  <1>7. ASSUME NEW e \in Elems
        PROVE  out'[e] = out[e] + IF e \in Gone THEN 1 ELSE 0
    <2>1. out'[e] = out[e] + Cardinality({k \in R : array[k] = e})
      BY <1>1
    <2>2. Cardinality({k \in R : array[k] = e})
            = IF \E k \in R : array[k] = e THEN 1 ELSE 0
      BY <1>3, CountOfDistinct
    <2>3. (\E k \in R : array[k] = e) <=> e \in Gone
      OBVIOUS
    <2> HIDE DEF R, Gone
    <2> QED BY <2>1, <2>2, <2>3
  <1>8. TypeInv'
    <2>1. \A e \in Elems : out'[e] \in Nat
      BY <1>7 DEF IInv, TypeInv
    <2>2. out' \in [Elems -> Nat]
      BY <1>1, <2>1
    <2>3. array' = [k \in 0 .. capacity' - 1 |-> array'[k]]
      BY <1>1
    <2>4. size' \in Nat /\ capacity' \in Nat /\ exists'
      BY <1>1, <1>2
    <2> QED BY <1>1, <2>2, <2>3, <2>4 DEF IInv, TypeInv
  <1>9. WithinBuffer'
    <2>1. \A k \in Used' : array'[k] \in Elems \ fresh
      BY <1>4 DEF IInv, WithinBuffer, Used
    <2> QED BY <1>1, <1>2, <2>1 DEF WithinBuffer, Used
  <1>10. Distinct'
    <2> SUFFICES ASSUME NEW i \in Used', NEW k \in Used', array'[i] = array'[k]
                 PROVE  i = k
      BY DEF Distinct
    <2>1. (IF i < p THEN i ELSE i + n) = (IF k < p THEN k ELSE k + n)
      BY <1>4 DEF IInv, Distinct
    <2> QED BY <1>1, <1>2, <1>3, <2>1
  <1>11. OutInv'
    <2> SUFFICES ASSUME NEW e \in Elems
                 PROVE  out'[e] = IF e \in fresh' \cup Held' THEN 0 ELSE 1
      BY DEF OutInv
    <2>1. Gone \subseteq Held /\ Held \cap fresh = {}
      BY <1>3 DEF IInv, WithinBuffer, Held, Used
    <2>2. out[e] = IF e \in fresh \cup Held THEN 0 ELSE 1
      BY DEF IInv, OutInv
    <2> QED BY <1>1, <1>6, <1>7, <2>1, <2>2
  <1> QED BY <1>8, <1>9, <1>10, <1>11 DEF IInv

\* A permutation of the places: it misses none.
LEMMA SortInv == ASSUME IInv, dyn_array_sort PROVE IInv'
  <1>1. CASE Fails
    BY <1>1, StutterInv DEF Fails
  <1>2. CASE ~Fails
    <2>1. PICK p \in [0 .. size - 1 -> 0 .. size - 1] :
            /\ \A i, j \in 0 .. size - 1 : p[i] = p[j] => i = j
            /\ array' = [k \in 0 .. capacity - 1 |-> IF k < size THEN array[p[k]] ELSE array[k]]
      BY <1>2 DEF dyn_array_sort
    <2>2. UNCHANGED <<exists, capacity, size, fresh, out>>
      BY <1>2 DEF dyn_array_sort
    <2>3. /\ size \in Nat /\ capacity \in Nat /\ size <= capacity /\ Used' = Used
          /\ p \in [Used -> Used]
      BY <2>1, <2>2 DEF IInv, TypeInv, WithinBuffer, Used
    <2>4. \A k \in Used : array'[k] = array[p[k]]
      BY <2>1, <2>3 DEF Used
    <2>5. \A j \in Used : \E k \in Used : p[k] = j
      <3>1. IsFiniteSet(Used)
        BY <2>3, FS_Interval DEF Used
      <3>2. p \in Injection(Used, Used)
        BY <2>1, <2>3 DEF Injection, IsInjective, Used
      <3>3. p \in Surjection(Used, Used)
        BY <3>1, <3>2, FS_Injection
      <3> QED BY <3>3 DEF Surjection
    <2>6. Held' = Held
      <3>1. \A k \in Used : array'[k] \in Held
        BY <2>3, <2>4 DEF Held
      <3>2. \A j \in Used : \E k \in Used : array'[k] = array[j]
        BY <2>4, <2>5
      <3>3. Held' \subseteq Held
        BY <2>3, <3>1 DEF Held
      <3>4. Held \subseteq Held'
        BY <2>3, <3>2 DEF Held
      <3> QED BY <3>3, <3>4
    <2>7. TypeInv'
      BY <2>1, <2>2 DEF IInv, TypeInv
    <2>8. WithinBuffer'
      BY <2>1, <2>2, <2>3, <2>4 DEF IInv, WithinBuffer, Used
    <2>9. Distinct'
      <3> SUFFICES ASSUME NEW i \in Used, NEW k \in Used, array'[i] = array'[k]
                   PROVE  i = k
        BY <2>3 DEF Distinct
      <3>1. p[i] = p[k]
        <4>1. p[i] \in Used /\ p[k] \in Used
          BY <2>3
        <4>2. array[p[i]] = array[p[k]]
          BY <2>4
        <4> QED BY <4>1, <4>2 DEF IInv, Distinct
      <3> QED BY <2>1, <3>1 DEF Used
    <2>10. OutInv'
      BY <2>2, <2>6 DEF IInv, OutInv
    <2> QED BY <2>7, <2>8, <2>9, <2>10 DEF IInv
  <1> QED BY <1>1, <1>2

LEMMA DestroyInv == ASSUME IInv, dyn_array_destroy PROVE IInv'
  <1>1. /\ exists' = FALSE /\ size' = 0 /\ capacity' = 0 /\ array' = <<>> /\ fresh' = fresh
        /\ out' = [e \in Elems |-> out[e] + Cardinality({k \in Used : array[k] = e})]
    BY DEF dyn_array_destroy, Used
  <1>2. 0 .. 0 - 1 = {} /\ Used' = {} /\ Held' = {}
    BY <1>1 DEF Used, Held
  <1>3. ASSUME NEW e \in Elems
        PROVE  out'[e] = out[e] + IF e \in Held THEN 1 ELSE 0
    BY <1>1, CountOfDistinct DEF Held
  <1>4. Held \cap fresh = {}
    BY DEF IInv, WithinBuffer, Held, Used
  <1>5. OutInv'
    BY <1>1, <1>2, <1>3, <1>4 DEF IInv, OutInv
  <1>6. array' = [k \in {} |-> array'[k]] /\ DOMAIN array' = {}
    BY <1>1
  <1>7. TypeInv'
    <2>1. \A e \in Elems : out'[e] \in Nat
      BY <1>3 DEF IInv, TypeInv
    <2>2. out' \in [Elems -> Nat]
      BY <1>1, <2>1
    <2> QED BY <1>1, <1>2, <1>6, <2>2 DEF IInv, TypeInv
  <1>8. WithinBuffer' /\ Distinct'
    BY <1>1, <1>2, <1>6 DEF WithinBuffer, Distinct
  <1> QED BY <1>5, <1>7, <1>8 DEF IInv

LEMMA NextInv == ASSUME IInv, Next PROVE IInv'
  <1>1. size \in Nat
    BY DEF IInv, TypeInv
  <1>2. ASSUME NEW p \in Nat, exists, Erased(p) \/ Extracted(p) PROVE IInv'
    BY <1>2, RemovesInv, StutterInv DEF Erased, Extracted, Fails
  <1>3. CASE \E wanted \in Wanted : dyn_array_create(wanted)
    BY <1>3, CreateInv
  <1>4. CASE \E d, e \in Elems : dyn_array_import(d, e)
    BY <1>4, ImportInv
  <1>5. ASSUME NEW e \in Elems,
               \/ dyn_array_push_front(e) \/ dyn_array_push_back(e)
               \/ dyn_array_insert_sorted(e)
               \/ \E i \in 0 .. size + 1 : dyn_array_insert(i, e)
        PROVE  IInv'
    BY <1>1, <1>5, InsertedInv DEF dyn_array_push_front, dyn_array_push_back,
       dyn_array_insert_sorted, dyn_array_insert, NextElem
  <1>6. CASE dyn_array_pop_front \/ dyn_array_extract_front
    BY <1>2, <1>6 DEF dyn_array_pop_front, dyn_array_extract_front
  <1>7. CASE dyn_array_pop_back \/ dyn_array_extract_back
    <2>1. CASE Fails
      BY <2>1, StutterInv DEF Fails
    <2>2. CASE ~Fails
      <3>1. size # 0 /\ exists /\ (Erased(size - 1) \/ Extracted(size - 1))
        BY <1>7, <2>2 DEF dyn_array_pop_back, dyn_array_extract_back
      <3>2. size - 1 \in Nat
        BY <1>1, <3>1
      <3> QED BY <1>2, <3>1, <3>2
    <2> QED BY <2>1, <2>2
  <1>8. CASE \E i \in 0 .. size + 1 : dyn_array_erase(i) \/ dyn_array_extract(i)
    BY <1>1, <1>2, <1>8 DEF dyn_array_erase, dyn_array_extract
  <1>9. CASE dyn_array_clear
    BY <1>1, <1>9, RemovesInv, StutterInv DEF dyn_array_clear
  <1> QED BY <1>3, <1>4, <1>5, <1>6, <1>7, <1>8, <1>9, SortInv, DestroyInv DEF Next

LEMMA AlwaysIInv == Spec => []IInv
  <1>1. IInv /\ UNCHANGED vars => IInv'
    BY StutterInv DEF vars
  <1> QED BY InitInv, NextInv, <1>1, PTL DEF Spec

(* The elements stay within the buffer, and none of them is memory nobody  *)
(* wrote, whatever sizes are asked for and whenever memory runs out.       *)
THEOREM StaysWithinBuffer == Spec => []WithinBuffer
  <1>1. IInv => WithinBuffer
    BY DEF IInv
  <1> QED BY <1>1, AlwaysIInv, PTL

(* An element that was put in is in the array once, or was destructed or   *)
(* handed out once.                                                        *)
THEOREM NoneLostOrDoubled == Spec => []EachElementOnce
  BY OnceFromInv, AlwaysIInv, PTL

-----------------------------------------------------------------------------
(* Order.                                                                  *)

\* What Inserts leaves when it puts e before the first that is not smaller.
LEMMA SortedInsertSteps ==
    ASSUME IInv, NEW e \in Elems, NEW p \in 0 .. size, SortedPosition(e, p),
           e \in fresh, Inserts(p, <<e>>), InOrder(Keys)
    PROVE  InOrder(Keys')
  <1>1. /\ size' = size + 1
        /\ \A k \in 0 .. size :
             array'[k] = IF k < p THEN array[k] ELSE IF k = p THEN e ELSE array[k - 1]
    <2>1. p \in Nat
      BY DEF IInv, TypeInv
    <2> QED BY <2>1, AfterInsert
  <1>2. size \in Nat /\ Key[e] \in Int /\ \A k \in 0 .. size - 1 : Key[array[k]] \in Int
    BY ElemsAssumption DEF IInv, TypeInv, WithinBuffer
  <1> DEFINE K == [k \in 0 .. size - 1 |-> Key[array[k]]]
  <1>3. \A i, j \in 0 .. size - 1 : i <= j => K[i] <= K[j]
    BY DEF InOrder, Keys
  <1>4. \A k \in 0 .. size - 1 : K[k] \in Int /\ K[k] = Key[array[k]]
    BY <1>2
  <1>5. /\ \A k \in 0 .. p - 1 : Key[e] > K[k]
        /\ p < size => Key[e] <= K[p]
    BY <1>2 DEF SortedPosition
  <1>6. Keys' = [k \in 0 .. size |-> Key[array'[k]]]
    BY <1>1, <1>2 DEF Keys
  <1>7. ASSUME NEW k \in 0 .. size
        PROVE  /\ k < p => Key[array'[k]] = K[k] /\ k \in 0 .. p - 1 /\ k \in 0 .. size - 1
               /\ k = p => Key[array'[k]] = Key[e]
               /\ k > p => Key[array'[k]] = K[k - 1] /\ k - 1 \in 0 .. size - 1 /\ p <= k - 1
    <2>1. CASE k < p
      BY <1>1, <1>2, <1>4, <2>1
    <2>2. CASE k = p
      BY <1>1, <2>2
    <2>3. CASE k > p
      BY <1>1, <1>2, <1>4, <2>3
    <2>4. k < p \/ k = p \/ k > p
      BY <1>2
    <2> QED BY <1>2, <2>1, <2>2, <2>3, <2>4
  <1> HIDE DEF K
  <1>8. ASSUME NEW k \in 0 .. size - 1, p <= k PROVE Key[e] <= K[k]
    <2>1. p < size /\ p \in 0 .. size - 1
      BY <1>2, <1>8
    <2>2. Key[e] <= K[p] /\ K[p] <= K[k]
      BY <1>3, <1>5, <1>8, <2>1
    <2> QED BY <1>2, <1>4, <2>1, <2>2
  <1>9. ASSUME NEW i \in 0 .. size, NEW j \in 0 .. size, i <= j
        PROVE  Key[array'[i]] <= Key[array'[j]]
    <2>1. CASE j < p
      <3>1. i < p
        BY <1>2, <1>9, <2>1
      <3> QED BY <1>3, <1>7, <1>9, <2>1, <3>1
    <2>2. CASE i < p /\ j = p
      <3>1. Key[e] > K[i] /\ K[i] \in Int
        BY <1>4, <1>5, <1>7, <2>2
      <3> QED BY <1>2, <1>7, <2>2, <3>1
    <2>3. CASE i < p /\ j > p
      <3>1. i \in 0 .. size - 1 /\ j - 1 \in 0 .. size - 1 /\ i <= j - 1
        BY <1>2, <1>7, <2>3
      <3>2. K[i] <= K[j - 1]
        BY <1>3, <3>1
      <3> QED BY <1>7, <2>3, <3>2
    <2>4. CASE i = p /\ j = p
      BY <1>2, <1>7, <2>4
    <2>5. CASE i = p /\ j > p
      <3>1. Key[e] <= K[j - 1]
        BY <1>7, <1>8, <2>5
      <3> QED BY <1>7, <2>5, <3>1
    <2>6. CASE i > p
      <3>1. j > p
        BY <1>2, <1>9, <2>6
      <3>2. i - 1 \in 0 .. size - 1 /\ j - 1 \in 0 .. size - 1 /\ i - 1 <= j - 1
        BY <1>2, <1>7, <1>9, <2>6, <3>1
      <3>3. K[i - 1] <= K[j - 1]
        BY <1>3, <3>2
      <3> QED BY <1>7, <2>6, <3>1, <3>3
    <2>7. \/ j < p \/ (i < p /\ j = p) \/ (i < p /\ j > p)
          \/ (i = p /\ j = p) \/ (i = p /\ j > p) \/ i > p
      BY <1>2, <1>9
    <2> QED BY <2>1, <2>2, <2>3, <2>4, <2>5, <2>6, <2>7
  <1> QED BY <1>6, <1>9 DEF InOrder

-----------------------------------------------------------------------------
(* The sequence that the buffer implements.                                *)

Contents == [k \in 1 .. size |-> array[k - 1]]

LEMMA ContentsIsSeq ==
    ASSUME IInv
    PROVE  /\ size \in Nat /\ Contents \in Seq(Elems) /\ Len(Contents) = size
           /\ \A k \in 1 .. size : Contents[k] = array[k - 1]
  <1>1. size \in Nat /\ \A k \in 0 .. size - 1 : array[k] \in Elems
    BY DEF IInv, TypeInv, WithinBuffer
  <1>2. \A k \in 1 .. size : array[k - 1] \in Elems
    BY <1>1
  <1> QED BY <1>1, <1>2 DEF Contents

LEMMA OneLess == \A n \in Nat : \A k \in 1 .. n : k - 1 \in 0 .. n - 1
  OBVIOUS

\* The same of the next state.
LEMMA ContentsIsSeqNext ==
    ASSUME IInv'
    PROVE  /\ size' \in Nat /\ Contents' \in Seq(Elems) /\ Len(Contents') = size'
           /\ \A k \in 1 .. size' : Contents'[k] = array'[k - 1]
  <1>0. size' \in Nat
    BY DEF IInv, TypeInv
  <1>1. \A k \in 0 .. size' - 1 : array'[k] \in Elems
    BY DEF IInv, WithinBuffer
  <1>2. ASSUME NEW k \in 1 .. size' PROVE array'[k - 1] \in Elems
    <2>1. k - 1 \in 0 .. size' - 1
      BY <1>0, OneLess
    <2> QED BY <1>1, <2>1
  <1> QED BY <1>0, <1>2 DEF Contents

\* The part of a sequence from m to n, empty or within it.
LEMMA PartOf ==
    ASSUME NEW S, NEW s \in Seq(S), NEW m \in Nat, m > 0, NEW n \in 0 .. Len(s), m <= n + 1
    PROVE  /\ SubSeq(s, m, n) \in Seq(S) /\ Len(SubSeq(s, m, n)) = (n + 1) - m
           /\ \A j \in 1 .. (n + 1) - m : SubSeq(s, m, n)[j] = s[(m + j) - 1]
  <1>1. \A j \in m .. n : s[j] \in S
    OBVIOUS
  <1>2. m \in Int /\ n \in Int /\ Len(s) \in Nat
    OBVIOUS
  <1>3. /\ SubSeq(s, m, n) \in Seq(S)
        /\ Len(SubSeq(s, m, n)) = IF m <= n THEN n - m + 1 ELSE 0
        /\ \A j \in 1 .. n - m + 1 : SubSeq(s, m, n)[j] = s[m + j - 1]
    BY <1>1, <1>2, SubSeqProperties
  <1> QED BY <1>2, <1>3

LEMMA PutIn ==
    ASSUME NEW S, NEW s \in Seq(S), NEW i \in 1 .. Len(s) + 1, NEW e \in S
    PROVE  /\ Sequence!InsertAt(s, i, e) \in Seq(S)
           /\ Len(Sequence!InsertAt(s, i, e)) = Len(s) + 1
           /\ \A j \in 1 .. Len(s) + 1 : Sequence!InsertAt(s, i, e)[j] =
                IF j < i THEN s[j] ELSE IF j = i THEN e ELSE s[j - 1]
  <1> DEFINE a == SubSeq(s, 1, i - 1)
             b == SubSeq(s, i, Len(s))
             m == <<e>>
  <1>0. Len(s) \in Nat /\ i \in Nat /\ i - 1 \in 0 .. Len(s) /\ (i - 1) + 1 = i
    OBVIOUS
  <1>1. a \in Seq(S) /\ Len(a) = i - 1 /\ \A j \in 1 .. i - 1 : a[j] = s[j]
    BY <1>0, PartOf
  <1>2. /\ b \in Seq(S) /\ Len(b) = (Len(s) + 1) - i
        /\ \A j \in 1 .. (Len(s) + 1) - i : b[j] = s[(i + j) - 1]
    BY <1>0, PartOf
  <1>3. m \in Seq(S) /\ Len(m) = 1 /\ m[1] = e
    OBVIOUS
  <1>4. Sequence!InsertAt(s, i, e) = a \o m \o b
    BY DEF Sequence!InsertAt
  <1> HIDE DEF a, b, m
  <1>5. /\ a \o m \in Seq(S) /\ Len(a \o m) = i
        /\ \A j \in 1 .. i : (a \o m)[j] = IF j <= i - 1 THEN a[j] ELSE m[j - (i - 1)]
    <2>1. /\ a \o m \in Seq(S) /\ Len(a \o m) = Len(a) + Len(m)
          /\ \A j \in 1 .. Len(a) + Len(m) :
               (a \o m)[j] = IF j <= Len(a) THEN a[j] ELSE m[j - Len(a)]
      BY <1>1, <1>3, ConcatProperties
    <2>2. Len(a) + Len(m) = i
      BY <1>0, <1>1, <1>3
    <2> QED BY <2>1, <2>2, <1>1
  <1>6. /\ a \o m \o b \in Seq(S) /\ Len(a \o m \o b) = Len(s) + 1
        /\ \A j \in 1 .. Len(s) + 1 :
             (a \o m \o b)[j] = IF j <= i THEN (a \o m)[j] ELSE b[j - i]
    <2>1. /\ a \o m \o b \in Seq(S) /\ Len(a \o m \o b) = Len(a \o m) + Len(b)
          /\ \A j \in 1 .. Len(a \o m) + Len(b) :
               (a \o m \o b)[j] = IF j <= Len(a \o m) THEN (a \o m)[j] ELSE b[j - Len(a \o m)]
      BY <1>2, <1>5, ConcatProperties
    <2>2. Len(a \o m) + Len(b) = Len(s) + 1
      BY <1>0, <1>2, <1>5
    <2> QED BY <2>1, <2>2, <1>5
  <1>7. ASSUME NEW j \in 1 .. Len(s) + 1
        PROVE  (a \o m \o b)[j] = IF j < i THEN s[j] ELSE IF j = i THEN e ELSE s[j - 1]
    <2>1. CASE j < i
      BY <1>0, <1>1, <1>5, <1>6, <2>1
    <2>2. CASE j = i
      <3>1. i \in 1 .. i /\ ~ (i <= i - 1) /\ i - (i - 1) = 1
        BY <1>0
      <3> QED BY <1>0, <1>3, <1>5, <1>6, <2>2, <3>1
    <2>3. CASE j > i
      <3>1. j - i \in 1 .. (Len(s) + 1) - i /\ (i + (j - i)) - 1 = j - 1 /\ ~ (j <= i)
        BY <1>0, <2>3
      <3>2. b[j - i] = s[j - 1]
        BY <1>2, <3>1
      <3>3. (a \o m \o b)[j] = b[j - i]
        BY <1>6, <3>1
      <3> QED BY <1>0, <2>3, <3>2, <3>3
    <2>4. j < i \/ j = i \/ j > i
      BY <1>0
    <2> QED BY <2>1, <2>2, <2>3, <2>4
  <1> QED BY <1>4, <1>6, <1>7

LEMMA PutInElems ==
    \A e \in Elems : \A s \in Seq(Elems) : \A i \in 1 .. Len(s) + 1 :
       /\ Sequence!InsertAt(s, i, e) \in Seq(Elems)
       /\ Len(Sequence!InsertAt(s, i, e)) = Len(s) + 1
       /\ \A j \in 1 .. Len(s) + 1 : Sequence!InsertAt(s, i, e)[j] =
            IF j < i THEN s[j] ELSE IF j = i THEN e ELSE s[j - 1]
  <1>1. ASSUME NEW e \in Elems, NEW s \in Seq(Elems), NEW i \in 1 .. Len(s) + 1
        PROVE  /\ Sequence!InsertAt(s, i, e) \in Seq(Elems)
               /\ Len(Sequence!InsertAt(s, i, e)) = Len(s) + 1
               /\ \A j \in 1 .. Len(s) + 1 : Sequence!InsertAt(s, i, e)[j] =
                    IF j < i THEN s[j] ELSE IF j = i THEN e ELSE s[j - 1]
    BY PutIn
  <1> QED BY <1>1

LEMMA TakenOut ==
    ASSUME NEW S, NEW s \in Seq(S), NEW i \in 1 .. Len(s)
    PROVE  /\ Sequence!RemoveAt(s, i) \in Seq(S)
           /\ Len(Sequence!RemoveAt(s, i)) = Len(s) - 1
           /\ \A j \in 1 .. Len(s) - 1 : Sequence!RemoveAt(s, i)[j] =
                IF j < i THEN s[j] ELSE s[j + 1]
  <1> DEFINE a == SubSeq(s, 1, i - 1)
             b == SubSeq(s, i + 1, Len(s))
  <1>0. Len(s) \in Nat /\ i \in Nat /\ i - 1 \in 0 .. Len(s) /\ (i - 1) + 1 = i
    OBVIOUS
  <1>1. a \in Seq(S) /\ Len(a) = i - 1 /\ \A j \in 1 .. i - 1 : a[j] = s[j]
    BY <1>0, PartOf
  <1>2. /\ b \in Seq(S) /\ Len(b) = (Len(s) + 1) - (i + 1)
        /\ \A j \in 1 .. (Len(s) + 1) - (i + 1) : b[j] = s[((i + 1) + j) - 1]
    BY <1>0, PartOf
  <1>3. Sequence!RemoveAt(s, i) = a \o b
    BY DEF Sequence!RemoveAt
  <1> HIDE DEF a, b
  <1>4. /\ a \o b \in Seq(S) /\ Len(a \o b) = Len(s) - 1
        /\ \A j \in 1 .. Len(s) - 1 :
             (a \o b)[j] = IF j <= i - 1 THEN a[j] ELSE b[j - (i - 1)]
    <2>1. /\ a \o b \in Seq(S) /\ Len(a \o b) = Len(a) + Len(b)
          /\ \A j \in 1 .. Len(a) + Len(b) :
               (a \o b)[j] = IF j <= Len(a) THEN a[j] ELSE b[j - Len(a)]
      BY <1>1, <1>2, ConcatProperties
    <2>2. Len(a) + Len(b) = Len(s) - 1
      BY <1>0, <1>1, <1>2
    <2> QED BY <2>1, <2>2, <1>1
  <1>5. ASSUME NEW j \in 1 .. Len(s) - 1
        PROVE  (a \o b)[j] = IF j < i THEN s[j] ELSE s[j + 1]
    <2>1. CASE j < i
      BY <1>0, <1>1, <1>4, <2>1
    <2>2. CASE j >= i
      <3>1. /\ j - (i - 1) \in 1 .. (Len(s) + 1) - (i + 1) /\ ~ (j <= i - 1)
            /\ ((i + 1) + (j - (i - 1))) - 1 = j + 1
        BY <1>0, <2>2
      <3>2. b[j - (i - 1)] = s[j + 1]
        BY <1>2, <3>1
      <3>3. (a \o b)[j] = b[j - (i - 1)]
        BY <1>4, <3>1
      <3> QED BY <1>0, <2>2, <3>2, <3>3
    <2>3. j < i \/ j >= i
      BY <1>0
    <2> QED BY <2>1, <2>2, <2>3
  <1> QED BY <1>3, <1>4, <1>5

LEMMA FailsRefuses == Fails => Sequence!Refuse
  BY DEF Fails, Sequence!Refuse, Result, Sequence!Result

LEMMA InsertsSome ==
    ASSUME IInv, IInv', exists, NEW p \in Nat, NEW e \in fresh, Inserts(p, <<e>>)
    PROVE  Sequence!InsertSome
  <1>1. /\ p <= size /\ size' = size + 1 /\ exists' = exists /\ res' = Result(TRUE, <<>>)
        /\ \A k \in 0 .. size :
             array'[k] = IF k < p THEN array[k] ELSE IF k = p THEN e ELSE array[k - 1]
    BY AfterInsert
  <1>2. e \in Elems
    BY DEF IInv, TypeInv
  <1>3. /\ size \in Nat /\ Contents \in Seq(Elems) /\ Len(Contents) = size
        /\ \A k \in 1 .. size : Contents[k] = array[k - 1]
    BY ContentsIsSeq
  <1>4. /\ Contents' \in Seq(Elems) /\ Len(Contents') = size'
        /\ \A k \in 1 .. size' : Contents'[k] = array'[k - 1]
    BY ContentsIsSeqNext
  <1>5. p + 1 \in 1 .. Len(Contents) + 1
    BY <1>1, <1>3
  <1> DEFINE r == Sequence!InsertAt(Contents, p + 1, e)
  <1>6. /\ r \in Seq(Elems) /\ Len(r) = size + 1
        /\ \A j \in 1 .. size + 1 : r[j] =
             IF j < p + 1 THEN Contents[j] ELSE IF j = p + 1 THEN e ELSE Contents[j - 1]
    BY <1>2, <1>3, <1>5, PutInElems
  <1>7. ASSUME NEW j \in 1 .. size + 1 PROVE Contents'[j] = r[j]
    <2>1. j - 1 \in 0 .. size /\ Contents'[j] = array'[j - 1]
      BY <1>1, <1>3, <1>4
    <2>2. CASE j < p + 1
      <3>1. j - 1 < p /\ j \in 1 .. size
        BY <1>1, <1>3, <2>2
      <3> QED BY <1>1, <1>3, <1>6, <2>1, <2>2, <3>1
    <2>3. CASE j = p + 1
      <3>1. ~ (j - 1 < p) /\ j - 1 = p
        BY <2>3
      <3> QED BY <1>1, <1>6, <2>1, <2>3, <3>1
    <2>4. CASE j > p + 1
      <3>1. ~ (j - 1 < p) /\ j - 1 # p /\ j - 1 \in 1 .. size /\ ~ (j < p + 1) /\ j # p + 1
        BY <1>1, <1>3, <2>4
      <3>2. array'[j - 1] = array[(j - 1) - 1]
        BY <1>1, <2>1, <3>1
      <3>3. r[j] = Contents[j - 1]
        BY <1>6, <3>1
      <3> QED BY <1>3, <2>1, <3>1, <3>2, <3>3
    <2> QED BY <1>3, <2>2, <2>3, <2>4
  <1> HIDE DEF r
  <1>8. Contents' = r
    BY <1>1, <1>4, <1>6, <1>7, SeqEqual
  <1> QED BY <1>1, <1>2, <1>5, <1>8 DEF r, Contents, Sequence!InsertSome, Result, Sequence!Result

LEMMA RemovesSome ==
    ASSUME IInv, IInv', exists, NEW p \in Nat, NEW val, Removes(p, 1, val),
           val = <<>> \/ val = <<array[p]>>
    PROVE  Sequence!RemoveSome
  <1>1. /\ p + 1 <= size /\ size' = size - 1 /\ exists' = exists /\ res' = Result(TRUE, val)
        /\ array' = [k \in 0 .. capacity - 1 |-> Closed(k, p, 1)]
    BY DEF Removes
  <1>2. /\ size \in Nat /\ Contents \in Seq(Elems) /\ Len(Contents) = size
        /\ \A k \in 1 .. size : Contents[k] = array[k - 1]
    BY ContentsIsSeq
  <1>3. /\ Contents' \in Seq(Elems) /\ Len(Contents') = size'
        /\ \A k \in 1 .. size' : Contents'[k] = array'[k - 1]
    BY ContentsIsSeqNext
  <1>4. p + 1 \in 1 .. Len(Contents) /\ (p + 1) - 1 = p /\ DOMAIN Contents = 1 .. size
    BY <1>1, <1>2 DEF Contents
  <1> DEFINE r == Sequence!RemoveAt(Contents, p + 1)
  <1>5. /\ r \in Seq(Elems) /\ Len(r) = size - 1
        /\ \A j \in 1 .. size - 1 : r[j] = IF j < p + 1 THEN Contents[j] ELSE Contents[j + 1]
    BY <1>2, <1>4, TakenOut
  <1>6. capacity \in Nat /\ size <= capacity
    BY DEF IInv, TypeInv, WithinBuffer
  <1>7. ASSUME NEW j \in 1 .. size - 1 PROVE Contents'[j] = r[j]
    <2>1. /\ j - 1 \in 0 .. capacity - 1 /\ (j - 1) + 1 < size
          /\ Contents'[j] = array'[j - 1]
      <3>1. j \in 1 .. size'
        BY <1>1, <1>2
      <3> QED BY <1>2, <1>3, <1>6, <3>1
    <2>2. array'[j - 1] = IF p <= j - 1 THEN array[(j - 1) + 1] ELSE array[j - 1]
      BY <1>1, <2>1 DEF Closed
    <2>3. CASE j < p + 1
      <3>1. ~ (p <= j - 1) /\ j \in 1 .. size
        BY <1>2, <2>3
      <3> QED BY <1>2, <1>5, <2>1, <2>2, <2>3, <3>1
    <2>4. CASE j >= p + 1
      <3>1. p <= j - 1 /\ j + 1 \in 1 .. size /\ ~ (j < p + 1) /\ (j + 1) - 1 = (j - 1) + 1
        BY <1>2, <2>4
      <3>2. Contents[j + 1] = array[(j + 1) - 1]
        BY <1>2, <3>1
      <3> QED BY <1>5, <2>1, <2>2, <3>1, <3>2
    <2> QED BY <1>2, <2>3, <2>4
  <1> HIDE DEF r
  <1>8. Contents' = r
    BY <1>1, <1>2, <1>3, <1>5, <1>7, SeqEqual
  <1>9. res' \in {Sequence!Result(TRUE, <<Contents[p + 1]>>), Sequence!Result(TRUE, <<>>)}
    BY <1>1, <1>2, <1>4 DEF Result, Sequence!Result
  <1> QED BY <1>1, <1>2, <1>4, <1>8, <1>9 DEF r, Contents, Sequence!RemoveSome

LEMMA SortsList == ASSUME IInv, IInv', dyn_array_sort, ~Fails PROVE Sequence!Sort
  <1>1. PICK p \in [0 .. size - 1 -> 0 .. size - 1] :
          /\ \A i, j \in 0 .. size - 1 : p[i] = p[j] => i = j
          /\ \A i, j \in 0 .. size - 1 : i <= j => Key[array[p[i]]] <= Key[array[p[j]]]
          /\ array' = [k \in 0 .. capacity - 1 |-> IF k < size THEN array[p[k]] ELSE array[k]]
    BY DEF dyn_array_sort
  <1>2. exists /\ res' = Result(TRUE, <<>>) /\ UNCHANGED <<exists, capacity, size>>
    BY DEF dyn_array_sort
  <1>3. size \in Nat /\ capacity \in Nat /\ size <= capacity
    BY DEF IInv, TypeInv, WithinBuffer
  <1>4. \A k \in 0 .. size - 1 : array'[k] = array[p[k]]
    BY <1>1, <1>3
  <1> DEFINE D == 1 .. size
             P == [k \in D |-> p[k - 1] + 1]
  <1>5. \A k \in D : k - 1 \in 0 .. size - 1 /\ p[k - 1] \in 0 .. size - 1 /\ P[k] \in D
    BY <1>1, <1>3
  <1>6. P \in [D -> D]
    BY <1>5
  <1>7. ASSUME NEW j \in D, NEW k \in D, P[j] = P[k] PROVE j = k
    <2>1. p[j - 1] = p[k - 1]
      BY <1>5, <1>7
    <2>2. j - 1 = k - 1
      BY <1>1, <1>5, <2>1
    <2> QED BY <1>3, <2>2
  <1>8. IsFiniteSet(D)
    BY <1>3, FS_Interval
  <1> HIDE DEF P
  <1>9. P \in Bijection(D, D)
    <2>1. P \in Injection(D, D)
      BY <1>6, <1>7 DEF Injection, IsInjective
    <2>2. P \in Surjection(D, D)
      BY <1>8, <2>1, FS_Injection
    <2> QED BY <2>1, <2>2 DEF Bijection
  <1>10. Bijection(D, D) = Sequence!Bijection(D, D)
    BY DEF Bijection, Injection, Surjection, IsInjective, Sequence!Bijection,
       Sequence!Injection, Sequence!Surjection, Sequence!IsInjective
  <1>11. Contents' = [k \in D |-> Contents[P[k]]]
    <2>1. ASSUME NEW k \in D PROVE array'[k - 1] = Contents[P[k]]
      <3>1. array'[k - 1] = array[p[k - 1]]
        BY <1>4, <1>5
      <3>2. P[k] = p[k - 1] + 1 /\ P[k] - 1 = p[k - 1]
        BY <1>5 DEF P
      <3> QED BY <1>5, <3>1, <3>2 DEF Contents
    <2> QED BY <1>2, <2>1 DEF Contents
  <1>12. ASSUME NEW i \in D, NEW j \in D, i <= j
         PROVE  Key[Contents'[i]] <= Key[Contents'[j]]
    <2>1. i - 1 <= j - 1
      BY <1>3, <1>12
    <2>2. Key[array[p[i - 1]]] <= Key[array[p[j - 1]]]
      BY <1>1, <1>5, <2>1
    <2>3. \A k \in D : Contents'[k] = array[p[k - 1]]
      BY <1>2, <1>4, <1>5 DEF Contents
    <2> QED BY <2>2, <2>3
  <1>13. DOMAIN Contents = D /\ DOMAIN Contents' = D
    BY <1>2 DEF Contents
  <1>14. Sequence!Sorted(Contents')
    BY <1>12, <1>13 DEF Sequence!Sorted
  <1>15. /\ P \in Sequence!Bijection(DOMAIN Contents, DOMAIN Contents)
         /\ Contents' = [i \in DOMAIN Contents |-> Contents[P[i]]]
    BY <1>9, <1>10, <1>11, <1>13, Zenon
  <1>16. exists /\ res' = Sequence!Result(TRUE, <<>>) /\ UNCHANGED exists
    BY <1>2 DEF Result, Sequence!Result
  <1> QED BY <1>14, <1>15, <1>16, Zenon DEF Contents, Sequence!Sort

LEMMA StepRefines ==
    ASSUME IInv, IInv', [Next]_vars PROVE [Sequence!Next]_(Sequence!lvars)
  <1> USE DEF Sequence!Next
  <1>0. size \in Nat
    BY DEF IInv, TypeInv
  <1>1. ASSUME NEW wanted \in Wanted, dyn_array_create(wanted) PROVE Sequence!Next
    <2>1. CASE Fails
      BY <2>1, FailsRefuses
    <2>2. CASE ~Fails
      <3>1. ~exists /\ exists' = TRUE /\ size' = 0 /\ res' = Result(TRUE, <<>>)
        BY <1>1, <2>2 DEF dyn_array_create
      <3>2. Contents' = <<>> /\ Contents' \in [1 .. 0 -> Elems]
        BY <3>1 DEF Contents
      <3>3. 0 \in 0 .. 2
        OBVIOUS
      <3>4. Sequence!Create
        BY <3>1, <3>2, <3>3 DEF Contents, Sequence!Create, Result, Sequence!Result
      <3> QED BY <3>4
    <2> QED BY <2>1, <2>2
  <1>2. ASSUME NEW d \in Elems, NEW e \in Elems, dyn_array_import(d, e) PROVE Sequence!Next
    <2>1. ~exists /\ exists' = TRUE /\ size' = 2 /\ res' = Result(TRUE, <<>>)
      BY <1>2 DEF dyn_array_import
    <2>2. Contents' \in [1 .. 2 -> Elems] /\ 2 \in 0 .. 2
      <3>1. \A k \in 1 .. 2 : array'[k - 1] \in Elems
        BY <2>1 DEF IInv, WithinBuffer
      <3> QED BY <2>1, <3>1 DEF Contents
    <2>3. Sequence!Create
      BY <2>1, <2>2 DEF Contents, Sequence!Create, Result, Sequence!Result
    <2> QED BY <2>3
  <1>3. ASSUME NEW e \in Elems,
               \/ dyn_array_push_front(e) \/ dyn_array_push_back(e)
               \/ dyn_array_insert_sorted(e)
               \/ \E i \in 0 .. size + 1 : dyn_array_insert(i, e)
        PROVE  Sequence!Next
    <2>1. exists /\ e \in fresh /\ \E p \in Nat : Inserted(p, e)
      BY <1>0, <1>3 DEF dyn_array_push_front, dyn_array_push_back,
         dyn_array_insert_sorted, dyn_array_insert, NextElem
    <2> QED BY <2>1, InsertsSome, FailsRefuses DEF Inserted
  <1>4. ASSUME NEW p \in Nat, exists, Erased(p) \/ Extracted(p) PROVE Sequence!Next
    BY <1>4, RemovesSome, FailsRefuses DEF Erased, Extracted
  <1>5. CASE dyn_array_pop_front \/ dyn_array_extract_front
    BY <1>4, <1>5 DEF dyn_array_pop_front, dyn_array_extract_front
  <1>6. CASE dyn_array_pop_back \/ dyn_array_extract_back
    <2>1. CASE Fails
      BY <2>1, FailsRefuses
    <2>2. CASE ~Fails
      <3>1. size # 0 /\ exists /\ (Erased(size - 1) \/ Extracted(size - 1))
        BY <1>6, <2>2 DEF dyn_array_pop_back, dyn_array_extract_back
      <3>2. size - 1 \in Nat
        BY <1>0, <3>1
      <3> QED BY <1>4, <3>1, <3>2
    <2> QED BY <2>1, <2>2
  <1>7. CASE \E i \in 0 .. size + 1 : dyn_array_erase(i) \/ dyn_array_extract(i)
    BY <1>0, <1>4, <1>7 DEF dyn_array_erase, dyn_array_extract
  <1>8. CASE dyn_array_clear
    <2>1. exists /\ exists' = exists /\ size' = 0 /\ res' = Result(TRUE, <<>>)
      <3>1. CASE Removes(0, size, <<>>)
        <4>1. size' = size - size
          BY <3>1 DEF Removes
        <4> QED BY <1>0, <1>8, <3>1, <4>1 DEF dyn_array_clear, Removes
      <3>2. CASE ~ Removes(0, size, <<>>)
        BY <1>8, <3>2 DEF dyn_array_clear
      <3> QED BY <3>1, <3>2
    <2>2. Contents' = <<>>
      BY <2>1 DEF Contents
    <2>3. Sequence!Clear
      BY <2>1, <2>2 DEF Contents, Sequence!Clear, Result, Sequence!Result
    <2> QED BY <2>3
  <1>9. CASE dyn_array_sort
    BY <1>9, SortsList, FailsRefuses
  <1>10. CASE dyn_array_destroy
    <2>1. exists /\ exists' = FALSE /\ size' = 0 /\ res' = res
      BY <1>10 DEF dyn_array_destroy
    <2>2. Contents' = <<>>
      BY <2>1 DEF Contents
    <2>3. Sequence!Destroy
      BY <2>1, <2>2 DEF Contents, Sequence!Destroy
    <2> QED BY <2>3
  <1>11. CASE UNCHANGED vars
    BY <1>11 DEF vars, Sequence!lvars
  <1> QED BY <1>1, <1>2, <1>3, <1>5, <1>6, <1>7, <1>8, <1>9, <1>10, <1>11 DEF Next

(* Seen through its interface the buffer with its shifts, growths and      *)
(* sorts is a sequence, and any insertion that fails leaves it as it was.  *)
THEOREM ArrayImplementsList == Spec => ImplementsList
  <1>1. Init => Sequence!Init
    BY DEF Init, Sequence!Init, Result, Sequence!Result
  <1>2. IInv /\ IInv' /\ [Next]_vars => [Sequence!Next]_(Sequence!lvars)
    BY StepRefines
  <1> QED BY <1>1, <1>2, AlwaysIInv, PTL DEF Spec, ImplementsList, Sequence!Spec

(* dyn_array_insert_sorted keeps a sorted array sorted, for any keys, also *)
(* equal ones, and whether or not the buffer has to grow for it.           *)
THEOREM SortedInsertKeepsOrder == Spec => SortedStaysSorted
  <1>1. IInv /\ [Next]_vars =>
          [(\E e \in Elems : dyn_array_insert_sorted(e)) /\ InOrder(Keys) => InOrder(Keys')]_vars
    <2> SUFFICES ASSUME IInv, NEW e \in Elems, dyn_array_insert_sorted(e), InOrder(Keys)
                 PROVE  InOrder(Keys')
      BY Zenon
    <2>1. e \in fresh
      BY DEF dyn_array_insert_sorted, NextElem
    <2>2. PICK p \in 0 .. size : SortedPosition(e, p) /\ Inserted(p, e)
      BY DEF dyn_array_insert_sorted
    <2>3. CASE Fails
      BY <2>3 DEF Fails, Keys
    <2>4. CASE ~Fails
      <3>1. Inserts(p, <<e>>)
        BY <2>2, <2>4 DEF Inserted
      <3> QED BY <2>1, <2>2, <3>1, SortedInsertSteps
    <2> QED BY <2>3, <2>4
  <1> QED BY <1>1, AlwaysIInv, PTL DEF Spec, SortedStaysSorted
=============================================================================
