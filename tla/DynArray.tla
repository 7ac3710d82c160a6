------------------------------ MODULE DynArray ------------------------------
(***************************************************************************)
(* dyn_array.c (a3 and a5 have it with the same code in different layout;  *)
(* lines are those of a5_file_system_nwewnh): a buffer of capacity         *)
(* elements whose first size ones are in the array.  All operations come   *)
(* down to dyn_shift_insert and dyn_shift_remove.                          *)
(*                                                                         *)
(* The elements are told apart, and each is put in once, as objects that   *)
(* own memory are: what the destructor is called on, what the caller takes *)
(* out and what is left must add up.                                       *)
(***************************************************************************)
EXTENDS Integers, Sequences, FiniteSets

CONSTANTS
    Elems,        \* the elements callers put in, as numbers
    Key,          \* what compare looks at
    Junk,         \* the contents of memory nobody wrote
    MinCapacity,  \* 16
    MaxCapacity,  \* DYN_MAX_CAPACITY
    Wanted        \* the capacities callers ask of dyn_array_create

ASSUME CapacityAssumption ==
    /\ MinCapacity \in Nat \ {0}
    /\ MaxCapacity \in Nat
    /\ Wanted \subseteq Nat

ASSUME ElemsAssumption ==
    /\ Elems \subseteq Nat
    /\ Junk \notin Elems
    /\ Key \in [Elems -> Int]

VARIABLES
    exists,    \* whether there is an array
    capacity,
    size,
    array,     \* the buffer
    fresh,     \* ghost: the elements that were never put in
    out,       \* ghost: how often each was destructed or handed back
    res        \* what the last call returned

vars == <<exists, capacity, size, array, fresh, out, res>>

Result(ok, val) == [ok |-> ok, val |-> val]

Init ==
    /\ exists = FALSE
    /\ capacity = 0
    /\ size = 0
    /\ array = <<>>
    /\ fresh = Elems
    /\ out = [e \in Elems |-> 0]
    /\ res = Result(TRUE, <<>>)

-----------------------------------------------------------------------------
(* Capacity.                                                               *)

\* from, doubled as often as it takes to hold n.
IsDoubled(from, n, c) ==
    /\ \E k \in 0 .. n : c = from * 2^k
    /\ n <= c
    /\ c = from \/ c < 2 * n

\* Mutant: the new size is not counted in.
Grows_short(needed, c) ==
    \/ capacity >= needed - 1 /\ c = capacity
    \/ capacity < needed - 1 /\ needed <= MaxCapacity /\ IsDoubled(2 * capacity, needed, c)

\* dyn_request_size_increase
Grows(needed, c) ==
    \/ capacity >= needed /\ c = capacity
    \/ capacity < needed /\ needed <= MaxCapacity /\ IsDoubled(2 * capacity, needed, c)

\* realloc may fail, but is not called while there is room.
CannotGrow(needed) == capacity < needed

-----------------------------------------------------------------------------
(* dyn_shift_insert and dyn_shift_remove.                                  *)

InBuffer(k) == IF k < capacity THEN array[k] ELSE Junk

\* Mutant: memcpy forward in place of memmove, over itself.
Opened_forward(k, position, n) ==
    IF position <= k /\ k < size THEN array[position] ELSE InBuffer(k - n)

\* What memmove leaves at k when it opens a gap of n.
Opened(k, position, n) == InBuffer(k - n)

Inserts(position, src) ==
    LET n == Len(src)
    IN  /\ position <= size
        /\ \E c \in capacity .. 2 * (capacity + n) :
             /\ Grows(size + n, c)
             /\ capacity' = c
             /\ array' = [k \in 0 .. c - 1 |->
                  IF k < position \/ k >= size + n THEN InBuffer(k)
                  ELSE IF k < position + n THEN src[k - position + 1]
                  ELSE Opened(k, position, n)]
        /\ size' = size + n
        /\ fresh' = fresh \ {src[k] : k \in 1 .. n}
        /\ res' = Result(TRUE, <<>>)
        /\ UNCHANGED <<exists, out>>

Fails ==
    /\ res' = Result(FALSE, <<>>)
    /\ UNCHANGED <<exists, capacity, size, array, fresh, out>>

Inserted(position, e) ==
    \/ Inserts(position, <<e>>)
    \/ (position > size \/ CannotGrow(size + 1)) /\ Fails

\* What memmove leaves at k when it closes a gap of n.
Closed(k, position, n) ==
    IF position <= k /\ k + n < size THEN array[k + n] ELSE array[k]

\* The destructor runs on the elements in [position, position + n), or they
\* are copied to the caller: each gets them once.
Removes(position, n, val) ==
    /\ size > 0 /\ n > 0 /\ position + n <= size
    /\ array' = [k \in 0 .. capacity - 1 |-> Closed(k, position, n)]
    /\ size' = size - n
    /\ out' = [e \in Elems |-> out[e] +
         Cardinality({k \in position .. position + n - 1 : array[k] = e})]
    /\ res' = Result(TRUE, val)
    /\ UNCHANGED <<exists, capacity, fresh>>

Erased(position) ==
    \/ Removes(position, 1, <<>>)
    \/ position >= size /\ Fails

\* Mutant: the element is copied out after the gap was closed.
Extracted_late(position) ==
    \/ position < size /\ Removes(position, 1, <<Closed(position, position, 1)>>)
    \/ position >= size /\ Fails

Extracted(position) ==
    \/ position < size /\ Removes(position, 1, <<array[position]>>)
    \/ position >= size /\ Fails

-----------------------------------------------------------------------------
(* The operations of dyn_array.h.                                          *)

dyn_array_create(wanted) ==
    /\ ~exists
    /\ \/ /\ wanted <= MaxCapacity
          /\ exists' = TRUE
          /\ \E c \in MinCapacity .. 2 * (MinCapacity + wanted) :
               /\ IsDoubled(MinCapacity, wanted, c)
               /\ capacity' = c
               /\ array' = [k \in 0 .. c - 1 |-> Junk]
          /\ size' = 0
          /\ res' = Result(TRUE, <<>>)
          /\ UNCHANGED <<fresh, out>>
       \/ Fails  \* too much is wanted, or malloc fails

\* Callers put in the elements in their order.
NextElem(e) == e \in fresh /\ \A f \in fresh : e <= f

\* create with room for the data, then one insertion of all of it.
dyn_array_import(d, e) ==
    /\ ~exists /\ NextElem(d) /\ e \in fresh /\ d < e /\ 2 <= MaxCapacity
    /\ exists' = TRUE
    /\ \E c \in MinCapacity .. 2 * (MinCapacity + 2) :
         /\ IsDoubled(MinCapacity, 2, c)
         /\ capacity' = c
         /\ array' = [k \in 0 .. c - 1 |-> CASE k = 0 -> d [] k = 1 -> e [] OTHER -> Junk]
    /\ size' = 2
    /\ fresh' = fresh \ {d, e}
    /\ res' = Result(TRUE, <<>>)
    /\ UNCHANGED out

dyn_array_push_front(e) == exists /\ NextElem(e) /\ Inserted(0, e)
dyn_array_push_back(e)  == exists /\ NextElem(e) /\ Inserted(size, e)
dyn_array_insert(i, e)  == exists /\ NextElem(e) /\ Inserted(i, e)

dyn_array_pop_front == exists /\ Erased(0)
dyn_array_pop_back  == exists /\ (IF size = 0 THEN Fails ELSE Erased(size - 1))
dyn_array_erase(i)  == exists /\ Erased(i)

dyn_array_extract_front == exists /\ Extracted(0)
dyn_array_extract_back  == exists /\ (IF size = 0 THEN Fails ELSE Extracted(size - 1))
dyn_array_extract(i)    == exists /\ Extracted(i)

\* Mutant: the object goes after the first element that is not smaller.
SortedPosition_after(e, p) ==
    /\ p \in 0 .. size
    /\ \A k \in 0 .. p - 2 : Key[e] > Key[array[k]]
    /\ p < size => (p > 0 /\ Key[e] <= Key[array[p - 1]])

\* Past all elements from the front that are smaller.
SortedPosition(e, p) ==
    /\ p \in 0 .. size
    /\ \A k \in 0 .. p - 1 : Key[e] > Key[array[k]]
    /\ p < size => Key[e] <= Key[array[p]]

dyn_array_insert_sorted(e) ==
    /\ exists /\ NextElem(e)
    /\ \E p \in 0 .. size : SortedPosition(e, p) /\ Inserted(p, e)

dyn_array_clear ==
    /\ exists
    /\ \/ Removes(0, size, <<>>)
       \/ size = 0 /\ res' = Result(TRUE, <<>>)
          /\ UNCHANGED <<exists, capacity, size, array, fresh, out>>

\* qsort: any order in which the keys do not decrease.
dyn_array_sort ==
    /\ exists
    /\ \/ /\ size > 0
          /\ \E p \in [0 .. size - 1 -> 0 .. size - 1] :
               /\ \A i, j \in 0 .. size - 1 : p[i] = p[j] => i = j
               /\ \A i, j \in 0 .. size - 1 : i <= j => Key[array[p[i]]] <= Key[array[p[j]]]
               /\ array' = [k \in 0 .. capacity - 1 |->
                              IF k < size THEN array[p[k]] ELSE array[k]]
          /\ res' = Result(TRUE, <<>>)
          /\ UNCHANGED <<exists, capacity, size, fresh, out>>
       \/ size = 0 /\ Fails

\* clear, then the memory is freed.
dyn_array_destroy ==
    /\ exists
    /\ exists' = FALSE
    /\ out' = [e \in Elems |-> out[e] + Cardinality({k \in 0 .. size - 1 : array[k] = e})]
    /\ size' = 0 /\ capacity' = 0 /\ array' = <<>>
    /\ UNCHANGED <<fresh, res>>

Next ==
    \/ \E wanted \in Wanted : dyn_array_create(wanted)
    \/ \E d, e \in Elems : dyn_array_import(d, e)
    \/ \E e \in Elems : \/ dyn_array_push_front(e) \/ dyn_array_push_back(e)
                        \/ dyn_array_insert_sorted(e)
                        \/ \E i \in 0 .. size + 1 : dyn_array_insert(i, e)
    \/ dyn_array_pop_front \/ dyn_array_pop_back
    \/ dyn_array_extract_front \/ dyn_array_extract_back
    \/ \E i \in 0 .. size + 1 : dyn_array_erase(i) \/ dyn_array_extract(i)
    \/ dyn_array_clear \/ dyn_array_sort \/ dyn_array_destroy

Spec == Init /\ [][Next]_vars

-----------------------------------------------------------------------------
(* Properties.                                                             *)

(* The buffer has room for the elements, and every element that is in the  *)
(* array is one a caller put there, never memory nobody wrote.             *)
WithinBuffer ==
    /\ size \in 0 .. capacity
    /\ DOMAIN array = 0 .. capacity - 1
    /\ \A k \in 0 .. size - 1 : array[k] \in Elems \ fresh

(* Every element that was put in is in the array once and was not given    *)
(* back, or is not in it and was destructed or handed out exactly once:    *)
(* shifting neither loses nor doubles what an element owns.                *)
EachElementOnce ==
    \A e \in Elems : out[e] + Cardinality({k \in 0 .. size - 1 : array[k] = e})
                       = IF e \in fresh THEN 0 ELSE 1

(* dyn_array_insert_sorted puts the object where a sorted array stays so.  *)
Keys == [k \in 0 .. size - 1 |-> Key[array[k]]]
InOrder(keys) == \A i, j \in DOMAIN keys : i <= j => keys[i] <= keys[j]

SortedStaysSorted ==
    [][(\E e \in Elems : dyn_array_insert_sorted(e)) /\ InOrder(Keys) => InOrder(Keys')]_vars

(* The buffer implements a sequence.                                       *)
Sequence == INSTANCE List WITH list <- [k \in 1 .. size |-> array[k - 1]]

ImplementsList == Sequence!Spec
=============================================================================
