------------------------------ MODULE PcbArray ------------------------------
(***************************************************************************)
(* The dynamic array of a3_process_scheduling_nwewnh/src/dyn_array.c, as   *)
(* far as the schedulers use it: a value of a capacity and the elements,   *)
(* and for each function what it makes of one.  That the buffer does keep  *)
(* the elements is what DynArray shows of the same code in a5.             *)
(*                                                                         *)
(* What needs memory may fail: such a function is the set of its outcomes. *)
(***************************************************************************)
EXTENDS Integers, Sequences, SequencesExt

CONSTANTS
    MinCapacity,  \* 16 in dyn_array_create
    MaxCapacity   \* DYN_MAX_CAPACITY

ASSUME CapacityAssumption ==
    /\ MinCapacity \in Nat \ {0}
    /\ MaxCapacity \in Nat

Array(capacity, items) == [capacity |-> capacity, items |-> items]
NULL == Array(0, <<>>)
Outcome(ok, arr) == [ok |-> ok, array |-> arr]

\* from, doubled as often as it takes to hold n.
IsDoubled(from, n, c) ==
    /\ \E k \in 0 .. n : c = from * 2^k
    /\ n <= c
    /\ c = from \/ c < 2 * n

Capacities(from, n) == {c \in from .. 2 * (from + n) : IsDoubled(from, n, c)}

Created(wanted) == {Array(c, <<>>) : c \in Capacities(MinCapacity, wanted)}

\* Mutant: the capacity is that of an array with one element less.
dyn_array_create_small(wanted) == {NULL} \cup Created(IF wanted = 0 THEN 0 ELSE wanted - 1)

dyn_array_create(wanted) == {NULL} \cup (IF wanted <= MaxCapacity THEN Created(wanted) ELSE {})

dyn_array_size(arr) == Len(arr.items)

dyn_array_front(arr) == Head(arr.items)

dyn_array_back(arr) == Last(arr.items)

\* Indices are those of sequences, from 1.
dyn_array_at(arr, i) == arr.items[i]

\* The arrays of the same elements with room for one more, or NULL.
dyn_request_size_increase(arr) ==
    LET needed == dyn_array_size(arr) + 1
        Grown  == {[arr EXCEPT !.capacity = c] : c \in Capacities(2 * arr.capacity, needed)}
    IN  IF arr.capacity >= needed THEN {arr}
        ELSE {NULL} \cup (IF needed <= MaxCapacity THEN Grown ELSE {})

dyn_shift_insert(arr, i, item) ==
    {IF roomy = NULL THEN Outcome(FALSE, arr)
     ELSE Outcome(TRUE, [roomy EXCEPT !.items = InsertAt(@, i, item)]) :
        roomy \in dyn_request_size_increase(arr)}

dyn_shift_remove(arr, i) ==
    IF i \in DOMAIN arr.items THEN [arr EXCEPT !.items = RemoveAt(@, i)] ELSE arr

dyn_array_push_back(arr, item) == dyn_shift_insert(arr, dyn_array_size(arr) + 1, item)

dyn_array_pop_front(arr) == dyn_shift_remove(arr, 1)

dyn_array_extract_front(arr) == dyn_shift_remove(arr, 1)

dyn_array_extract_back(arr) == dyn_shift_remove(arr, dyn_array_size(arr))

dyn_array_extract(arr, i) == dyn_shift_remove(arr, i)

\* clear, with no destructor to call, then both blocks of memory are freed.
dyn_array_destroy(arr) == NULL
=============================================================================
