-------------------------------- MODULE List --------------------------------
(***************************************************************************)
(* What dyn_array.h promises: a sequence that elements are put in, taken   *)
(* out of and sorted in.  Any insertion may fail, for lack of memory.      *)
(***************************************************************************)
EXTENDS Integers, Sequences, SequencesExt, Functions

CONSTANTS Elems, Key

VARIABLES
    exists,
    list,
    res      \* what the last call returned: success, and what it took out

lvars == <<exists, list, res>>

Result(ok, val) == [ok |-> ok, val |-> val]
Sorted(s) == \A i, j \in DOMAIN s : i <= j => Key[s[i]] <= Key[s[j]]

Init == exists = FALSE /\ list = <<>> /\ res = Result(TRUE, <<>>)

Create ==
    /\ ~exists /\ exists' = TRUE
    /\ \E n \in 0 .. 2 : \E s \in [1 .. n -> Elems] : list' = s
    /\ res' = Result(TRUE, <<>>)

InsertSome ==
    /\ exists
    /\ \E i \in 1 .. Len(list) + 1, e \in Elems : list' = InsertAt(list, i, e)
    /\ res' = Result(TRUE, <<>>)
    /\ UNCHANGED exists

\* One element leaves, and is given to the caller or is not.
RemoveSome ==
    /\ exists
    /\ \E i \in DOMAIN list :
         /\ list' = RemoveAt(list, i)
         /\ res' \in {Result(TRUE, <<list[i]>>), Result(TRUE, <<>>)}
    /\ UNCHANGED exists

Clear ==
    /\ exists
    /\ list' = <<>>
    /\ res' = Result(TRUE, <<>>)
    /\ UNCHANGED exists

Sort ==
    /\ exists
    /\ \E p \in Bijection(DOMAIN list, DOMAIN list) :
         list' = [i \in DOMAIN list |-> list[p[i]]]
    /\ Sorted(list')
    /\ res' = Result(TRUE, <<>>)
    /\ UNCHANGED exists

Refuse ==
    /\ res' = Result(FALSE, <<>>)
    /\ UNCHANGED <<exists, list>>

Destroy ==
    /\ exists /\ exists' = FALSE
    /\ list' = <<>>
    /\ UNCHANGED res

Next == \/ Create \/ InsertSome \/ RemoveSome \/ Clear \/ Sort
        \/ Refuse \/ Destroy

Spec == Init /\ [][Next]_lvars
=============================================================================
