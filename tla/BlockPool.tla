------------------------------ MODULE BlockPool ------------------------------
(***************************************************************************)
(* What both block_store.h promise: a pool of blocks that are handed out   *)
(* one owner at a time and keep what their owner writes to them, and an    *)
(* image of the pool from which it can be brought back.                    *)
(***************************************************************************)
EXTENDS Integers, FiniteSets

CONSTANTS
    Usable,   \* the blocks that can be handed out
    Cells,    \* what a block can hold
    Zero,     \* what a new block holds
    Own,      \* how many blocks the pool takes itself
    Ids,      \* the block numbers callers use
    Mirror    \* whether the pool is its own image, being a mapped file

VARIABLES
    up,       \* whether there is a pool
    used,     \* the blocks that are handed out
    content,  \* what the blocks hold
    saved,    \* the image
    res       \* what the last call returned; of a write, what it wrote

pvars == <<up, used, content, saved, res>>

NoImage == [ok |-> FALSE, used |-> {}, content |-> [b \in Usable |-> Zero]]
Image(u, c) == [ok |-> TRUE, used |-> u, content |-> c]
EmptyImage == Image({}, NoImage.content)
Result(op, ok, val) == [op |-> op, ok |-> ok, val |-> val]

\* The image follows the pool, or stays as it was.
Kept == saved' = IF Mirror THEN Image(used', content') ELSE saved

Init ==
    /\ up = FALSE
    /\ used = {}
    /\ content = NoImage.content
    /\ saved = NoImage
    /\ res = Result("none", TRUE, {})

Create ==
    /\ ~up /\ up' = TRUE
    /\ used' = {} /\ content' = NoImage.content
    /\ Kept
    /\ res' = Result("create", TRUE, {})

Allocate ==
    /\ up /\ up' = TRUE
    /\ \/ \E b \in Usable \ used :
            used' = used \cup {b} /\ res' = Result("allocate", TRUE, {b})
       \/ used = Usable /\ used' = used /\ res' = Result("allocate", FALSE, {})
    /\ content' = content
    /\ Kept

Request(b) ==
    /\ up /\ up' = TRUE
    /\ used' = used \cup ({b} \cap Usable)
    /\ res' = Result("request", b \in Usable \ used, {})
    /\ content' = content
    /\ Kept

Release(b) ==
    /\ up /\ up' = TRUE
    /\ used' = used \ {b}
    /\ res' = Result("release", TRUE, {})
    /\ content' = content
    /\ Kept

\* A caller writes the blocks it was handed; no other block changes.
Write(b) ==
    /\ up /\ up' = TRUE
    /\ \/ /\ b \in used
          /\ \E c \in Cells : /\ content' = [content EXCEPT ![b] = c]
                              /\ res' = Result("write", TRUE, c)
       \/ /\ b \notin Usable
          /\ content' = content
          /\ res' = Result("write", FALSE, {})
    /\ used' = used
    /\ Kept

Read(b) ==
    /\ up
    /\ res' = IF b \in Usable THEN Result("read", TRUE, content[b])
              ELSE Result("read", FALSE, {})
    /\ UNCHANGED <<up, used, content, saved>>

Count ==
    /\ up
    /\ res' \in {Result("used", TRUE, {Cardinality(used) + Own}),
                 Result("export", TRUE, {Cardinality(used) + Own}),
                 Result("free", TRUE, {Cardinality(Usable \ used)})}
    /\ UNCHANGED <<up, used, content, saved>>

\* The image is replaced; halfway there is none.
Save ==
    /\ up
    /\ \/ saved' = NoImage /\ res' \in {Result("save", FALSE, {}), res}
       \/ saved' = Image(used, content) /\ res' = Result("save", TRUE, {})
    /\ UNCHANGED <<up, used, content>>

\* Making a new image in a file starts by destroying the old one.
Wipe ==
    /\ ~up
    /\ saved' \in {NoImage, EmptyImage}
    /\ UNCHANGED <<up, used, content, res>>

Load ==
    /\ ~up
    /\ \/ /\ saved.ok /\ up' = TRUE
          /\ used' = saved.used /\ content' = saved.content
          /\ res' = Result("load", TRUE, {})
       \/ /\ ~saved.ok
          /\ res' = Result("load", FALSE, {})
          /\ UNCHANGED <<up, used, content>>
    /\ saved' = saved

Down ==
    /\ up /\ up' = FALSE
    /\ used' = {} /\ content' = NoImage.content
    /\ UNCHANGED <<saved, res>>

Next ==
    \/ Create \/ Allocate \/ Count \/ Save \/ Wipe \/ Load \/ Down
    \/ \E b \in Ids : Request(b) \/ Release(b) \/ Write(b) \/ Read(b)

Spec == Init /\ [][Next]_pvars
=============================================================================
