------------------------------ MODULE FileStore ------------------------------
(***************************************************************************)
(* What FS.h promises of files, without blocks: a file is a sequence of    *)
(* cells, a descriptor is a file and a position.  A write may take effect  *)
(* piece by piece; a process that dies in it leaves the file with a prefix *)
(* of the buffer written over it, and never anything else.                 *)
(***************************************************************************)
EXTENDS Integers, Sequences

CONSTANTS Inodes, Fds, Data, Buffers, ReadSizes, SeekOffsets

VARIABLES
    content,  \* what each file holds
    cursor,   \* the open descriptors
    writing,  \* the fs_write that is running
    mounted,
    res       \* what the last call returned

fvars == <<content, cursor, writing, mounted, res>>

Closed == [file |-> 0, pos |-> -1]
NoWrite == [fd |-> 0, buf |-> <<>>, done |-> -1]
Result(n, data) == [n |-> n, data |-> data]
Open(d) == cursor[d] # Closed
Quiet == mounted /\ writing = NoWrite
Size(d) == Len(content[cursor[d].file])

Init ==
    /\ content = [i \in Inodes |-> <<>>]
    /\ cursor = [d \in Fds |-> Closed]
    /\ writing = NoWrite
    /\ mounted = TRUE
    /\ res = Result(0, <<>>)

\* FS.h: the lowest free descriptor, at the start of the file.
OpenFile(i) ==
    /\ Quiet
    /\ \/ \E d \in Fds :
            /\ ~Open(d)
            /\ \A e \in Fds : ~Open(e) => d <= e
            /\ cursor' = [cursor EXCEPT ![d] = [file |-> i, pos |-> 0]]
            /\ res' = Result(d, <<>>)
       \/ /\ \A d \in Fds : Open(d)
          /\ res' = Result(-1, <<>>)
          /\ UNCHANGED cursor
    /\ UNCHANGED <<content, writing, mounted>>

CloseFile(d) ==
    /\ Quiet /\ Open(d)
    /\ cursor' = [cursor EXCEPT ![d] = Closed]
    /\ res' = Result(0, <<>>)
    /\ UNCHANGED <<content, writing, mounted>>

\* The point of the file nearest to p: a position never leaves the file.
Within(p, size) == IF p < 0 THEN 0 ELSE IF p > size THEN size ELSE p

Seek(d) ==
    /\ Quiet /\ Open(d)
    /\ \E o \in SeekOffsets, from \in {0, cursor[d].pos, Size(d)} :
         /\ cursor' = [cursor EXCEPT ![d].pos = Within(from + o, Size(d))]
         /\ res' = Result(Within(from + o, Size(d)), <<>>)
    /\ UNCHANGED <<content, writing, mounted>>

Read(d) ==
    /\ Quiet /\ Open(d)
    /\ \E n \in ReadSizes :
         LET pos == cursor[d].pos
             m == IF pos + n <= Size(d) THEN n ELSE Size(d) - pos
         IN  /\ res' = Result(m, SubSeq(content[cursor[d].file], pos + 1, pos + m))
             /\ cursor' = [cursor EXCEPT ![d].pos = pos + m]
    /\ UNCHANGED <<content, writing, mounted>>

Refuse ==
    /\ Quiet
    /\ \E d \in Fds : ~Open(d)
    /\ res' = Result(-1, <<>>)
    /\ UNCHANGED <<content, cursor, writing, mounted>>

StartWrite(d, buf) ==
    /\ Quiet /\ Open(d)
    /\ writing' = [fd |-> d, buf |-> buf, done |-> 0]
    /\ res' = Result(0, <<>>)
    /\ UNCHANGED <<content, cursor, mounted>>

\* s with the first n cells of the running write laid over it, cut at len.
Overlay(s, pos, n, len) ==
    [k \in 1 .. len |-> IF pos < k /\ k <= pos + n THEN writing.buf[k - pos] ELSE s[k]]

\* n cells of the buffer are in the file, of which those up to len show.
Effect(n, len) ==
    LET file == cursor[writing.fd].file
        pos  == cursor[writing.fd].pos
        old  == content[file]
    IN  /\ writing.done <= n /\ n <= Len(writing.buf)
        /\ Len(old) <= len /\ (len <= Len(old) \/ len <= pos + n)
        /\ content' = [content EXCEPT ![file] = Overlay(old, pos, n, len)]

Progress ==
    /\ mounted /\ writing # NoWrite
    /\ \E n \in writing.done .. Len(writing.buf) :
         /\ writing' = [writing EXCEPT !.done = n]
         /\ \E len \in Size(writing.fd) .. Size(writing.fd) + Len(writing.buf) :
              Effect(n, len)
    /\ UNCHANGED <<cursor, mounted, res>>

\* The call returns how much it wrote; all of it shows.
EndWrite ==
    /\ mounted /\ writing # NoWrite
    /\ writing' = NoWrite
    /\ LET d == writing.fd
           end == cursor[d].pos + writing.done
       IN  /\ Effect(writing.done, IF end > Size(d) THEN end ELSE Size(d))
           /\ cursor' = [cursor EXCEPT ![d].pos = end]
    /\ res' = Result(writing.done, <<>>)
    /\ UNCHANGED mounted

\* fs_unmount, or the death of the process in a call: descriptors are lost.
Detach ==
    /\ mounted
    /\ mounted' = FALSE
    /\ cursor' = [d \in Fds |-> Closed]
    /\ writing' = NoWrite
    /\ res' = Result(0, <<>>)
    /\ UNCHANGED content

Attach ==
    /\ ~mounted
    /\ mounted' = TRUE
    /\ UNCHANGED <<content, cursor, writing, res>>

Next ==
    \/ \E i \in Inodes : OpenFile(i)
    \/ \E d \in Fds : CloseFile(d) \/ Seek(d) \/ Read(d)
    \/ \E d \in Fds, buf \in Buffers : StartWrite(d, buf)
    \/ Refuse \/ Progress \/ EndWrite \/ Detach \/ Attach

Spec == Init /\ [][Next]_fvars
=============================================================================
