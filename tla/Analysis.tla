------------------------------ MODULE Analysis ------------------------------
(***************************************************************************)
(* a3_process_scheduling_nwewnh/src/analysis.c, the program, with the      *)
(* loader of process control blocks: it reads a file of a count and that   *)
(* many records, and calls the scheduler that its arguments name.          *)
(*                                                                         *)
(* What the file and the arguments hold is chosen when it is looked at.    *)
(* A header of less than four bytes leaves part of the count as it was on  *)
(* the stack; the records that follow are then missing as well.            *)
(***************************************************************************)
EXTENDS Scheduling

CONSTANTS
    Counts,   \* the counts that headers hold
    Jobs,     \* the records: [burst, arrival]
    Quanta    \* what atoi makes of the argument for the quantum

ASSUME InputAssumption ==
    /\ Counts \subseteq Nat
    /\ Jobs \subseteq [burst : 0 .. Word - 1, arrival : 0 .. Word - 1]
    /\ \A n \in Quanta : n \in Int /\ -Word <= 2 * n /\ 2 * n < Word  \* an int

VARIABLES
    n_pcbs,     \* how many records are still to be read
    fd,         \* whether the file is open
    wellformed, \* ghost: nothing has been found wrong with the file
    code        \* what the program exits with

load == <<n_pcbs, fd, wellformed>>
vars == <<alg, quantum, array, pcbs, ready, t, q, waiting, turnaround, pc,
          exit, starving, load, code>>

EXIT_FAILURE == 1
SIZE_T == Word * Word

Init ==
    /\ alg = "none" /\ quantum = 0
    /\ array = <<>> /\ pcbs = NULL /\ ready = NULL
    /\ t = 0 /\ q = 0 /\ waiting = 0 /\ turnaround = 0
    /\ exit = <<>> /\ starving = <<>>
    /\ n_pcbs = 0 /\ fd = FALSE /\ wellformed = TRUE
    /\ pc = "main" /\ code = 0

schedule == <<alg, quantum, ready, t, q, waiting, turnaround, exit, starving>>

\* The program ends with this code; what printf writes is left out.
Exit(status) == pc' = "exit" /\ code' = status

\* Too few arguments, or no file of that name.
MainGivesUp ==
    /\ pc = "main"
    /\ Exit(EXIT_FAILURE)
    /\ UNCHANGED <<schedule, array, pcbs, load>>

-----------------------------------------------------------------------------
(* load_process_control_blocks                                             *)

\* err3 and err2: the array is destroyed, the file is closed; then main ends.
LoadFails ==
    /\ pcbs' = dyn_array_destroy(pcbs)
    /\ fd' = FALSE
    /\ Exit(EXIT_FAILURE)
    /\ UNCHANGED <<schedule, array, n_pcbs>>

\* The file holds a count, too few bytes for one, or nothing.
ReadHeader ==
    /\ pc = "main"
    /\ wellformed' \in BOOLEAN
    /\ \/ \E n \in Counts : \E arr \in dyn_array_create(n) :
            /\ n_pcbs' = n
            /\ arr # NULL
            /\ pcbs' = arr
            /\ fd' = TRUE
            /\ pc' = "records"
            /\ UNCHANGED <<schedule, array, code>>
       \/ LoadFails

\* Records are read while the file has some.
Pcb(job) == [id |-> Len(array) + 1, remaining |-> job.burst,
             arrival |-> job.arrival, started |-> FALSE]

LoadPcb(job) ==
    \E pushed \in dyn_array_push_back(pcbs, Pcb(job)) :
      IF pushed.ok
      THEN /\ pcbs' = pushed.array
           /\ array' = Append(array, job)
           /\ n_pcbs' = n_pcbs - 1
           /\ UNCHANGED <<schedule, fd, pc, code>>
      ELSE LoadFails

ReadRecord ==
    /\ pc = "records" /\ n_pcbs > 0 /\ wellformed
    /\ \E job \in Jobs : LoadPcb(job)
    /\ UNCHANGED wellformed

\* Mutant: part of a record is taken for a record.
ReadRecord_short_taken ==
    /\ pc = "records" /\ n_pcbs > 0
    /\ wellformed' = FALSE
    /\ \E job \in Jobs : LoadPcb(job)

\* The file ends in a record or before it.
ReadRecord_short ==
    /\ pc = "records" /\ n_pcbs > 0
    /\ wellformed' = FALSE
    /\ LoadFails

\* The file ends after the records: it stays open.
ReadEnd ==
    /\ pc = "records" /\ n_pcbs = 0
    /\ pc' = "dispatch"
    /\ UNCHANGED <<schedule, array, pcbs, load, code>>

\* Mutant: the error label that is jumped to is the one for no array.
ReadExcess_leaks ==
    /\ pc = "records" /\ n_pcbs = 0 /\ wellformed
    /\ wellformed' = FALSE
    /\ fd' = FALSE
    /\ Exit(EXIT_FAILURE)
    /\ UNCHANGED <<schedule, array, pcbs, n_pcbs>>

\* The file goes on.
ReadExcess ==
    /\ pc = "records" /\ n_pcbs = 0 /\ wellformed
    /\ wellformed' = FALSE
    /\ LoadFails

-----------------------------------------------------------------------------
(* main                                                                    *)

\* size_t of an int.
Quantum(n) == IF n < 0 THEN SIZE_T + n ELSE n

\* A scheduler is called.
Dispatch ==
    /\ pc = "dispatch"
    /\ \/ \E a \in Algorithms \ {"RR"} : Begin(a, 0)
       \/ \E n \in Quanta : Begin("RR", Quantum(n))
    /\ UNCHANGED <<load, code>>

\* No scheduler of the name, or no quantum for round_robin.
DispatchFails ==
    /\ pc = "dispatch"
    /\ pc' = "unusable"
    /\ alg' = "other"
    /\ UNCHANGED <<quantum, array, pcbs, ready, clock, sums, ghosts, load, code>>

MainEnds ==
    /\ pc \in {"returned", "refused", "unusable"}
    /\ pcbs' = dyn_array_destroy(pcbs)
    /\ Exit(CASE pc = "returned" -> 0 [] pc = "unusable" -> 1 [] pc = "refused" -> 2)
    /\ UNCHANGED <<schedule, array, load>>

Next ==
    \/ MainGivesUp
    \/ ReadHeader \/ ReadRecord \/ ReadRecord_short \/ ReadEnd \/ ReadExcess
    \/ Dispatch \/ DispatchFails
    \/ ScheduleStep /\ UNCHANGED <<load, code>>
    \/ MainEnds

Spec == Init /\ [][Next]_vars /\ WF_vars(Next)

-----------------------------------------------------------------------------
(* Properties.                                                             *)

(* Only what was read from a file with as many records as its header says  *)
(* and nothing after them is ever scheduled or reported on.                *)
WholeFilesOnly ==
    pc \in {"running", "returned"} \/ (pc = "exit" /\ code = 0) => wellformed

(* However the program ends it has freed its arrays, it leaves the file    *)
(* open only if it could load it, and it says EXIT_SUCCESS just when a     *)
(* scheduler has run all processes of the file, at least one, to their end.*)
AllRan == /\ alg \in Algorithms
          /\ array # <<>> /\ \A i \in Procs : exit[i] # NEVER

ExitIsClean ==
    pc = "exit" => /\ pcbs = NULL /\ ready = NULL
                   /\ fd => alg # "none"
                   /\ code = 0 <=> AllRan

(* The program ends, unless it dies; and with a code of its own making if  *)
(* the scheduler does not look at arrivals or always has a process to run. *)
Returns ==
    /\ <>(pc \in {"exit", "dead"})
    /\ [](pc = "running" /\ (alg = "FCFS" \/ NeverIdle) => <>(pc = "exit"))
=============================================================================
