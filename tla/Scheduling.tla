----------------------------- MODULE Scheduling -----------------------------
(***************************************************************************)
(* a3_process_scheduling_nwewnh/src/process_scheduling.c: the simulated    *)
(* schedulers.  Analysis, the program, loads an array of process control   *)
(* blocks and calls one of them on it.                                     *)
(*                                                                         *)
(* round_robin and shortest_remaining_time_first choose anew at each tick, *)
(* and a step is a tick; first_come_first_serve and shortest_job_first run *)
(* a process to its end, and a step is a process.  When no process is      *)
(* ready the code uses the NULL it got for one: the program is "dead".     *)
(* The sums of the result are kept before their division by the number of  *)
(* processes; floats hold them exactly below 2^24.                         *)
(***************************************************************************)
EXTENDS PcbArray, FiniteSets

CONSTANTS Word   \* how many values uint32_t has

ASSUME WordAssumption == Word \in Nat \ {0}

Algorithms == {"FCFS", "SJF", "SRTF", "RR"}

VARIABLES
    alg,       \* which scheduler was called
    quantum,
    array,     \* ghost: the processes that were loaded
    pcbs,      \* the array: ready_queue, in round_robin not_ready_queue
    ready,     \* round_robin's ready_queue
    t, q,      \* the clock, and the ticks of the running slice
    waiting,   \* result->average_waiting_time, not yet divided
    turnaround,
    pc,        \* where the program is; in a scheduler, "running"
    exit,      \* ghost: when each process ended
    starving   \* ghost: for how long each process has been ready, not running

call == <<alg, quantum, array>>
sums == <<waiting, turnaround>>
clock == <<t, q>>
ghosts == <<exit, starving>>

Procs == 1 .. Len(array)
NEVER == -1

Running(a) == pc = "running" /\ alg = a

\* What the clock shows after n ticks: unsigned, but long where jobs are
\* compared.
Clock(n) == IF alg \in {"FCFS", "RR"} THEN n % Word ELSE n

Later(n) == Clock(t + n)

\* The processes in the queue other than the one that runs have to wait.
Waiters(id) == {dyn_array_at(ready, k).id : k \in DOMAIN ready.items} \ {id}

\* The process with number id runs for n ticks.
Runs(id, n, ends) ==
    /\ exit' = [exit EXCEPT ![id] = IF ends THEN Later(n) ELSE @]
    /\ starving' = [i \in Procs |-> IF i \in Waiters(id) THEN starving[i] + n ELSE 0]
    /\ t' = Later(n)

\* uint32_t: a burst of 0 becomes 2^32 - 1.
virtual_cpu(pcb) == [pcb EXCEPT !.remaining = (@ - 1) % Word]

\* unsigned, then int.
Turnaround(now, pcb) ==
    LET ticks == (now - pcb.arrival) % Word
    IN  IF 2 * ticks < Word THEN ticks ELSE ticks - Word

\* Mutant: the burst left is taken off every time the process is chosen.
BurstOnStart_always(pcb, fresh) == pcb.remaining

\* What is taken off the waiting time when a process is chosen: its burst,
\* if it is its first time.
BurstOnStart(pcb, fresh) == IF fresh THEN pcb.remaining ELSE 0

\* NULL is dereferenced.
Dies == pc' = "dead" /\ UNCHANGED <<clock, sums, ghosts>>

\* What all four do first; n is the quantum of round_robin.  A process that
\* is never run has ended when it arrives.
Begin(a, n) ==
    /\ alg' = a /\ quantum' = n
    /\ \E queue \in IF a = "RR" THEN dyn_array_create(dyn_array_size(pcbs)) ELSE {ready} :
         IF dyn_array_size(pcbs) = 0 \/ (a = "RR" /\ (n = 0 \/ queue = NULL))
         THEN pc' = "refused" /\ UNCHANGED ready
         ELSE pc' = "running" /\ ready' = queue
    /\ exit' = [i \in Procs |-> IF a \in {"SJF", "SRTF"} /\ array[i].burst = 0
                                THEN array[i].arrival ELSE NEVER]
    /\ starving' = [i \in Procs |-> 0]
    /\ UNCHANGED <<array, pcbs, clock, sums>>

-----------------------------------------------------------------------------
(* first_come_first_serve: the processes in the order of the array from    *)
(* its back, whenever they arrive.                                         *)
FcfsProcess ==
    /\ Running("FCFS") /\ dyn_array_size(pcbs) > 0
    /\ LET pcb == dyn_array_back(pcbs)
       IN  /\ pcbs' = dyn_array_extract_back(pcbs)
           /\ waiting' = waiting + t
           /\ Runs(pcb.id, pcb.remaining, TRUE)
           /\ turnaround' = turnaround + t'
    /\ UNCHANGED <<call, ready, q, pc>>

FcfsReturns ==
    /\ Running("FCFS") /\ dyn_array_size(pcbs) = 0
    /\ pc' = "returned"
    /\ UNCHANGED <<call, pcbs, ready, clock, sums, ghosts>>

-----------------------------------------------------------------------------
(* shortest_job_first and shortest_remaining_time_first.                   *)

any_burst_remaining == \E k \in DOMAIN pcbs.items : dyn_array_at(pcbs, k).remaining > 0

\* The time is passed as an unsigned.
Arrived(pcb) == t % Word >= pcb.arrival

\* Mutant: a process counts as arrived one tick late.
find_shortest_burst_late(k) ==
    LET pcb(j) == dyn_array_at(pcbs, j)
        candidates == {j \in DOMAIN pcbs.items : t % Word > pcb(j).arrival /\ pcb(j).remaining > 0}
    IN  /\ k \in candidates
        /\ \A j \in candidates : \/ pcb(j).remaining > pcb(k).remaining
                                 \/ pcb(j).remaining = pcb(k).remaining /\ k <= j

\* Mutant: the last of all arrived processes with some burst left.
find_shortest_burst_last(k) ==
    LET pcb(j) == dyn_array_at(pcbs, j)
        candidates == {j \in DOMAIN pcbs.items : Arrived(pcb(j)) /\ pcb(j).remaining > 0}
    IN  k \in candidates /\ \A j \in candidates : j <= k

\* k is the first of the shortest among the processes that have arrived.
find_shortest_burst(k) ==
    LET pcb(j) == dyn_array_at(pcbs, j)
        candidates == {j \in DOMAIN pcbs.items : Arrived(pcb(j)) /\ pcb(j).remaining > 0}
    IN  /\ k \in candidates
        /\ \A j \in candidates : \/ pcb(j).remaining > pcb(k).remaining
                                 \/ pcb(j).remaining = pcb(k).remaining /\ k <= j

SjfProcess ==
    /\ Running("SJF") /\ any_burst_remaining
    /\ \/ \E k \in DOMAIN pcbs.items :
            LET pcb == dyn_array_at(pcbs, k)
            IN  /\ find_shortest_burst(k)
                /\ pcbs' = [pcbs EXCEPT !.items[k].remaining = 0, !.items[k].started = TRUE]
                /\ waiting' = waiting + (t - pcb.arrival)
                /\ turnaround' = turnaround + (t - pcb.arrival) + pcb.remaining
                /\ Runs(pcb.id, pcb.remaining, TRUE)
                /\ UNCHANGED <<q, pc>>
       \/ /\ \A k \in DOMAIN pcbs.items : ~find_shortest_burst(k)
          /\ Dies
          /\ UNCHANGED pcbs
    /\ UNCHANGED <<call, ready>>

SrtfTick ==
    /\ Running("SRTF") /\ any_burst_remaining
    /\ \/ \E k \in DOMAIN pcbs.items :
            LET pcb  == dyn_array_at(pcbs, k)
                ran  == virtual_cpu([pcb EXCEPT !.started = TRUE])
                ends == ran.remaining = 0
                flow == IF ends THEN Turnaround(t + 1, pcb) ELSE 0
            IN  /\ find_shortest_burst(k)
                /\ pcbs' = [pcbs EXCEPT !.items[k] = ran]
                /\ waiting' = waiting - BurstOnStart(pcb, ~pcb.started) + flow
                /\ turnaround' = turnaround + flow
                /\ Runs(pcb.id, 1, ends)
                /\ UNCHANGED <<q, pc>>
       \/ /\ \A k \in DOMAIN pcbs.items : ~find_shortest_burst(k)
          /\ Dies
          /\ UNCHANGED pcbs
    /\ UNCHANGED <<call, ready>>

ShortestReturns ==
    /\ Running("SJF") \/ Running("SRTF")
    /\ ~any_burst_remaining
    /\ pc' = "returned"
    /\ UNCHANGED <<call, pcbs, ready, clock, sums, ghosts>>

-----------------------------------------------------------------------------
(* round_robin                                                             *)

ArrivedSlots == {k \in DOMAIN pcbs.items : Arrived(dyn_array_at(pcbs, k))}

\* The loop that fills the ready queue runs from the back of the array:
\* later entries enter first.  Nobody asks whether push_back succeeded.
RrAdmit ==
    /\ Running("RR") /\ ArrivedSlots # {}
    /\ LET k == Max(ArrivedSlots)
       IN  /\ \E pushed \in dyn_array_push_back(ready, dyn_array_at(pcbs, k)) :
                ready' = pushed.array
           /\ pcbs' = dyn_array_extract(pcbs, k)
    /\ UNCHANGED <<call, clock, sums, pc, ghosts>>

\* Mutant: a process whose slice has expired stays in front.
Requeued_front(queue) == {queue}

\* A process whose slice has expired goes to the end.
Requeued(queue) ==
    {pushed.array : pushed \in
        dyn_array_push_back(dyn_array_extract_front(queue), dyn_array_front(queue))}

RrTick ==
    /\ Running("RR") /\ ArrivedSlots = {}
    /\ dyn_array_size(pcbs) > 0 \/ dyn_array_size(ready) > 0
    /\ \/ /\ dyn_array_size(ready) > 0
          /\ LET pcb   == dyn_array_front(ready)
                 fresh == q = 0 /\ ~pcb.started
                 ran   == virtual_cpu([pcb EXCEPT !.started = @ \/ fresh])
                 queue == [ready EXCEPT !.items[1] = ran]
                 slice == (q + 1) % Word
                 ends  == ran.remaining = 0
                 flow  == IF ends THEN Turnaround(Later(1), pcb) ELSE 0
             IN  /\ waiting' = waiting - BurstOnStart(pcb, fresh) + flow
                 /\ turnaround' = turnaround + flow
                 /\ ready' \in IF ends THEN {dyn_array_pop_front(queue)}
                              ELSE IF slice >= quantum THEN Requeued(queue)
                              ELSE {queue}
                 /\ q' = IF ends \/ slice >= quantum THEN 0 ELSE slice
                 /\ Runs(pcb.id, 1, ends)
                 /\ UNCHANGED pc
       \/ /\ dyn_array_size(ready) = 0
          /\ Dies
          /\ UNCHANGED ready
    /\ UNCHANGED <<call, pcbs>>

RrReturns ==
    /\ Running("RR") /\ dyn_array_size(pcbs) = 0 /\ dyn_array_size(ready) = 0
    /\ ready' = dyn_array_destroy(ready)
    /\ pc' = "returned"
    /\ UNCHANGED <<call, pcbs, clock, sums, ghosts>>

ScheduleStep ==
    \/ FcfsProcess \/ FcfsReturns
    \/ SjfProcess \/ SrtfTick \/ ShortestReturns
    \/ RrAdmit \/ RrTick \/ RrReturns

-----------------------------------------------------------------------------
(* Properties.                                                             *)

SumOf(f) == LET sum[n \in 0 .. Len(f)] == IF n = 0 THEN 0 ELSE sum[n - 1] + f[n]
            IN  sum[Len(f)]
Bursts == [i \in Procs |-> array[i].burst]
Done == pc = "returned"

(* The queues hold every process that has not ended exactly once, with the *)
(* burst it has left, and the clock counts the ticks that they have run:   *)
(* its burst each, but 2^32 for a burst of 0 in round_robin.               *)
Queued == pcbs.items \o ready.items
ToRun(burst) == IF alg = "RR" /\ burst = 0 THEN Word ELSE burst
Left(i) == LET at == {k \in DOMAIN Queued : Queued[k].id = i}
           IN  IF at = {} THEN 0 ELSE ToRun(Queued[CHOOSE k \in at : TRUE].remaining)
InQueue(i) == \E k \in DOMAIN Queued :
                /\ Queued[k].id = i
                /\ alg \in {"SJF", "SRTF"} => Queued[k].remaining > 0

NoProcessLost ==
    pc = "running" =>
      /\ \A j, k \in DOMAIN Queued : Queued[j].id = Queued[k].id => j = k
      /\ \A i \in Procs : InQueue(i) <=> exit[i] = NEVER
      /\ t = Clock(SumOf([i \in Procs |-> ToRun(array[i].burst) - Left(i)]))

(* What the schedulers that look at arrivals report: the turnaround is the *)
(* sum of exit - arrival; the waiting time is what of that was not burst,  *)
(* all the time a process was ready and did not run.  That is what the     *)
(* tests expect (tests.cpp:288, 342, 372) and process_scheduling.c:125-129 *)
(* means, which leaves out the arrival.  processing_scheduling.h:25 says   *)
(* "in the ready queue until first schedue on the cpu": that is the same   *)
(* for SJF, but less than what is reported, and checked here, for every    *)
(* process that SRTF or RR preempts.  A burst of 0 wraps in round_robin    *)
(* and makes its waiting time meaningless; and with 2^31 ticks or more in  *)
(* all a turnaround need not fit its int.                                  *)
Flow == [i \in Procs |-> exit[i] - array[i].arrival]

StatisticsRight ==
    Done /\ 2 * SumOf(Bursts) < Word
         /\ (alg \in {"SJF", "SRTF"} \/ (alg = "RR" /\ \A i \in Procs : array[i].burst > 0))
      => /\ turnaround = SumOf(Flow)
         /\ waiting = SumOf(Flow) - SumOf(Bursts)

(* Shortest remaining time first has the least total turnaround that any   *)
(* schedule has, and so has shortest job first if all arrive at once.      *)
(* best[n][left] is the least sum of the exit times to come when, n ticks  *)
(* before the end, left is what the processes have left.  The code         *)
(* compares arrivals with the clock as a uint32_t, which must not wrap.    *)
LeastOf(S) == CHOOSE n \in S : \A m \in S : n <= m

Best(bursts) ==
    LET total == SumOf(bursts)
        best[n \in 0 .. total] ==
          [left \in [Procs -> 0 .. total] |->
             IF n = 0 THEN 0
             ELSE LET now == total - n
                      can == {i \in Procs : left[i] > 0 /\ array[i].arrival <= now}
                  IN  LeastOf({(IF left[i] = 1 THEN now + 1 ELSE 0)
                                 + best[n - 1][[left EXCEPT ![i] = @ - 1]] : i \in can})]
    IN  best[total][bursts]

AllAtOnce == \A i \in Procs : array[i].arrival = 0

LeastTurnaround ==
    Done /\ ((alg = "SRTF" /\ SumOf(Bursts) <= Word) \/ (alg = "SJF" /\ AllAtOnce))
      => SumOf([i \in Procs |-> IF array[i].burst = 0 THEN 0 ELSE exit[i]]) = Best(Bursts)

(* Under round robin a process that is ready runs within one slice of each *)
(* of the others.                                                          *)
NoStarvation ==
    alg = "RR" => \A i \in Procs : starving[i] <= (Len(array) - 1) * quantum

(* Some process is ready at all times until all have ended.                *)
Work(time) == SumOf([i \in Procs |-> IF array[i].arrival <= time THEN array[i].burst ELSE 0])

NeverIdle ==
    \A i \in Procs : \A time \in 0 .. array[i].arrival - 1 : Work(time) > time

(* processing_scheduling.h: "true if function ran successful else false    *)
(* for an error"; a call that dies does neither.                           *)
NeverDies == pc # "dead"
=============================================================================
