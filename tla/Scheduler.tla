----------------------------- MODULE Scheduler -----------------------------
(***************************************************************************)
(* loop() of arduino.ino and the table of tasks of Scheduler.cpp: a burst  *)
(* of the fast lane, a burst of periodic tasks with the fast lane between  *)
(* them, and another burst of the fast lane.                               *)
(*                                                                         *)
(* Time passes and interrupts bring work at any point, in setup() as in    *)
(* loop(), and a pass of loop() takes as long as its tasks do: what those  *)
(* do is the business of other modules.                                    *)
(***************************************************************************)
EXTENDS Integers, Sequences

CONSTANTS
  Priority,    (* of each periodic task, in the order of registration; 0 is *)
               (* the most urgent                                           *)
  Period,      (* of each                                                   *)
  PassTime,    (* the longest pass of loop() that is no overrun             *)
  Lag          (* bound on the waiting of interest                          *)

Tasks == DOMAIN Priority

ASSUME TasksAssumption == Priority \in Seq(0..7) /\ Period \in [Tasks -> Nat \ {0}]
ASSUME TimeAssumption == PassTime \in Nat /\ Lag \in Nat

VARIABLES
  at,       (* "setup"; in loop() the "first" or "last" burst of the fast   *)
            (* lane, "periodic", or the burst "between" two periodic tasks  *)
  count,    (* taskCount in setup(), later i of servicePeriodicBurst()      *)
  burst,    (* burstCount of serviceControlFirstFastLaneBurst()             *)
  progress, (* a task has run, and hasPendingRound() is asked next          *)
  work,     (* what the fast lane finds to do                               *)
  age,      (* millis() - lastRunMs of each task, counted to its period     *)
  spent,    (* time this pass has taken, counted to an overrun              *)
  waiting,  (* history: time each task has been due since the last overrun, *)
            (* or since setup(), counted to Lag + 1                         *)
  since     (* history: what ran since each task last did                   *)

loopVars == <<at, count, burst, progress, work, age, spent, waiting, since>>

(* The fast tasks, the most urgent first.  The reports of the last two,    *)
(* which wait while motors do, are left out.                               *)
FastTasks == <<"motors", "rx", "tx">>

kMaxControlFastLaneBurst == 2

Due(t) == age[t] >= Period[t]

(* Tasks that are more urgent than t, no less frequent and registered first*)
Leaders(t) == {u \in 1..(t - 1) : Priority[u] < Priority[t] /\ Period[u] <= Period[t]}

-----------------------------------------------------------------------------
(* Faulty variants *)
Mut_kMaxPeriodicBurst == 1
Mut_MoreUrgent(t, u) == Priority[t] >= Priority[u]

kMaxPeriodicBurst == 4

(* tickPeriodic()'s comparison, by which the first of equals wins *)
MoreUrgent(t, u) == Priority[t] < Priority[u] \/ (Priority[t] = Priority[u] /\ t <= u)

-----------------------------------------------------------------------------
LoopInit ==
  /\ at = "setup" /\ count = 0 /\ burst = 0 /\ progress = FALSE
  /\ work = {} /\ spent = 0
  /\ age = [t \in Tasks |-> 0] /\ waiting = [t \in Tasks |-> 0]
  /\ since = [t \in Tasks |-> {}]

(* registerTask(): a task is first due after a period *)
Register ==
  /\ at = "setup"
  /\ IF count < Len(Priority) THEN count' = count + 1 /\ UNCHANGED at
                              ELSE count' = 0 /\ at' = "first"
  /\ UNCHANGED <<burst, progress, work, age, spent, waiting, since>>

(* serviceFastLane() runs the most urgent task that makes progress.  It    *)
(* need not do all of its work, and bytes leave only when the UART takes   *)
(* them.                                                                   *)
InFastLane == at \in {"first", "between", "last"}

Urgent == {FastTasks[n] : n \in {k \in DOMAIN FastTasks :
             FastTasks[k] \in work /\ \A j \in 1..(k - 1) : FastTasks[j] \notin work}}

ServiceFastLane ==
  /\ InFastLane /\ ~progress /\ work # {}
  /\ work' \in {work, work \ Urgent}
  /\ progress' = TRUE
  /\ UNCHANGED <<at, count, burst, age, spent, waiting, since>>

(* serviceControlFirstFastLaneBurst() returns *)
Return ==
  /\ burst' = 0 /\ progress' = FALSE
  /\ at' = IF at = "last" THEN "first" ELSE "periodic"
  /\ count' = IF at = "between" THEN count + 1 ELSE 0
  /\ spent' = IF at = "last" THEN 0 ELSE spent
  /\ UNCHANGED <<age, waiting, since>>

NothingToDo ==
  /\ InFastLane /\ ~progress /\ work \subseteq {"tx"}
  /\ Return /\ UNCHANGED work

NoPendingRound ==
  /\ progress /\ "motors" \notin work
  /\ Return /\ UNCHANGED work

(* Motors are pending: once more, or the UART is served and that was it *)
Again ==
  /\ progress /\ "motors" \in work /\ burst + 1 < kMaxControlFastLaneBurst
  /\ burst' = burst + 1 /\ progress' = FALSE
  /\ UNCHANGED <<at, count, work, age, spent, waiting, since>>

BurstEnds ==
  /\ progress /\ "motors" \in work /\ burst + 1 >= kMaxControlFastLaneBurst
  /\ \E drained \in SUBSET {"rx", "tx"} : work' = work \ drained
  /\ Return

-----------------------------------------------------------------------------
(* servicePeriodicBurst(): tickPeriodic() again and again, and the fast    *)
(* lane in between if motors wait                                          *)
Ticking == at = "periodic" /\ count < kMaxPeriodicBurst

Ticked ==
  /\ IF "motors" \in work' THEN at' = "between" /\ UNCHANGED count
                           ELSE count' = count + 1 /\ UNCHANGED at
  /\ UNCHANGED <<burst, progress, spent>>

(* Task t is run; the interrupt may ask for motors meanwhile *)
Run(t) ==
  /\ Ticking /\ Due(t)
  /\ \A u \in Tasks : Due(u) => MoreUrgent(t, u)
  /\ age' = [age EXCEPT ![t] = 0] /\ waiting' = [waiting EXCEPT ![t] = 0]
  /\ since' = [u \in Tasks |-> IF u = t THEN {} ELSE since[u] \union ({t} \intersect Leaders(u))]
  /\ work' \in {work, work \union {"motors"}}
  /\ Ticked

RunNothing ==
  /\ Ticking /\ \A t \in Tasks : ~Due(t)
  /\ UNCHANGED <<work, age, waiting, since>>
  /\ Ticked

LastBurst ==
  /\ at = "periodic" /\ count >= kMaxPeriodicBurst
  /\ at' = "last" /\ count' = 0
  /\ UNCHANGED <<burst, progress, work, age, spent, waiting, since>>

-----------------------------------------------------------------------------
(* Time passes, for the tasks registered.  setup() writes to the serial    *)
(* port between registrations and after them, and any pass may hold a task *)
(* that takes long, so that there is no bound on it.                       *)
Overrun == at # "setup" /\ spent' > PassTime

TimePasses ==
  /\ spent' = IF at = "setup" \/ spent > PassTime THEN spent ELSE spent + 1
  /\ age' = [t \in Tasks |-> IF (at = "setup" /\ t > count) \/ Due(t) THEN age[t] ELSE age[t] + 1]
  /\ waiting' = [t \in Tasks |->
       IF at = "setup" \/ Overrun \/ ~Due(t) THEN 0
       ELSE IF waiting[t] > Lag THEN waiting[t] ELSE waiting[t] + 1]
  /\ UNCHANGED <<at, count, burst, progress, work, since>>

(* A motor's slot comes, bytes come, a frame is queued *)
Arrive(f) ==
  /\ at # "setup" /\ f \notin work
  /\ work' = work \union {f}
  /\ UNCHANGED <<at, count, burst, progress, age, spent, waiting, since>>

LoopNext ==
  \/ Register
  \/ ServiceFastLane \/ NothingToDo \/ NoPendingRound \/ Again \/ BurstEnds
  \/ (\E t \in Tasks : Run(t)) \/ RunNothing \/ LastBurst
  \/ TimePasses \/ \E n \in DOMAIN FastTasks : Arrive(FastTasks[n])

LoopSpec == LoopInit /\ [][LoopNext]_loopVars

-----------------------------------------------------------------------------
(* Properties.                                                             *)

(* Every variable keeps its type. *)
LoopTypeOK ==
  /\ at \in {"setup", "first", "periodic", "between", "last"}
  /\ count \in 0..(Len(Priority) + kMaxPeriodicBurst) /\ burst \in 0..(kMaxControlFastLaneBurst - 1)
  /\ progress \in BOOLEAN /\ work \subseteq {"motors", "rx", "tx"}
  /\ age \in [Tasks -> Nat] /\ \A t \in Tasks : age[t] <= Period[t]
  /\ spent \in 0..(PassTime + 1)
  /\ waiting \in [Tasks -> 0..(Lag + 1)]
  /\ since \in [Tasks -> SUBSET Tasks]

(* Between any two runs of a task, and before its first, every task runs   *)
(* that is more urgent and no less frequent, however late they all are:    *)
(* what Firmware assumes of taskSafety and taskSensors.                    *)
LeadersRunFirst ==
  [][\A t \in Tasks : Due(t) /\ age'[t] = 0 => since[t] = Leaders(t)]_loopVars

(* However late setup() or a pass that took long leaves them all, no task  *)
(* that is due then waits longer than Lag, unless a pass takes long again, *)
(* and whatever is asked of the fast lane.  servicePeriodicBurst(): "so    *)
(* odometry/IMU work does not fall far behind".                            *)
NoneFallsBehind == \A t \in Tasks : waiting[t] <= Lag
=============================================================================
