----------------------------- MODULE Navigation -----------------------------
(* The base-motion slot of the robot API (robot_impl/navigation.py): one      *)
(* program thread starts, cancels and shuts down motions, one navigation      *)
(* thread per motion drives the wheels, and they meet in the slot             *)
(* (_nav_thread, under _nav_lock) and in two events that every handle shares  *)
(* (_nav_cancel and _nav_done).  A SIGINT turns the program thread, wherever  *)
(* it is, to the shutdown of robot_node.py.                                   *)
EXTENDS Naturals, FiniteSets

CONSTANTS
    Motions,     \* the motion threads a program may create
    None,        \* Python's None
    Program,     \* the program thread as the author of a velocity
    Patient      \* the program polls is_finished() before the next motion; else is_moving()

ASSUME NavigationAssumption ==
    /\ None \notin Motions
    /\ Program \notin Motions
    /\ Program # None
    /\ Patient \in BOOLEAN

VARIABLES
    user,        \* where the program thread is
    handle,      \* the motion of the last handle it got
    joining,     \* the thread cancel_motion took to wait for
    gaveUp,      \* its last wait ended before the thread did
    after,       \* where cancel_motion returns: to the program or into shutdown
    exiting,     \* a signal has ended the program
    slot,        \* _nav_thread
    cancel,      \* _nav_cancel
    done,        \* _nav_done
    pc,          \* of each motion thread
    enable,      \* of each motion: its tick found the drive motors not enabled
    wheels,      \* whose velocity was published last, None after a zero
    powered,     \* the last command published on /dc_enable enabled the drive motors
    reported,    \* the cached /dc_state_all shows them in velocity mode
    target       \* a virtual target is published

program == <<user, handle, joining, gaveUp, after, exiting>>
events  == <<slot, cancel, done>>
threads == <<pc, enable>>
robot   == <<wheels, powered, reported, target>>
vars    == <<program, events, threads, robot>>

Idle    == {"ready", "off"}                       \* in the program's own code
Driving == {"test", "look", "drive", "sleep"}     \* in a motion's control loop
Alive   == Driving \cup {"stop", "release", "finish"}

-----------------------------------------------------------------------------
(* Faulty variants of the helpers below.                                      *)
Mut_Moving == slot # None /\ pc[slot] \in Alive /\ ~cancel
Mut_Ended == joining # None => pc[joining] # "created"
Mut_Cancelled == FALSE
Mut_AfterFailure == "release"

-----------------------------------------------------------------------------
(* The program thread.                                                        *)

Init ==
    /\ user = "ready" /\ handle = None /\ joining = None /\ gaveUp = FALSE
    /\ after = "ready" /\ exiting = FALSE
    /\ slot = None /\ cancel = FALSE /\ done = FALSE
    /\ pc = [m \in Motions |-> "new"]
    /\ enable = [m \in Motions |-> FALSE]
    /\ wheels = None /\ powered = FALSE /\ reported = FALSE /\ target = FALSE

\* is_moving(), and the test _start_nav refuses a second motion by
Moving == slot # None /\ pc[slot] \in Alive

InProgram == user \in Idle /\ ~exiting

\* _start_nav's first locked block, when the slot is free
Claim ==
    /\ InProgram
    /\ ~Moving
    /\ Patient => (handle # None => done)
    /\ user' = "claimed"
    /\ done' = FALSE
    /\ cancel' = FALSE
    /\ UNCHANGED <<handle, joining, gaveUp, after, exiting, slot, threads, robot>>

\* the new thread takes the slot before it runs
Register(m) ==
    /\ user = "claimed"
    /\ pc[m] = "new"
    /\ user' = "registered"
    /\ handle' = m
    /\ slot' = m
    /\ pc' = [pc EXCEPT ![m] = "created"]
    /\ target' = FALSE
    /\ UNCHANGED <<joining, gaveUp, after, exiting, cancel, done, enable, wheels, powered, reported>>

Launch ==
    /\ user = "registered"
    /\ user' = "ready"
    /\ pc' = [pc EXCEPT ![handle] = "test"]
    /\ UNCHANGED <<handle, joining, gaveUp, after, exiting, events, enable, robot>>

\* MotionHandle.cancel()
CancelHandle ==
    /\ InProgram
    /\ handle # None
    /\ cancel' = TRUE
    /\ UNCHANGED <<program, slot, done, threads, robot>>

\* set_velocity(), which enables the motors, and stop()
SetVelocity ==
    /\ InProgram
    /\ user' = "ready"
    /\ wheels' = Program
    /\ powered' = (powered \/ ~reported)
    /\ UNCHANGED <<handle, joining, gaveUp, after, exiting, events, threads, reported, target>>

StopWheels ==
    /\ InProgram
    /\ wheels' = None
    /\ UNCHANGED <<program, events, threads, powered, reported, target>>

\* cancel_motion(): set the event, take the thread, join it for a second
CancelMotion(return) ==
    /\ user' = "cancelling"
    /\ after' = return
    /\ cancel' = TRUE
    /\ UNCHANGED <<handle, joining, gaveUp, slot, done, threads, robot>>

CallCancel   == InProgram /\ CancelMotion("ready") /\ UNCHANGED exiting

\* shutdown() begins with it, called by the program or for a signal
CallShutdown == InProgram /\ CancelMotion("rest") /\ UNCHANGED exiting

Interrupt    == ~exiting /\ exiting' = TRUE /\ CancelMotion("rest")

TakeThread ==
    /\ user = "cancelling"
    /\ user' = "joining"
    /\ joining' = slot
    /\ UNCHANGED <<handle, gaveUp, after, exiting, events, threads, robot>>

\* the thread has ended, or there was none
Ended == joining # None => pc[joining] = "dead"

Joined ==
    /\ user = "joining"
    /\ Ended
    /\ user' = after
    /\ joining' = None
    /\ gaveUp' = FALSE
    /\ slot' = IF slot = joining THEN None ELSE slot
    /\ cancel' = FALSE
    /\ UNCHANGED <<handle, after, exiting, done, threads, robot>>

\* a tick outlasts the second: cancel_motion gives up and leaves the event set
JoinTimesOut ==
    /\ user = "joining"
    /\ joining # None /\ pc[joining] \in Alive
    /\ user' = after
    /\ joining' = None
    /\ gaveUp' = TRUE
    /\ UNCHANGED <<handle, after, exiting, events, threads, robot>>

\* a thread that was never started cannot be joined: the exception ends shutdown
JoinRaises ==
    /\ user = "joining"
    /\ joining # None /\ pc[joining] = "created"
    /\ user' = "failed"
    /\ joining' = None
    /\ UNCHANGED <<handle, gaveUp, after, exiting, events, threads, robot>>

\* shutdown() after cancel_motion: stop(), then disable_drive_motors()
Rest ==
    /\ user = "rest"
    /\ user' = "disable"
    /\ wheels' = None
    /\ UNCHANGED <<handle, joining, gaveUp, after, exiting, events, threads, powered, reported, target>>

Disable ==
    /\ user = "disable"
    /\ user' = "off"
    /\ powered' = FALSE
    /\ UNCHANGED <<handle, joining, gaveUp, after, exiting, events, threads, wheels, reported, target>>

-----------------------------------------------------------------------------
(* A motion thread: the control loop every _nav_ body shares, then runner's   *)
(* clean-up.                                                                  *)

\* _nav_cancel, as every loop tests it
Cancelled == cancel

Goes(m, from, to) == pc[m] = from /\ pc' = [pc EXCEPT ![m] = to]

\* while not cancelled: goal reached, or a command is planned (and a leashed
\* planner publishes its target)
Test(m) ==
    /\ \/ Goes(m, "test", "stop") /\ UNCHANGED target
       \/ ~Cancelled /\ Goes(m, "test", "look") /\ target' \in {target, TRUE}
    /\ UNCHANGED <<program, events, enable, wheels, powered, reported>>

\* _ensure_drive_motors_enabled reads the cached motor states
Look(m) ==
    /\ Goes(m, "look", "drive")
    /\ enable' = [enable EXCEPT ![m] = ~reported]
    /\ UNCHANGED <<program, events, robot>>

\* and enables what was not, before the velocity is published
Drive(m) ==
    /\ Goes(m, "drive", "sleep")
    /\ wheels' = m
    /\ powered' = (powered \/ enable[m])
    /\ enable' = [enable EXCEPT ![m] = FALSE]
    /\ UNCHANGED <<program, events, reported, target>>

\* _sleep_with_cancel
Wake(m) ==
    /\ \/ ~Cancelled /\ Goes(m, "sleep", "test")
       \/ Cancelled /\ Goes(m, "sleep", "stop")
    /\ UNCHANGED <<program, events, enable, robot>>

\* the planner raises; runner catches it and stops the wheels
AfterFailure == "stop"

Fail(m) ==
    /\ Goes(m, "look", AfterFailure)
    /\ UNCHANGED <<program, events, enable, robot>>

StopMotion(m) ==
    /\ Goes(m, "stop", "release")
    /\ wheels' = None
    /\ UNCHANGED <<program, events, enable, powered, reported, target>>

\* runner's finally: drop the target, free the slot if it is still this thread's
Release(m) ==
    /\ Goes(m, "release", "finish")
    /\ target' = FALSE
    /\ slot' = IF slot = m THEN None ELSE slot
    /\ UNCHANGED <<program, cancel, done, enable, wheels, powered, reported>>

Finish(m) ==
    /\ Goes(m, "finish", "dead")
    /\ done' = TRUE
    /\ UNCHANGED <<program, slot, cancel, enable, robot>>

Motion(m) ==
    \/ Test(m) \/ Look(m) \/ Drive(m) \/ Wake(m) \/ Fail(m)
    \/ StopMotion(m) \/ Release(m) \/ Finish(m)

\* /dc_state_all: late, and the firmware may have refused or dropped the enable
Report ==
    /\ reported' \in BOOLEAN
    /\ UNCHANGED <<program, events, threads, wheels, powered, target>>

-----------------------------------------------------------------------------

Cancelling == TakeThread \/ Joined \/ JoinTimesOut \/ JoinRaises \/ Rest \/ Disable

Next ==
    \/ Claim \/ (\E m \in Motions : Register(m)) \/ Launch
    \/ CancelHandle \/ SetVelocity \/ StopWheels
    \/ CallCancel \/ CallShutdown \/ Interrupt \/ Cancelling
    \/ \E m \in Motions : Motion(m)
    \/ Report

\* threads run; the program goes on once it has called cancel_motion or shutdown
Fairness ==
    /\ WF_vars(Cancelling)
    /\ \A m \in Motions : WF_vars(Motion(m))

Spec == Init /\ [][Next]_vars /\ Fairness

-----------------------------------------------------------------------------

TypeOK ==
    /\ user \in Idle \cup {"claimed", "registered", "cancelling", "joining", "rest", "disable", "failed"}
    /\ handle \in Motions \cup {None} /\ joining \in Motions \cup {None}
    /\ after \in {"ready", "rest"}
    /\ slot \in Motions \cup {None}
    /\ gaveUp \in BOOLEAN /\ exiting \in BOOLEAN /\ cancel \in BOOLEAN /\ done \in BOOLEAN
    /\ pc \in [Motions -> Alive \cup {"new", "created", "dead"}]
    /\ enable \in [Motions -> BOOLEAN]
    /\ wheels \in Motions \cup {None, Program}
    /\ powered \in BOOLEAN /\ reported \in BOOLEAN /\ target \in BOOLEAN

\* "Only one base-motion command may run at a time" (navigation.py:847): two
\* motion threads are never both between their start and their release, whatever
\* the program calls and wherever a signal cuts it off.
OneMotion ==
    \A m, n \in Motions :
        pc[m] \in Alive \ {"finish"} /\ pc[n] \in Alive \ {"finish"} => m = n

\* A motion that gave up its slot has left nothing behind: neither its velocity
\* nor its virtual target is the last one published (runner and every _nav_ body).
LeavesNothing ==
    /\ wheels \in Motions => pc[wheels] \in {"test", "look", "drive", "sleep", "stop"}
    /\ target => \E m \in Motions : pc[m] \in Alive \ {"finish"}

\* The completion contract of MotionHandle (navigation.py:39): once is_finished()
\* returns True for the motion last started, it has released the slot.
FinishedMeansReleased ==
    user \in Idle /\ handle # None /\ done => pc[handle] = "dead"

\* shutdown() leaves the wheels stopped and the drive motors disabled
\* (navigation.py:455) until the program commands something again, unless
\* cancel_motion stopped waiting for the motion thread.
ShutdownDisables ==
    user = "off" /\ ~gaveUp => wheels = None /\ ~powered

\* A cancelled motion stops and frees the slot: once _nav_cancel is set, the
\* thread that was running ends.
CancelEnds ==
    \A m \in Motions : (cancel /\ pc[m] \in Alive) ~> (pc[m] = "dead")
=============================================================================
