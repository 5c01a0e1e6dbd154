------------------------- MODULE Navigation_proofs -------------------------
(* Proofs about the base-motion slot, for any number of motions.              *)
EXTENDS Navigation, TLAPS

Running == Alive \ {"finish"}

\* A running thread holds the slot, so there is one at most.
Owned == \A m \in Motions : pc[m] \in Running => slot = m

Quiet == \A m \in Motions : pc[m] \notin Running

\* What the program thread knows where it stands.
Stands ==
    /\ user = "claimed" => Quiet
    /\ user = "registered" => handle \in Motions /\ slot = handle /\ pc[handle] = "created"
    /\ user = "joining" => slot \in {joining, None}
    /\ user \in {"rest", "disable", "off"} /\ ~gaveUp => Quiet

Rested ==
    /\ user \in {"disable", "off"} /\ ~gaveUp => wheels = None
    /\ user = "off" /\ ~gaveUp => ~powered

Inv == TypeOK /\ Owned /\ Stands /\ Rested /\ LeavesNothing

USE NavigationAssumption

LEMMA InitInv == Init => Inv
  BY DEF Init, Inv, TypeOK, Owned, Quiet, Stands, Rested, LeavesNothing, Running, Alive, Driving, Idle

\* TypeOK in two parts: where the threads are, and the flags.
Spots == Alive \cup {"new", "created", "dead"}

Places ==
    /\ user \in Idle \cup {"claimed", "registered", "cancelling", "joining", "rest", "disable", "failed"}
    /\ handle \in Motions \cup {None} /\ joining \in Motions \cup {None}
    /\ after \in {"ready", "rest"}
    /\ slot \in Motions \cup {None}
    /\ pc \in [Motions -> Spots]
    /\ wheels \in Motions \cup {None, Program}

Flags ==
    /\ gaveUp \in BOOLEAN /\ exiting \in BOOLEAN /\ cancel \in BOOLEAN /\ done \in BOOLEAN
    /\ enable \in [Motions -> BOOLEAN]
    /\ powered \in BOOLEAN /\ reported \in BOOLEAN /\ target \in BOOLEAN

LEMMA Parts == TypeOK <=> Places /\ Flags
  BY DEF TypeOK, Places, Flags, Spots

LEMMA SpotsFacts == Alive \subseteq Spots /\ {"new", "created", "dead"} \subseteq Spots
  BY DEF Spots

LEMMA AliveFacts == Driving \cup {"stop", "release", "finish"} \subseteq Alive
  BY DEF Alive

\* A step of a motion thread moves its control and no other.
LEMMA GoesType ==
  ASSUME pc \in [Motions -> Spots], NEW m \in Motions, NEW from, NEW to \in Spots, Goes(m, from, to)
  PROVE  pc' \in [Motions -> Spots]
  BY DEF Goes

LEMMA PlacesStep == TypeOK /\ Stands /\ [Next]_vars => Places'
<1> SUFFICES ASSUME Places, Stands, [Next]_vars PROVE Places'
  BY Parts
<1> USE DEF Places
<1>1. CASE CancelHandle \/ StopWheels \/ SetVelocity \/ Report \/ UNCHANGED vars
  BY <1>1 DEF CancelHandle, StopWheels, SetVelocity, Report, vars, program, events, threads, robot, Idle
<1>2. CASE CallCancel \/ CallShutdown \/ Interrupt
  BY <1>2 DEF CallCancel, CallShutdown, Interrupt, CancelMotion, threads, robot
<1>3. CASE TakeThread \/ Joined
  BY <1>3 DEF TakeThread, Joined, events, threads, robot, Idle
<1>4. CASE JoinTimesOut \/ JoinRaises \/ Rest \/ Disable
  BY <1>4 DEF JoinTimesOut, JoinRaises, Rest, Disable, events, threads, robot, Idle
<1>5. CASE Claim
  BY <1>5 DEF Claim, threads, robot
<1>6. ASSUME NEW m \in Motions, Register(m) PROVE Places'
  BY <1>6, SpotsFacts DEF Register
<1>7. CASE Launch
  BY <1>7, SpotsFacts, AliveFacts DEF Launch, events, robot, Idle, Driving
<1>8. ASSUME NEW m \in Motions, Motion(m) PROVE Places'
  <2>1. \E from \in Spots, to \in Spots : Goes(m, from, to)
    BY <1>8 DEF Motion, Test, Wake, Fail, AfterFailure, Look, Drive, StopMotion, Release, Finish, Spots, Alive, Driving
  <2>2. pc' \in [Motions -> Spots]
    BY <2>1, GoesType
  <2>3. UNCHANGED program /\ slot' \in {slot, None} /\ wheels' \in {wheels, None, m}
    BY <1>8 DEF Motion, Test, Wake, Fail, Look, Drive, StopMotion, Release, Finish, events, robot
  <2> QED
    BY <2>2, <2>3 DEF program
<1> QED
  BY <1>1, <1>2, <1>3, <1>4, <1>5, <1>6, <1>7, <1>8 DEF Next, Cancelling

LEMMA FlagsStep == TypeOK /\ [Next]_vars => Flags'
<1> SUFFICES ASSUME Flags, [Next]_vars PROVE Flags'
  BY Parts
<1> USE DEF Flags
<1>1. CASE CancelHandle \/ StopWheels \/ Report \/ UNCHANGED vars
  BY <1>1, Zenon DEF CancelHandle, StopWheels, Report, vars, program, events, threads, robot
<1>2. CASE CallCancel \/ CallShutdown \/ Interrupt
  BY <1>2, Zenon DEF CallCancel, CallShutdown, Interrupt, CancelMotion, threads, robot
<1>3. CASE TakeThread \/ Joined \/ SetVelocity
  BY <1>3, Zenon DEF TakeThread, Joined, SetVelocity, events, threads, robot
<1>4. CASE JoinTimesOut \/ JoinRaises \/ Rest \/ Disable
  BY <1>4, Zenon DEF JoinTimesOut, JoinRaises, Rest, Disable, events, threads, robot
<1>5. CASE Claim \/ Launch
  BY <1>5, Zenon DEF Claim, Launch, events, threads, robot
<1>6. ASSUME NEW m \in Motions, Register(m) PROVE Flags'
  BY <1>6, Zenon DEF Register
<1>7. ASSUME NEW m \in Motions, Motion(m) PROVE Flags'
  <2>1. CASE Test(m) \/ Wake(m) \/ Fail(m)
    BY <2>1, Zenon DEF Test, Wake, Fail, program, events, robot
  <2>2. CASE Look(m)
    <3>1. (~reported) \in BOOLEAN
      OBVIOUS
    <3>2. enable' \in [Motions -> BOOLEAN]
      BY <2>2, <3>1 DEF Look
    <3> QED
      BY <2>2, <3>2, Zenon DEF Look, program, events, robot
  <2>3. CASE Drive(m)
    <3>1. enable' \in [Motions -> BOOLEAN]
      BY <2>3 DEF Drive
    <3>2. powered' \in BOOLEAN
      BY <2>3, Zenon DEF Drive
    <3> QED
      BY <2>3, <3>1, <3>2, Zenon DEF Drive, program, events
  <2>4. CASE StopMotion(m) \/ Release(m) \/ Finish(m)
    BY <2>4, Zenon DEF StopMotion, Release, Finish, program, events, robot
  <2> QED
    BY <1>7, <2>1, <2>2, <2>3, <2>4 DEF Motion
<1> QED
  BY <1>1, <1>2, <1>3, <1>4, <1>5, <1>6, <1>7 DEF Next, Cancelling

LEMMA TypeStep == TypeOK /\ Stands /\ [Next]_vars => TypeOK'
<1>1. Places' /\ Flags' => TypeOK'
  BY DEF TypeOK, Places, Flags, Spots
<1> QED
  BY <1>1, PlacesStep, FlagsStep

LEMMA GoesFacts ==
  ASSUME TypeOK, NEW m \in Motions, NEW from, NEW to, Goes(m, from, to)
  PROVE  pc[m] = from /\ pc'[m] = to /\ \A n \in Motions \ {m} : pc'[n] = pc[n]
  BY DEF Goes, TypeOK

LEMMA RunningFacts ==
  /\ Running = {"test", "look", "drive", "sleep", "stop", "release"}
  /\ \A s \in Running : s \in Alive /\ s # "created"
  /\ "finish" \in Alive
  BY DEF Running, Alive, Driving

\* How one step of a motion thread moves its control and the slot.
LEMMA MotionControl ==
  ASSUME TypeOK, NEW m \in Motions, Motion(m)
  PROVE  /\ UNCHANGED program
         /\ \A n \in Motions \ {m} : pc'[n] = pc[n]
         /\ \/ pc[m] \in Running /\ pc'[m] \in Running /\ slot' = slot
            \/ pc[m] \in Running /\ pc'[m] = "finish" /\ (slot = m => slot' = None) /\ (slot # m => slot' = slot)
            \/ pc[m] = "finish" /\ pc'[m] = "dead" /\ slot' = slot
<1> USE RunningFacts, GoesFacts
<1>1. CASE Test(m) \/ Wake(m) \/ Fail(m)
  BY <1>1 DEF Test, Wake, Fail, AfterFailure, events
<1>2. CASE Look(m) \/ Drive(m) \/ StopMotion(m)
  BY <1>2 DEF Look, Drive, StopMotion, events
<1>3. CASE Release(m) \/ Finish(m)
  BY <1>3 DEF Release, Finish
<1> QED
  BY <1>1, <1>2, <1>3 DEF Motion

LEMMA OwnedStep == TypeOK /\ Owned /\ Stands /\ [Next]_vars => Owned'
<1> SUFFICES ASSUME TypeOK, Owned, Stands, [Next]_vars PROVE Owned'
  OBVIOUS
<1>1. CASE UNCHANGED <<pc, slot>>
  BY <1>1 DEF Owned
<1>2. ASSUME NEW m \in Motions, Register(m) PROVE Owned'
  BY <1>2 DEF Register, Owned, Stands, Quiet, TypeOK, Running, Alive, Driving
<1>3. CASE Launch
  BY <1>3 DEF Launch, Owned, Stands, TypeOK, events
<1>4. CASE Joined
  <2>1. UNCHANGED pc
    BY <1>4 DEF Joined, threads
  <2>2. ASSUME NEW m \in Motions, pc[m] \in Running PROVE slot' = m
    BY <1>4, <2>2 DEF Joined, Ended, Owned, Running, Alive, Driving
  <2> QED
    BY <2>1, <2>2 DEF Owned
<1>5. ASSUME NEW m \in Motions, Motion(m) PROVE Owned'
  <2> SUFFICES ASSUME NEW n \in Motions, pc'[n] \in Running PROVE slot' = n
    BY DEF Owned
  <2>1. "finish" \notin Running /\ "dead" \notin Running
    BY DEF Running, Alive, Driving
  <2> QED
    BY <1>5, <2>1, MotionControl DEF Owned
<1> QED
  BY <1>1, <1>2, <1>3, <1>4, <1>5
     DEF Next, Cancelling, CancelHandle, StopWheels, SetVelocity, Report, CallCancel, CallShutdown, Interrupt,
         CancelMotion, TakeThread, JoinTimesOut, JoinRaises, Rest, Disable, Claim, vars, events, threads

LEMMA StandsStep == TypeOK /\ Owned /\ Stands /\ [Next]_vars => Stands'
<1> SUFFICES ASSUME TypeOK, Owned, Stands, [Next]_vars PROVE Stands'
  OBVIOUS
<1>1. CASE UNCHANGED <<program, pc, slot>>
  BY <1>1 DEF Stands, Quiet, program
<1>2. CASE user' \in {"ready", "cancelling", "failed"}
  BY <1>2 DEF Stands
<1>3. CASE Claim
  <2>1. Quiet /\ UNCHANGED pc
    BY <1>3 DEF Claim, Moving, Owned, Quiet, Running, threads, TypeOK
  <2> QED
    BY <1>3, <2>1 DEF Claim, Stands, Quiet
<1>4. ASSUME NEW m \in Motions, Register(m) PROVE Stands'
  BY <1>4 DEF Register, Stands, TypeOK
<1>5. CASE TakeThread
  BY <1>5 DEF TakeThread, Stands, events
<1>6. CASE Joined
  <2>1. UNCHANGED pc /\ user' = after /\ after \in {"ready", "rest"}
    BY <1>6 DEF Joined, threads, TypeOK
  <2>2. Quiet
    BY <1>6 DEF Joined, Ended, Stands, Owned, Quiet, Running, Alive, Driving
  <2> QED
    BY <2>1, <2>2 DEF Stands, Quiet
<1>7. CASE JoinTimesOut
  BY <1>7 DEF JoinTimesOut, Stands, TypeOK
<1>8. CASE Rest \/ Disable
  BY <1>8 DEF Rest, Disable, Stands, Quiet, threads
<1>9. ASSUME NEW m \in Motions, Motion(m) PROVE Stands'
  <2>1. Quiet => Quiet'
    BY <1>9, MotionControl, RunningFacts DEF Quiet
  <2>2. UNCHANGED program /\ pc[m] # "created" /\ slot' \in {slot, None}
    BY <1>9, MotionControl, RunningFacts
  <2>3. \A n \in Motions : pc[n] = "created" => pc'[n] = "created"
    BY <1>9, <2>2, MotionControl
  <2>4. user = "registered" => slot' = slot
    BY <1>9, MotionControl, <2>2 DEF Stands, Owned
  <2> QED
    BY <2>1, <2>2, <2>3, <2>4 DEF Stands, program
<1>10. CASE SetVelocity \/ CallCancel \/ CallShutdown \/ Interrupt \/ Launch \/ JoinRaises
  BY <1>10, <1>2 DEF SetVelocity, CallCancel, CallShutdown, Interrupt, CancelMotion, Launch, JoinRaises
<1>11. CASE CancelHandle \/ StopWheels \/ Report \/ UNCHANGED vars
  BY <1>11, <1>1 DEF CancelHandle, StopWheels, Report, vars, events, threads
<1> QED
  BY <1>3, <1>4, <1>5, <1>6, <1>7, <1>8, <1>9, <1>10, <1>11 DEF Next, Cancelling

LEMMA RestedStep == TypeOK /\ Stands /\ Rested /\ [Next]_vars => Rested'
<1> SUFFICES ASSUME TypeOK, Stands, Rested, [Next]_vars PROVE Rested'
  OBVIOUS
<1>1. CASE UNCHANGED <<user, gaveUp, wheels, powered>>
  BY <1>1 DEF Rested
<1>2. CASE user' \notin {"disable", "off"}
  BY <1>2 DEF Rested
<1>3. CASE Rest
  BY <1>3 DEF Rest, Rested
<1>4. CASE Disable
  BY <1>4 DEF Disable, Rested
<1>5. CASE StopWheels
  BY <1>5 DEF StopWheels, Rested, program
<1>6. ASSUME NEW m \in Motions, Motion(m) PROVE Rested'
  <2>1. CASE Drive(m)
    <3>1. UNCHANGED program /\ ~Quiet
      BY <2>1 DEF Drive, Goes, Quiet, Running, Alive, Driving
    <3> QED
      BY <3>1 DEF Stands, Rested, program
  <2>2. CASE StopMotion(m)
    BY <2>2 DEF StopMotion, Rested, program
  <2> QED
    BY <1>1, <1>6, <2>1, <2>2 DEF Motion, Test, Look, Wake, Fail, Release, Finish, program, robot
<1>7. CASE Joined \/ JoinTimesOut
  BY <1>2, <1>7 DEF Joined, JoinTimesOut, TypeOK
<1>8. CASE CancelHandle \/ Report \/ UNCHANGED vars
  BY <1>1, <1>8 DEF CancelHandle, Report, vars, program, robot
<1>9. CASE Claim \/ Launch \/ SetVelocity \/ CallCancel \/ CallShutdown \/ Interrupt \/ TakeThread \/ JoinRaises
  BY <1>2, <1>9 DEF Claim, Launch, SetVelocity, CallCancel, CallShutdown, Interrupt, CancelMotion, TakeThread, JoinRaises
<1>10. ASSUME NEW m \in Motions, Register(m) PROVE Rested'
  BY <1>2, <1>10 DEF Register
<1> QED
  BY <1>3, <1>4, <1>5, <1>6, <1>7, <1>8, <1>9, <1>10 DEF Next, Cancelling

LEMMA LeavesStep == TypeOK /\ Stands /\ LeavesNothing /\ [Next]_vars => LeavesNothing'
<1> DEFINE Wheels == wheels \in Motions => pc[wheels] \in {"test", "look", "drive", "sleep", "stop"}
           Target == target => \E m \in Motions : pc[m] \in Alive \ {"finish"}
<1> SUFFICES ASSUME TypeOK, Stands, Wheels, Target, [Next]_vars PROVE Wheels' /\ Target'
  BY DEF LeavesNothing
<1>1. CASE UNCHANGED <<pc, target>> /\ wheels' \in {wheels, None, Program}
  BY <1>1
<1>2. ASSUME NEW m \in Motions, Register(m) PROVE Wheels' /\ Target'
  BY <1>2 DEF Register, TypeOK
<1>3. CASE Launch
  BY <1>3 DEF Launch, Stands, TypeOK, robot, Alive, Driving
<1>4. ASSUME NEW m \in Motions, Motion(m) PROVE Wheels' /\ Target'
  <2> USE DEF TypeOK, Goes, Alive, Driving
  <2>1. CASE Test(m)
    BY <2>1 DEF Test
  <2>2. CASE Look(m) \/ Wake(m) \/ Fail(m)
    BY <2>2 DEF Look, Wake, Fail, AfterFailure, robot
  <2>3. CASE Drive(m)
    BY <2>3 DEF Drive
  <2>4. CASE StopMotion(m)
    BY <2>4 DEF StopMotion
  <2>5. CASE Release(m)
    BY <2>5 DEF Release
  <2>6. CASE Finish(m)
    BY <2>6 DEF Finish, robot
  <2> QED
    BY <1>4, <2>1, <2>2, <2>3, <2>4, <2>5, <2>6 DEF Motion
<1> QED
  BY <1>1, <1>2, <1>3, <1>4
     DEF Next, Cancelling, CancelHandle, StopWheels, SetVelocity, Report, CallCancel, CallShutdown, Interrupt, Joined,
         CancelMotion, TakeThread, JoinTimesOut, JoinRaises, Rest, Disable, Claim, vars, threads, robot

THEOREM InvHolds == Spec => []Inv
<1>1. Inv /\ [Next]_vars => Inv'
  BY TypeStep, OwnedStep, StandsStep, RestedStep, LeavesStep DEF Inv
<1> QED
  BY InitInv, <1>1, PTL DEF Spec

-----------------------------------------------------------------------------

\* The variables keep their types, for any set of motions.
THEOREM Types == Spec => []TypeOK
  BY InvHolds, PTL DEF Inv

\* _start_nav never lets a second motion run beside the first.
THEOREM OneAtATime == Spec => []OneMotion
<1>1. Inv => OneMotion
  BY DEF Inv, Owned, OneMotion, Running
<1> QED
  BY InvHolds, <1>1, PTL

\* A motion that has released the slot left no velocity and no target behind.
THEOREM NothingLeft == Spec => []LeavesNothing
  BY InvHolds, PTL DEF Inv

\* shutdown() leaves the drive motors stopped and disabled.
THEOREM ShutdownRests == Spec => []ShutdownDisables
<1>1. Inv => ShutdownDisables
  BY DEF Inv, Rested, ShutdownDisables
<1> QED
  BY InvHolds, <1>1, PTL

-----------------------------------------------------------------------------
(* A program that waits for is_finished(): no thread but the last one started *)
(* is about, so nobody else sets the event its handle polls.                  *)

Latest == \A m \in Motions : pc[m] \notin {"new", "dead"} => m = handle

FinishedInv ==
    /\ Latest
    /\ user = "claimed" => ~done /\ \A m \in Motions : pc[m] \in {"new", "dead"}
    /\ handle # None /\ done => pc[handle] = "dead"

LEMMA FinishedInit == Init => FinishedInv
  BY DEF Init, FinishedInv, Latest

LEMMA FinishedStep ==
  ASSUME Patient PROVE TypeOK /\ Stands /\ FinishedInv /\ [Next]_vars => FinishedInv'
<1> SUFFICES ASSUME TypeOK, Stands, FinishedInv, [Next]_vars PROVE FinishedInv'
  OBVIOUS
<1>1. CASE UNCHANGED <<handle, done, pc>> /\ user' \in {user, "ready", "cancelling", "joining", "failed", "rest", "disable", "off"}
  BY <1>1 DEF FinishedInv, Latest
<1>2. CASE Claim
  <2>1. handle = None \/ pc[handle] = "dead"
    BY <1>2 DEF Claim, FinishedInv
  <2>2. \A m \in Motions : pc[m] \in {"new", "dead"}
    BY <2>1 DEF FinishedInv, Latest
  <2> QED
    BY <1>2, <2>2 DEF Claim, FinishedInv, Latest, threads
<1>3. ASSUME NEW m \in Motions, Register(m) PROVE FinishedInv'
  BY <1>3 DEF Register, FinishedInv, Latest, TypeOK
<1>4. CASE Launch
  BY <1>4 DEF Launch, FinishedInv, Latest, Stands, TypeOK, events
<1>5. ASSUME NEW m \in Motions, Motion(m) PROVE FinishedInv'
  <2>1. m = handle /\ UNCHANGED program /\ user # "claimed"
    BY <1>5, MotionControl, RunningFacts DEF FinishedInv, Latest, program
  <2>2. Latest'
    BY <1>5, <2>1, MotionControl DEF FinishedInv, Latest, program
  <2>3. CASE Finish(m)
    BY <2>1, <2>2, <2>3, GoesFacts DEF Finish, FinishedInv, program
  <2>4. CASE ~Finish(m)
    <3>1. UNCHANGED done
      BY <1>5, <2>4 DEF Motion, Test, Look, Drive, Wake, Fail, StopMotion, Release, events
    <3>2. pc[m] # "dead"
      BY <1>5, MotionControl, RunningFacts
    <3> QED
      BY <2>1, <2>2, <3>1, <3>2 DEF FinishedInv, program
  <2> QED
    BY <2>3, <2>4
<1>6. CASE Joined \/ JoinTimesOut
  BY <1>1, <1>6 DEF Joined, JoinTimesOut, TypeOK, events, threads
<1> QED
  BY <1>1, <1>2, <1>3, <1>4, <1>5, <1>6
     DEF Next, Cancelling, CancelHandle, StopWheels, SetVelocity, Report, CallCancel, CallShutdown, Interrupt,
         CancelMotion, TakeThread, JoinRaises, Rest, Disable, vars, events, threads, program

\* MotionHandle's completion contract holds for a program that starts a motion
\* only once is_finished() has returned True for the one before.
THEOREM FinishedContract == Patient /\ Spec => []FinishedMeansReleased
<1> SUFFICES ASSUME Patient PROVE Spec => []FinishedMeansReleased
  OBVIOUS
<1>1. Inv /\ FinishedInv /\ [Next]_vars => FinishedInv'
  BY FinishedStep DEF Inv
<1>2. FinishedInv => FinishedMeansReleased
  BY DEF FinishedInv, FinishedMeansReleased
<1> QED
  BY InvHolds, FinishedInit, <1>1, <1>2, PTL DEF Spec
-----------------------------------------------------------------------------
(* Why a cancelled motion ends, short of the fairness of its thread.          *)

\* The thread is past its loop, or will leave it at its next test of the event.
Leaving(m) == pc[m] \in Alive /\ (cancel \/ pc[m] \notin Driving)

\* The steps such a thread has left, at most.
StepsToEnd(p) ==
    CASE p = "look" -> 6 [] p = "drive" -> 5 [] p \in {"sleep", "test"} -> 4
      [] p = "stop" -> 3 [] p = "release" -> 2 [] p = "finish" -> 1 [] p = "dead" -> 0

\* It stays so until it has ended, each of its steps brings it closer, and no
\* step of another thread moves it.
WindsUp ==
    \A m \in Motions : Leaving(m) =>
        /\ Leaving(m)' \/ pc'[m] = "dead"
        /\ Motion(m) => StepsToEnd(pc'[m]) < StepsToEnd(pc[m])
        /\ ~Motion(m) => pc'[m] = pc[m]

\* The program withdraws the event only when no thread is in its loop.
LEMMA CancelKept ==
  ASSUME TypeOK, Owned, Stands, Next, NEW m \in Motions, pc[m] \in Running, cancel
  PROVE  cancel'
<1>1. CASE Claim
  BY <1>1, RunningFacts DEF Claim, Moving, Owned, TypeOK
<1>2. CASE Joined
  BY <1>2, RunningFacts DEF Joined, Ended, Stands, Owned
<1>3. CASE CallCancel \/ CallShutdown \/ Interrupt \/ CancelHandle
  BY <1>3, Zenon DEF CallCancel, CallShutdown, Interrupt, CancelMotion, CancelHandle
<1>4. ASSUME NEW n \in Motions, Motion(n) PROVE cancel'
  BY <1>4, Zenon DEF Motion, Test, Look, Drive, Wake, Fail, StopMotion, Release, Finish, events
<1>5. ASSUME NEW n \in Motions, Register(n) PROVE cancel'
  BY <1>5, Zenon DEF Register
<1>6. CASE Launch \/ SetVelocity \/ StopWheels \/ TakeThread \/ JoinTimesOut \/ JoinRaises \/ Rest \/ Disable \/ Report
  BY <1>6, Zenon DEF Launch, SetVelocity, StopWheels, TakeThread, JoinTimesOut, JoinRaises, Rest, Disable,
       Report, events
<1> QED
  BY <1>1, <1>2, <1>3, <1>4, <1>5, <1>6 DEF Next, Cancelling

\* A motion's own steps, once it is to end.
LEMMA EndsSooner ==
  ASSUME TypeOK, NEW m \in Motions, Motion(m), Leaving(m)
  PROVE  StepsToEnd(pc'[m]) < StepsToEnd(pc[m]) /\ pc'[m] \in Alive \cup {"dead"}
<1> USE GoesFacts DEF StepsToEnd, Alive, Driving
<1>1. CASE Test(m)
  <2>1. pc[m] = "test" /\ cancel
    BY <1>1, Zenon DEF Test, Goes, Leaving
  <2>2. Goes(m, "test", "stop")
    BY <1>1, <2>1, Zenon DEF Test, Cancelled
  <2> QED
    BY <2>2
<1>2. CASE Wake(m)
  BY <1>2 DEF Wake, Leaving, Cancelled
<1>3. CASE Look(m) \/ Drive(m) \/ Fail(m)
  BY <1>3 DEF Look, Drive, Fail, AfterFailure
<1>4. CASE StopMotion(m) \/ Release(m) \/ Finish(m)
  BY <1>4 DEF StopMotion, Release, Finish
<1> QED
  BY <1>1, <1>2, <1>3, <1>4 DEF Motion

\* No step but its own moves a running thread.
LEMMA OthersLeave ==
  ASSUME TypeOK, Stands, [Next]_vars, NEW m \in Motions, pc[m] \in Alive, ~Motion(m)
  PROVE  pc'[m] = pc[m]
<1>0. pc[m] \notin {"new", "created"}
  BY DEF Alive, Driving
<1>1. CASE Launch
  BY <1>0, <1>1 DEF Launch, Stands, TypeOK
<1>2. ASSUME NEW n \in Motions, Register(n) PROVE pc'[m] = pc[m]
  BY <1>0, <1>2 DEF Register, TypeOK
<1>3. ASSUME NEW n \in Motions, Motion(n) PROVE pc'[m] = pc[m]
  BY <1>3, MotionControl
<1> QED
  BY <1>1, <1>2, <1>3
     DEF Next, Cancelling, CancelHandle, StopWheels, SetVelocity, Report, CallCancel, CallShutdown, Interrupt,
         CancelMotion, Claim, TakeThread, Joined, JoinTimesOut, JoinRaises, Rest, Disable, vars, threads

\* A cancelled motion is on its way out, in six steps of its own at most, wherever
\* it was and whatever the program does meanwhile: nothing it calls withdraws the
\* cancellation from a thread that is still in its loop (cancel_motion and
\* _start_nav both clear _nav_cancel).
THEOREM CancelledWindUp == Spec => [][WindsUp]_vars
<1>1. ASSUME Inv, Next PROVE WindsUp
  <2> SUFFICES ASSUME NEW m \in Motions, Leaving(m)
               PROVE  /\ Leaving(m)' \/ pc'[m] = "dead"
                      /\ Motion(m) => StepsToEnd(pc'[m]) < StepsToEnd(pc[m])
                      /\ ~Motion(m) => pc'[m] = pc[m]
    BY DEF WindsUp
  <2>1. TypeOK /\ Owned /\ Stands
    BY <1>1 DEF Inv
  <2>2. Motion(m) => StepsToEnd(pc'[m]) < StepsToEnd(pc[m])
    BY <2>1, EndsSooner
  <2>3. ~Motion(m) => pc'[m] = pc[m]
    BY <1>1, <2>1, OthersLeave DEF Leaving
  <2>4. pc'[m] \in Alive \/ pc'[m] = "dead"
    BY <2>1, <2>3, EndsSooner DEF Leaving
  <2>5. CASE pc[m] \in Running /\ cancel
    <3>1. cancel'
      BY <1>1, <2>1, <2>5, CancelKept
    <3> QED
      BY <2>2, <2>3, <2>4, <3>1 DEF Leaving
  <2>6. CASE pc[m] \notin Driving
    <3>1. Motion(m) => pc'[m] \notin Driving
      <4>1. pc[m] \in {"stop", "release", "finish"}
        BY <2>6 DEF Leaving, Alive
      <4>2. Motion(m) => pc'[m] \in {"release", "finish", "dead"}
        <5>1. Motion(m) => StopMotion(m) \/ Release(m) \/ Finish(m)
          BY <4>1 DEF Motion, Test, Look, Drive, Wake, Fail, Goes
        <5> QED
          BY <2>1, <5>1, GoesFacts DEF StopMotion, Release, Finish
      <4> QED
        BY <4>2 DEF Driving
    <3> QED
      BY <2>2, <2>3, <2>4, <2>6, <3>1 DEF Leaving
  <2> QED
    BY <2>5, <2>6 DEF Leaving, Running, Alive, Driving
<1>2. Inv /\ [Next]_vars => [WindsUp]_vars
  BY <1>1
<1> QED
  BY InvHolds, <1>2, PTL DEF Spec
=============================================================================
