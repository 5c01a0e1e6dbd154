--------------------- MODULE FirmwareStateService_proofs ---------------------
(***************************************************************************)
(* Proofs about the service /set_firmware_state, for queues of any length. *)
(***************************************************************************)
EXTENDS FirmwareStateService, TLAPS

(* While a call is served its plan is the one made for its states.         *)
Planned ==
  phase # "free" => command = Command(basis, target) /\ command # "none" /\ basis # target

(* Without a thread of its own telemetry stands still during a call.       *)
Blind == ~concurrent /\ phase # "free" => latest = basis

Inv == TypeOK /\ Planned /\ Blind /\ NoLostWakeup

(* The bridge's table against the firmware's: each command planned is      *)
(* obeyed in the state it is planned for and leads to the one asked for.   *)
LEMMA TablesAgree ==
  ASSUME NEW cur \in States, NEW tgt \in States, Command(cur, tgt) # "none", cur # tgt
  PROVE  /\ Command(cur, tgt) \in SysCmds
         /\ Allowed(cur, Target(Command(cur, tgt))) /\ Target(Command(cur, tgt)) = tgt
         /\ {cur, tgt} \subseteq MayPass(cur, tgt)
<1>1. CASE tgt = "ESTOP"
  BY <1>1 DEF Command, MayPass, Allowed, Target, States, SysCmds
<1>2. CASE tgt = "RUNNING" /\ cur = "IDLE"
  BY <1>2 DEF Command, MayPass, Allowed, Target, States, SysCmds
<1>3. CASE tgt = "IDLE" /\ cur = "RUNNING"
  BY <1>3 DEF Command, MayPass, Allowed, Target, States, SysCmds
<1>4. CASE tgt = "IDLE" /\ cur \in {"ERROR", "ESTOP"}
  BY <1>4 DEF Command, MayPass, Allowed, Target, States, SysCmds
<1> QED
  BY <1>1, <1>2, <1>3, <1>4 DEF Command

LEMMA VerdictType == Verdict \in Answers \union {"none"}
  BY DEF Verdict, Answers

LEMMA CommandType ==
  ASSUME NEW cur, NEW tgt
  PROVE  Command(cur, tgt) \in SysCmds \union {"none"}
  BY DEF Command, SysCmds

LEMMA InitInv == Init => Inv
<1> SUFFICES ASSUME Init PROVE Inv
  OBVIOUS
<1>1. <<>> \in Seq(SysCmds) /\ <<>> \in Seq(States)
  OBVIOUS
<1>2. TypeOK
  BY <1>1 DEF Init, TypeOK, States
<1>3. Planned /\ Blind /\ NoLostWakeup
  BY DEF Init, Planned, Blind, NoLostWakeup
<1> QED
  BY <1>2, <1>3 DEF Inv

LEMMA TypeStep == TypeOK /\ Planned /\ [Next]_vars => TypeOK'
<1> SUFFICES ASSUME TypeOK, Planned, [Next]_vars PROVE TypeOK'
  OBVIOUS
<1> USE DEF TypeOK
<1>1. CASE Boot \/ Fault
  BY <1>1 DEF Boot, Fault, States, planVars, waitVars
<1>11. CASE LoseCommand
  BY <1>11 DEF LoseCommand, planVars, waitVars
<1>2. CASE Obey
  <2>1. Head(commands) \in SysCmds /\ Tail(commands) \in Seq(SysCmds)
    BY <1>2 DEF Obey
  <2>2. Target(Head(commands)) \in States
    BY DEF Target, States
  <2> QED
    BY <1>2, <2>1, <2>2 DEF Obey, planVars, waitVars
<1>3. CASE Stream
  BY <1>3 DEF Stream, planVars, waitVars
<1>4. ASSUME NEW cmd \in OtherCmds, OtherClient(cmd) PROVE TypeOK'
  BY <1>4, OtherAssumption DEF OtherClient, planVars, waitVars
<1>5. CASE Observe
  BY <1>5 DEF Observe, Notified, planVars
<1>6. ASSUME NEW tgt \in States, Request(tgt) PROVE TypeOK'
  <2>1. CASE latest = "none" \/ latest = tgt \/ Command(latest, tgt) = "none"
    BY <1>6, <2>1 DEF Request, Answers, linkVars
  <2>2. CASE ~(latest = "none" \/ latest = tgt \/ Command(latest, tgt) = "none")
    BY <1>6, <2>2, CommandType DEF Request, linkVars
  <2> QED
    BY <2>1, <2>2
<1>7. CASE Send
  <2>1. command \in SysCmds
    BY <1>7 DEF Send, Planned
  <2>2. Append(commands, command) \in Seq(SysCmds)
    BY <2>1
  <2> QED
    BY <1>7, <2>2 DEF Send, planVars
<1>8. CASE SendFails \/ Expire
  BY <1>8 DEF SendFails, Expire, Answers, linkVars, planVars
<1>9. CASE Look
  BY <1>9, VerdictType DEF Look, linkVars, planVars
<1>10. CASE UNCHANGED vars
  BY <1>10 DEF vars, linkVars, planVars, waitVars
<1> QED
  BY <1>1, <1>2, <1>3, <1>4, <1>5, <1>6, <1>7, <1>8, <1>9, <1>10, <1>11 DEF Next, Link, Coordinator

(* The plan of a call stands until the call is answered.                   *)
LEMMA PlanStep == TypeOK /\ Planned /\ Blind /\ [Next]_vars => Planned' /\ Blind'
<1> SUFFICES ASSUME TypeOK, Planned, Blind, [Next]_vars PROVE Planned' /\ Blind'
  OBVIOUS
<1>1. CASE UNCHANGED <<concurrent, planVars, latest>> /\ (phase' # "free" => phase # "free")
  BY <1>1 DEF Planned, Blind, planVars
<1>2. CASE Observe
  <2>1. CASE phase = "free"
    BY <1>2, <2>1 DEF Observe, Planned, Blind
  <2>2. CASE phase # "free"
    BY <1>2, <2>2 DEF Observe, CanObserve, Planned, Blind, planVars
  <2> QED
    BY <2>1, <2>2
<1>3. ASSUME NEW tgt \in States, Request(tgt) PROVE Planned' /\ Blind'
  <2>1. CASE latest = "none" \/ latest = tgt \/ Command(latest, tgt) = "none"
    BY <1>3, <2>1 DEF Request, Planned, Blind
  <2>2. CASE ~(latest = "none" \/ latest = tgt \/ Command(latest, tgt) = "none")
    BY <1>3, <2>2 DEF Request, Planned, Blind
  <2> QED
    BY <2>1, <2>2
<1> QED
  <2> USE DEF planVars, waitVars, linkVars
  <2>1. CASE Link \/ UNCHANGED vars
    BY <1>1, <2>1 DEF Link, Boot, Obey, LoseCommand, Fault, Stream, OtherClient, vars
  <2>2. CASE Send \/ SendFails \/ Look \/ Expire
    BY <1>1, <2>2 DEF Send, SendFails, Look, Expire
  <2> QED
    BY <1>2, <1>3, <2>1, <2>2 DEF Next, Coordinator

(* A waiter with nothing to look at has no verdict.                        *)
LEMMA WakeStep == Inv /\ [Next]_vars => NoLostWakeup'
<1> SUFFICES ASSUME Inv, [Next]_vars PROVE NoLostWakeup'
  OBVIOUS
<1>0. NoLostWakeup
  BY DEF Inv
<1>1. CASE UNCHANGED <<latest, planVars, waitVars>>
  BY <1>0, <1>1 DEF NoLostWakeup, Verdict, planVars, waitVars
<1>2. CASE phase' # "waiting" \/ due' = TRUE
  BY <1>2 DEF NoLostWakeup
<1>3. CASE Look
  <2>1. CASE Verdict = "none"
    BY <1>3, <2>1 DEF Look, NoLostWakeup, Verdict, planVars
  <2>2. CASE Verdict # "none"
    BY <1>2, <1>3, <2>2 DEF Look
  <2> QED
    BY <2>1, <2>2
<1>4. ASSUME NEW tgt \in States, Request(tgt) PROVE NoLostWakeup'
  BY <1>2, <1>4 DEF Request
<1> QED
  <2>1. CASE Link \/ UNCHANGED vars
    BY <1>1, <2>1 DEF Link, Boot, Obey, LoseCommand, Fault, Stream, OtherClient, vars
  <2>2. CASE Observe
    BY <1>2, <2>2 DEF Observe, Notified
  <2>3. CASE Send \/ SendFails \/ Expire
    BY <1>2, <2>3 DEF Send, SendFails, Expire
  <2> QED
    BY <1>3, <1>4, <2>1, <2>2, <2>3 DEF Next, Coordinator

LEMMA InvHolds == Spec => []Inv
<1>1. Inv /\ [Next]_vars => Inv'
  BY TypeStep, PlanStep, WakeStep DEF Inv
<1> QED
  BY InitInv, <1>1, PTL DEF Spec

-----------------------------------------------------------------------------
(* The variables keep their types, whatever the length of the queues.      *)
THEOREM Types == Spec => []TypeOK
  BY InvHolds, PTL DEF Inv

(* The bridge never sends a command the firmware would refuse in the state *)
(* it was planned from, nor one that leads elsewhere.                      *)
THEOREM Agreement == Spec => []PlanAgrees
<1>1. Inv => PlanAgrees
  BY TablesAgree DEF Inv, TypeOK, Planned, PlanAgrees
<1> QED
  BY InvHolds, <1>1, PTL

(* No notification is lost between a look and the wait that follows it.    *)
THEOREM Wakeups == Spec => []NoLostWakeup
  BY InvHolds, PTL DEF Inv

(* In the node as it is wired what telemetry has shown cannot change while *)
(* a call waits, and no call that sends a command is answered SUCCESS.     *)
NoCommandSucceeds == [][~concurrent /\ phase = "waiting" => answer' # "SUCCESS"]_vars

(* The wiring of bridge_node.py: with the drain timer on the thread that   *)
(* waits, no request that needs a command ever succeeds; what violates     *)
(* ConfirmationIsRead is no race.                                          *)
THEOREM WiringBlocks == Spec => NoCommandSucceeds
<1> DEFINE Fails == ~concurrent /\ phase = "waiting" => answer' # "SUCCESS"
<1>1. ASSUME Inv, [Next]_vars PROVE [Fails]_vars
  <2>1. CASE ~concurrent /\ Look
    <3>1. latest = basis /\ basis # target
      BY <1>1, <2>1 DEF Inv, Blind, Planned, Look
    <3>2. Verdict # "SUCCESS"
      BY <3>1 DEF Verdict
    <3> QED
      BY <2>1, <3>2 DEF Look
  <2>2. CASE UNCHANGED vars
    BY <2>2
  <2>3. CASE answer' = "none"
    BY <2>3
  <2>4. CASE concurrent \/ phase # "waiting"
    BY <2>4
  <2> QED
    BY <1>1, <2>1, <2>2, <2>3, <2>4
       DEF Next, Link, Coordinator, Boot, Obey, LoseCommand, Fault, Stream, OtherClient, Observe,
           Request, Send, SendFails, Expire
<1> QED
  BY InvHolds, <1>1, PTL DEF Spec, NoCommandSucceeds

(* A timeout is reported only when telemetry has shown nothing better.     *)
THEOREM ConfirmationWins == Spec => ConfirmationBeatsDeadline
<1> DEFINE Wins == answer' = "TIMEOUT" => latest # target /\ latest \in MayPass(basis, target)
<1>1. ASSUME [Next]_vars PROVE [Wins]_vars
  <2>1. CASE Look
    BY <2>1 DEF Look, Verdict
  <2>2. CASE UNCHANGED vars
    BY <2>2
  <2>3. CASE answer' # "TIMEOUT"
    BY <2>3
  <2> QED
    BY <1>1, <2>1, <2>2, <2>3
       DEF Next, Link, Coordinator, Boot, Obey, LoseCommand, Fault, Stream, OtherClient, Observe,
           Request, Send, SendFails, Expire
<1> QED
  BY <1>1, PTL DEF Spec, ConfirmationBeatsDeadline

-----------------------------------------------------------------------------
(* What LatestFollows rests on besides the fairness.                       *)

(* The states streamed and not yet observed are s, but for the first k.    *)
UpToDate(s, k) == \A i \in DOMAIN stream : i > k => stream[i] = s

FollowsInTurn ==
  \A s \in States, k \in Nat :
    fw = s /\ fw' = s /\ UpToDate(s, k) =>
      /\ Observe /\ k > 0 => UpToDate(s, k - 1)'
      /\ Observe /\ k = 0 => latest' = s
      /\ ~Observe => UpToDate(s, k)'
      /\ k = 0 /\ latest = s => latest' = s

(* Every observation takes one stale state away, and nothing adds one:     *)
(* while the firmware stays in a state, as many observations as states were*)
(* under way bring _latest_state to it, and there it stays.                *)
THEOREM CatchesUp == Spec => [][FollowsInTurn]_vars
<1>1. ASSUME TypeOK, [Next]_vars PROVE [FollowsInTurn]_vars
  <2> SUFFICES ASSUME Next, NEW s \in States, NEW k \in Nat, fw = s, fw' = s, UpToDate(s, k)
               PROVE  /\ Observe /\ k > 0 => UpToDate(s, k - 1)'
                      /\ Observe /\ k = 0 => latest' = s
                      /\ ~Observe => UpToDate(s, k)'
                      /\ k = 0 /\ latest = s => latest' = s
    BY <1>1 DEF FollowsInTurn
  <2>0. stream \in Seq(States)
    BY <1>1 DEF TypeOK
  <2>1. CASE Observe
    <3>1. stream # <<>> /\ stream' = Tail(stream) /\ latest' = Head(stream)
      BY <2>1 DEF Observe
    <3>2. /\ Len(stream) > 0 /\ DOMAIN stream' = 1..(Len(stream) - 1)
          /\ \A i \in DOMAIN stream' : stream'[i] = stream[i + 1]
      BY <2>0, <3>1
    <3>3. DOMAIN stream = 1..Len(stream) /\ Len(stream) \in Nat
      BY <2>0
    <3>4. k > 0 => UpToDate(s, k - 1)'
      BY <3>2, <3>3 DEF UpToDate
    <3>5. k = 0 => latest' = s
      BY <3>1, <3>2, <3>3 DEF UpToDate
    <3> QED
      BY <2>1, <3>4, <3>5
  <2>2. CASE Stream
    <3>1. stream' = Append(stream, s) /\ latest' = latest
      BY <2>2 DEF Stream
    <3>2. UpToDate(s, k)'
      BY <2>0, <3>1 DEF UpToDate
    <3>3. ~Observe
      <4>1. Len(stream') = Len(stream) + 1
        BY <2>0, <3>1
      <4>2. Observe => Len(stream') = Len(stream) - 1
        BY <2>0 DEF Observe
      <4> QED
        BY <2>0, <4>1, <4>2
    <3> QED
      BY <3>1, <3>2, <3>3
  <2>3. CASE UNCHANGED <<stream, latest>>
    <3>1. ~Observe
      <4>1. Observe => Len(stream') = Len(stream) - 1
        BY <2>0 DEF Observe
      <4> QED
        BY <2>0, <2>3, <4>1
    <3> QED
      BY <2>3, <3>1 DEF UpToDate
  <2>4. ~Observe /\ ~Stream => UNCHANGED <<stream, latest>>
    BY DEF Next, Link, Coordinator, Boot, Obey, LoseCommand, Fault, OtherClient, Send, SendFails,
           Look, Expire, Request, linkVars
  <2> QED
    BY <2>1, <2>2, <2>3, <2>4
<1> QED
  BY Types, <1>1, PTL DEF Spec
=============================================================================
