----------------------------- MODULE SerialLink -----------------------------
(***************************************************************************)
(* The bridge's serial link: serial_manager.py's reader thread, heartbeat  *)
(* thread and run(), message_router.py's bootstrap and the task of         *)
(* runtime.py that flushes it, with an Arduino that may be unplugged, may  *)
(* be silent and may reset.                                                *)
(*                                                                         *)
(* run() and the task share the event loop, whose code is cut only where it*)
(* waits; a thread may come between any two steps, which are cut where the *)
(* threads share the port, the flags or the queue.  Time: `silent` and     *)
(* `since` say which timeouts have expired.                                *)
(***************************************************************************)
EXTENDS RouterCache, Functions

VARIABLES
  device,     (* "absent", "deaf" (booting, or not answering) or "live"     *)
  reset,      (* it was reset, and its uptime was not seen since            *)
  asked,      (* snapshots the firmware was asked for and will send         *)
  ser,        (* self.ser: "none", "open" or "broken": using it raises      *)
  connected,  (* self.connected                                             *)
  dataOk,     (* _arduino_data_ok                                           *)
  silent,     (* _last_valid_rx_time is older than ARDUINO_DATA_TIMEOUT     *)
  since,      (* _data_silent_since: "never", "recent", or "long" when      *)
              (* older than ARDUINO_RECONNECT_DELAY                         *)
  reader,     (* where the reader thread is                                 *)
  manager,    (* where run() is                                             *)
  beat,       (* where the heartbeat thread is                              *)
  query,      (* where the task that flushes and polls is                   *)
  mirror      (* the router's mirror                                        *)

deviceVars == <<device, reset, asked>>
linkVars == <<ser, connected, dataOk, silent, since>>
threadVars == <<reader, manager, beat, query>>
vars == <<deviceVars, linkVars, threadVars, mirror>>

Init ==
  /\ device = "deaf" /\ reset = FALSE /\ asked = {}
  /\ ser = "none" /\ connected = FALSE /\ dataOk = FALSE
  /\ silent = FALSE /\ since = "never"
  /\ reader = "top" /\ manager = "top" /\ beat = "top" /\ query = "top"
  /\ mirror = EmptyMirror

-----------------------------------------------------------------------------
(* Faulty variants *)
Mut_Overdue == FALSE
Mut_Drop == dataOk' = FALSE /\ silent' = FALSE /\ mirror' = LinkDown(mirror) /\ UNCHANGED connected

-----------------------------------------------------------------------------
(* What every failing use of the port does: connected and _arduino_data_ok *)
(* are cleared and the router is told                                      *)
Drop ==
  /\ connected' = FALSE /\ dataOk' = FALSE /\ silent' = FALSE
  /\ mirror' = LinkDown(mirror)

(* Requests that reach a firmware that listens; the others are lost *)
Reached(items) == IF connected /\ ser = "open" /\ device = "live" THEN items ELSE {}

(* ... is noted, for the properties *)
Lossy(m, items) == [m EXCEPT !.lost = m.lost \/ Reached(items) # items]

(* send() by the router of the requests for items, of which m is the mirror*)
Sent(m, items) ==
  IF connected /\ ser = "broken"
  THEN /\ connected' = FALSE /\ dataOk' = FALSE /\ silent' = FALSE
       /\ mirror' = LinkDown(m)
       /\ UNCHANGED asked
  ELSE /\ asked' = asked \union Reached(items)
       /\ mirror' = Lossy(m, items)
       /\ UNCHANGED <<connected, dataOk, silent>>

-----------------------------------------------------------------------------
(* The reader thread.                                                      *)

(* _try_connect(): the port is opened, or cannot be *)
Open ==
  /\ reader = "top" /\ ~connected
  /\ IF device = "absent" THEN UNCHANGED <<ser, reader>> ELSE ser' = "open" /\ reader' = "opened"
  /\ UNCHANGED <<deviceVars, connected, dataOk, silent, since, manager, beat, query, mirror>>

Opened ==
  /\ reader = "opened"
  /\ connected' = TRUE /\ dataOk' = FALSE /\ silent' = FALSE /\ since' = "recent"
  /\ reader' = "linked"
  /\ UNCHANGED <<deviceVars, ser, manager, beat, query, mirror>>

Linked ==
  /\ reader = "linked"
  /\ LET m == LinkUp(mirror) IN Sent(Flushed(m), Range(First(m)))
  /\ reader' = "top"
  /\ UNCHANGED <<device, reset, ser, since, manager, beat, query>>

(* It reads as long as it finds that it is connected *)
Read ==
  /\ reader = "top" /\ connected
  /\ reader' = "reading"
  /\ UNCHANGED <<deviceVars, linkVars, manager, beat, query, mirror>>

(* Between two reads the reader may find that it is disconnected *)
Stop ==
  /\ reader = "reading" /\ ~connected
  /\ reader' = "top"
  /\ UNCHANGED <<deviceVars, linkVars, manager, beat, query, mirror>>

(* _decode_callback(): the first frame after a silence asks for everything *)
(* again; an answer is cached, SYS_STATE may tell of a reset, and other     *)
(* telemetry is of no interest here.                                       *)
Resumed == IF dataOk THEN [m |-> mirror, items |-> {}]
           ELSE LET m == LinkUp(mirror) IN [m |-> Flushed(m), items |-> Range(First(m))]

Frame(Content(_, _)) ==
  /\ reader = "reading" /\ ser = "open" /\ device = "live"
  /\ dataOk' = TRUE /\ silent' = FALSE
  /\ since' = IF dataOk THEN since ELSE "never"
  /\ Content(Resumed.m, Resumed.items)
  /\ UNCHANGED <<device, ser, connected, threadVars>>

Answer(item) == Frame(LAMBDA m, items :
  /\ item \in asked
  /\ mirror' = Cached(Lossy(m, items), item)
  /\ asked' = (asked \ {item}) \union Reached(items)
  /\ UNCHANGED reset)

Stream == Frame(LAMBDA m, items :
  /\ mirror' = Lossy(m, items)
  /\ asked' = asked \union Reached(items)
  /\ UNCHANGED reset)

SysState == Frame(LAMBDA m, items :
  LET again == IF WasReset(m, reset) THEN Requested(m) ELSE m
      more == IF WasReset(m, reset) THEN Range(First(again)) ELSE {}
      left == IF WasReset(m, reset) THEN Flushed(again) ELSE m
  IN /\ mirror' = [Lossy(left, items \union more) EXCEPT !.known = TRUE]
     /\ asked' = asked \union Reached(items \union more)
     /\ reset' = FALSE)

(* read() raises: in two steps, the second closes the port *)
ReadFails ==
  /\ reader = "reading" /\ ser # "open"
  /\ Drop
  /\ reader' = "failed"
  /\ UNCHANGED <<deviceVars, ser, since, manager, beat, query>>

Close ==
  /\ reader = "failed"
  /\ ser' = "none" /\ reader' = "top"
  /\ UNCHANGED <<deviceVars, connected, dataOk, silent, since, manager, beat, query, mirror>>

-----------------------------------------------------------------------------
(* The heartbeat thread: send() checks, writes, and may have to clean up.  *)
Beat ==
  /\ beat = "top" /\ connected /\ ser # "none"
  /\ beat' = "writing"
  /\ UNCHANGED <<deviceVars, linkVars, reader, manager, query, mirror>>

Write ==
  /\ beat = "writing"
  /\ beat' = IF ser = "open" THEN "top" ELSE "raised"
  /\ UNCHANGED <<deviceVars, linkVars, reader, manager, query, mirror>>

Raised ==
  /\ beat = "raised"
  /\ Drop
  /\ beat' = "top"
  /\ UNCHANGED <<deviceVars, ser, since, reader, manager, query>>

-----------------------------------------------------------------------------
(* The event loop: run(), and the task that flushes and polls.             *)
Free == manager = "top" /\ query # "checked"

(* No valid frame for ARDUINO_DATA_TIMEOUT *)
Overdue == connected /\ dataOk /\ silent

Watch ==
  /\ Free /\ Overdue
  /\ manager' = "overdue"
  /\ UNCHANGED <<deviceVars, linkVars, reader, beat, query, mirror>>

GiveUpData ==
  /\ manager = "overdue"
  /\ dataOk' = FALSE /\ since' = "recent"
  /\ mirror' = LinkDown(mirror)
  /\ manager' = "top"
  /\ UNCHANGED <<deviceVars, ser, connected, silent, reader, beat, query>>

(* ... nor for ARDUINO_RECONNECT_DELAY: the port is closed in three steps, *)
(* and the reader opens it again                                           *)
Cut ==
  /\ Free /\ connected /\ ~dataOk /\ since = "long"
  /\ since' = "never" /\ connected' = FALSE
  /\ manager' = "cutting"
  /\ UNCHANGED <<deviceVars, ser, dataOk, silent, reader, beat, query, mirror>>

CutPort ==
  /\ manager = "cutting"
  /\ IF ser = "none" THEN manager' = "top" /\ UNCHANGED ser
                     ELSE manager' = "cut" /\ ser' = "broken"
  /\ UNCHANGED <<deviceVars, connected, dataOk, silent, since, reader, beat, query, mirror>>

CutDone ==
  /\ manager = "cut"
  /\ ser' = "none" /\ manager' = "top"
  /\ UNCHANGED <<deviceVars, connected, dataOk, silent, since, reader, beat, query, mirror>>

(* flush_bootstrap() looks at the queue, then pops; an exception ends the  *)
(* task for good                                                           *)
QueryCheck ==
  /\ Free /\ query = "top" /\ connected /\ mirror.queue # <<>>
  /\ query' = "checked"
  /\ UNCHANGED <<deviceVars, linkVars, reader, manager, beat, mirror>>

QueryPop ==
  /\ query = "checked" /\ mirror.queue # <<>>
  /\ Sent([mirror EXCEPT !.queue = Tail(mirror.queue)], {Head(mirror.queue)})
  /\ query' = "top"
  /\ UNCHANGED <<device, reset, ser, since, reader, manager, beat>>

QueryDies ==
  /\ query = "checked" /\ mirror.queue = <<>>
  /\ query' = "dead"
  /\ UNCHANGED <<deviceVars, linkVars, reader, manager, beat, mirror>>

QueryPoll ==
  /\ Free /\ query = "top" /\ connected
  /\ Sent(mirror, Polled \ mirror.cache)
  /\ UNCHANGED <<device, reset, ser, since, threadVars>>

-----------------------------------------------------------------------------
(* The device and the time.                                                *)

(* A timeout expires only while the device is not heard: half a second is  *)
(* long for the steps of a thread                                          *)
Quiet ==
  /\ device # "live"
  /\ \/ dataOk /\ ~silent /\ silent' = TRUE /\ UNCHANGED since
     \/ since = "recent" /\ since' = "long" /\ UNCHANGED silent
  /\ UNCHANGED <<deviceVars, ser, connected, dataOk, threadVars, mirror>>

(* A second since the last request for a bootstrap *)
Later ==
  /\ mirror.recent
  /\ mirror' = [mirror EXCEPT !.recent = FALSE]
  /\ UNCHANGED <<deviceVars, linkVars, threadVars>>

Listens ==
  /\ device = "deaf"
  /\ device' = "live"
  /\ UNCHANGED <<reset, asked, linkVars, threadVars, mirror>>

(* It is not heard for a while, because it resets or for another reason *)
Deafens ==
  /\ device = "live"
  /\ device' = "deaf" /\ asked' = {}
  /\ \/ mirror' = [mirror EXCEPT !.lost = mirror.lost \/ asked # {}] /\ UNCHANGED reset
     \/ mirror' = [mirror EXCEPT !.lost = TRUE, !.old = mirror.cache] /\ reset' = TRUE
  /\ UNCHANGED <<linkVars, threadVars>>

Unplug ==
  /\ device # "absent"
  /\ device' = "absent" /\ asked' = {}
  /\ ser' = IF ser = "open" THEN "broken" ELSE ser
  /\ mirror' = [mirror EXCEPT !.lost = mirror.lost \/ asked # {}]
  /\ UNCHANGED <<reset, connected, dataOk, silent, since, threadVars>>

Plug ==
  /\ device = "absent"
  /\ device' = "deaf"
  /\ UNCHANGED <<reset, asked, linkVars, threadVars, mirror>>

Reader == Open \/ Opened \/ Linked \/ Read \/ Stop \/ ReadFails \/ Close
Manager == Watch \/ GiveUpData \/ Cut \/ CutPort \/ CutDone

Next ==
  \/ Open \/ Opened \/ Linked \/ Read \/ Stop \/ SysState \/ Stream \/ ReadFails \/ Close
  \/ (\E item \in Items : Answer(item))
  \/ Beat \/ Write \/ Raised
  \/ Watch \/ GiveUpData \/ Cut \/ CutPort \/ CutDone
  \/ QueryCheck \/ QueryPop \/ QueryDies \/ QueryPoll
  \/ Quiet \/ Later \/ Listens \/ Deafens \/ Unplug \/ Plug

(* Threads are scheduled, the tasks of the event loop run periodically and *)
(* timeouts expire; a live device sends SYS_STATE again and again, and its *)
(* answers.                                                                *)
Fairness ==
  /\ WF_vars(Reader) /\ WF_vars(Manager) /\ WF_vars(Quiet) /\ WF_vars(Write \/ Raised)
  /\ WF_vars(SysState) /\ \A item \in Items : WF_vars(Answer(item))
  /\ WF_vars(QueryCheck) /\ WF_vars(QueryPop \/ QueryDies) /\ WF_vars(QueryPoll)

Spec == Init /\ [][Next]_vars /\ Fairness

-----------------------------------------------------------------------------
(* Properties.                                                             *)

(* Every variable keeps its type. *)
TypeOK ==
  /\ device \in {"absent", "deaf", "live"} /\ reset \in BOOLEAN /\ asked \subseteq Items
  /\ ser \in {"none", "open", "broken"}
  /\ connected \in BOOLEAN /\ dataOk \in BOOLEAN /\ silent \in BOOLEAN
  /\ since \in {"never", "recent", "long"}
  /\ reader \in {"top", "opened", "linked", "reading", "failed"}
  /\ manager \in {"top", "overdue", "cutting", "cut"}
  /\ beat \in {"top", "writing", "raised"} /\ query \in {"top", "checked", "dead"}
  /\ mirror \in Mirrors

(* Whatever the threads did to the port and to each other's flags, a device*)
(* that stays live is connected in the end, for good.                      *)
Healthy == connected /\ dataOk /\ ser = "open"
LinkRecovers == <>[](device = "live") => <>[]Healthy

(* What _broadcast_stats() tells: a device that is silent for good is shown*)
(* as disconnected in the end.                                             *)
SilenceIsSeen == <>[](device # "live") => <>[]~(connected /\ dataOk)

(* Once the link is up for good, the snapshots that are polled are cached  *)
(* in the end, unless the task that asks for them died; and the others too,*)
(* unless a request or an answer was lost, or what was cached forgotten,   *)
(* and the router was not made to ask for everything again.                *)
CacheFills ==
  <>[](device = "live") =>
     <>[](\/ query = "dead"
          \/ mirror.cache = Items
          \/ Polled \subseteq mirror.cache /\ mirror.lost)

(* When SYS_STATE has shown a reset, no snapshot of before the reset is    *)
(* kept, unless a request for a bootstrap was ignored.                     *)
FreshAfterReset == ~reset => mirror.old = {} \/ mirror.skipped
=============================================================================
