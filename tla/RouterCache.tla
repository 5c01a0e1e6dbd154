---------------------------- MODULE RouterCache ----------------------------
(***************************************************************************)
(* The bridge's mirror of what the firmware only says when asked: the      *)
(* snapshots cached by message_router.py and the queue of the requests that*)
(* fill it (the bootstrap).  A mirror is a record:                         *)
(*   queue    _bootstrap_queue                                             *)
(*   recent   less than a second since _last_bootstrap_request_time        *)
(*   known    _last_uptime_ms is not None                                  *)
(*   cache    snapshots held                                               *)
(*   old      history: those of them that the firmware gave before a reset *)
(*   skipped  history: the last request for a bootstrap was ignored        *)
(*   lost     history: since the last one that was not, a request or an    *)
(*            answer was lost, or the snapshots were forgotten             *)
(***************************************************************************)
EXTENDS Integers, Sequences

CONSTANTS
  Order,   (* the snapshots, in the order in which they are requested       *)
  Polled,  (* those that poll_runtime_queries() asks for until it has them  *)
  Batch    (* max_commands of flush_bootstrap()                             *)

Items == {Order[n] : n \in DOMAIN Order}

ASSUME OrderAssumption == Order \in Seq(Items) /\ Order # <<>> /\ Polled \subseteq Items
ASSUME BatchAssumption == Batch \in Nat \ {0}

Mirrors == [queue : {SubSeq(Order, n, Len(Order)) : n \in 1..(Len(Order) + 1)},
            recent : BOOLEAN, known : BOOLEAN,
            cache : SUBSET Items, old : SUBSET Items, skipped : BOOLEAN, lost : BOOLEAN]

EmptyMirror == [queue |-> <<>>, recent |-> FALSE, known |-> FALSE,
                cache |-> {}, old |-> {}, skipped |-> FALSE, lost |-> FALSE]

-----------------------------------------------------------------------------
(* Faulty variants *)
Mut_WasReset(m, reset) == ~m.known
Mut_Flushed(m) == [m EXCEPT !.queue = <<>>]

-----------------------------------------------------------------------------
(* _invalidate_bootstrap_cache() and _invalidate_runtime_cache() *)
Forgotten(m) == [m EXCEPT !.cache = {}, !.old = {}]
Unknown(m) == [m EXCEPT !.known = FALSE]

(* _request_bootstrap(): a request soon after another that is not yet done *)
(* is ignored                                                              *)
Requested(m) ==
  IF m.recent /\ m.queue # <<>>
  THEN [m EXCEPT !.skipped = TRUE]
  ELSE [Forgotten(m) EXCEPT !.queue = Order, !.recent = TRUE, !.skipped = FALSE, !.lost = FALSE]

(* flush_bootstrap(): what it sends, and what is left *)
First(m) == SubSeq(m.queue, 1, IF Len(m.queue) < Batch THEN Len(m.queue) ELSE Batch)
Flushed(m) == [m EXCEPT !.queue = SubSeq(m.queue, Len(First(m)) + 1, Len(m.queue))]

(* handle_transport_connection_change(True), before it flushes; and (False)*)
LinkUp(m) == Requested(Unknown(m))
LinkDown(m) == [Forgotten(Unknown(m)) EXCEPT !.lost = TRUE]

(* _decode_sys_state(): the first one, or an uptime that went back *)
WasReset(m, reset) == ~m.known \/ reset

(* A snapshot is received *)
Cached(m, item) == [m EXCEPT !.cache = m.cache \union {item}, !.old = m.old \ {item}]
=============================================================================
