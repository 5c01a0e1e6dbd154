------------------------- MODULE SerialLink_proofs -------------------------
(* Proofs about the bridge's serial link, for any list of snapshots.          *)
EXTENDS SerialLink, SequenceTheorems, TLAPS

Suffixes == {SubSeq(Order, n, Len(Order)) : n \in 1..(Len(Order) + 1)}

LEMMA OrderFacts == Order \in Seq(Items) /\ Len(Order) \in Nat /\ Len(Order) >= 1
  BY OrderAssumption, SMT

LEMMA SuffixSeq ==
  ASSUME NEW q \in Suffixes
  PROVE  q \in Seq(Items)
<1>1. PICK n \in 1..(Len(Order) + 1) : q = SubSeq(Order, n, Len(Order))
  BY DEF Suffixes
<1>2. \A i \in n..Len(Order) : Order[i] \in Items
  BY OrderFacts, ElementOfSeq
<1> QED
  BY <1>1, <1>2, OrderFacts, SubSeqProperties

LEMMA SuffixEnds ==
  /\ Order \in Suffixes
  /\ <<>> \in Suffixes
<1>1. Order = SubSeq(Order, 1, Len(Order))
  BY OrderFacts, SubSeqFull
<1>2. <<>> = SubSeq(Order, Len(Order) + 1, Len(Order))
  BY OrderFacts, SubSeqEmpty
<1>3. 1 \in 1..(Len(Order) + 1) /\ Len(Order) + 1 \in 1..(Len(Order) + 1)
  BY OrderFacts
<1> QED
  BY <1>1, <1>2, <1>3 DEF Suffixes

\* What is left of a suffix when its first k elements were sent.
LEMMA SuffixDrop ==
  ASSUME NEW q \in Suffixes, NEW k \in Nat, k <= Len(q)
  PROVE  SubSeq(q, k + 1, Len(q)) \in Suffixes
<1>1. PICK n \in 1..(Len(Order) + 1) : q = SubSeq(Order, n, Len(Order))
  BY DEF Suffixes
<1>2. \A i \in n..Len(Order) : Order[i] \in Items
  BY OrderFacts, ElementOfSeq
<1>3. Len(q) = IF n <= Len(Order) THEN Len(Order) - n + 1 ELSE 0
  BY <1>1, <1>2, OrderFacts, SubSeqProperties
<1>4. CASE k = Len(q)
  <2>1. Len(q) \in Nat
    BY <1>3, OrderFacts
  <2>2. SubSeq(q, k + 1, Len(q)) = <<>>
    BY <1>4, <2>1, SubSeqEmpty
  <2> QED
    BY <2>2, SuffixEnds
<1>5. CASE k < Len(q)
  <2>1. /\ n \in 1..Len(Order) /\ Len(Order) \in 1..Len(Order)
        /\ Len(q) = Len(Order) - n + 1
        /\ k + 1 \in 1..(Len(Order) - n + 1) /\ Len(q) \in 1..(Len(Order) - n + 1)
        /\ n + (k + 1) - 1 = n + k /\ n + Len(q) - 1 = Len(Order)
        /\ n + k \in 1..(Len(Order) + 1)
    BY <1>3, <1>5, OrderFacts
  <2>2. SubSeq(q, k + 1, Len(q)) = SubSeq(Order, n + k, Len(Order))
    BY <1>1, <2>1, OrderFacts, SubSeqOfSubSeq
  <2> QED
    BY <2>1, <2>2 DEF Suffixes
<1>6. Len(q) \in Nat
  BY <1>3, OrderFacts
<1> QED
  BY <1>4, <1>5, <1>6

LEMMA SuffixTail ==
  ASSUME NEW q \in Suffixes, q # <<>>
  PROVE  Tail(q) \in Suffixes /\ Head(q) \in Items
<1>1. q \in Seq(Items)
  BY SuffixSeq
<1>2. Head(q) \in Items /\ Tail(q) = SubSeq(q, 2, Len(q)) /\ Len(q) \in Nat /\ Len(q) >= 1
  BY <1>1, HeadTailProperties, TailIsSubSeq, LenProperties
<1>3. 1 \in Nat /\ 1 + 1 = 2
  OBVIOUS
<1>4. SubSeq(q, 1 + 1, Len(q)) \in Suffixes
  BY <1>2, <1>3, SuffixDrop
<1> QED
  BY <1>2, <1>3, <1>4

-----------------------------------------------------------------------------
(* The operators on a mirror keep its type, and no snapshot of before a reset *)
(* but one that they found.                                                   *)
Fresh(m) == m.old = {} \/ m.skipped

MirrorSet == [queue : Suffixes, recent : BOOLEAN, known : BOOLEAN,
              cache : SUBSET Items, old : SUBSET Items, skipped : BOOLEAN, lost : BOOLEAN]

LEMMA MirrorsAre == Mirrors = MirrorSet
  BY DEF Mirrors, MirrorSet, Suffixes

LEMMA EmptyIsMirror == EmptyMirror \in Mirrors /\ Fresh(EmptyMirror)
  BY MirrorsAre, SuffixEnds DEF MirrorSet, EmptyMirror, Fresh

LEMMA RequestedIsMirror ==
  ASSUME NEW m \in Mirrors
  PROVE  Requested(m) \in Mirrors /\ Fresh(Requested(m))
  BY MirrorsAre, SuffixEnds DEF MirrorSet, Requested, Forgotten, Fresh

LEMMA LinkUpIsMirror ==
  ASSUME NEW m \in Mirrors
  PROVE  LinkUp(m) \in Mirrors /\ Fresh(LinkUp(m))
<1>1. Unknown(m) \in Mirrors
  BY MirrorsAre DEF MirrorSet, Unknown
<1> QED
  BY <1>1, RequestedIsMirror DEF LinkUp

LEMMA LinkDownIsMirror ==
  ASSUME NEW m \in Mirrors
  PROVE  LinkDown(m) \in Mirrors /\ Fresh(LinkDown(m))
  BY MirrorsAre DEF MirrorSet, LinkDown, Forgotten, Unknown, Fresh

LEMMA FlushedIsMirror ==
  ASSUME NEW m \in Mirrors
  PROVE  /\ Flushed(m) \in Mirrors
         /\ Range(First(m)) \subseteq Items
         /\ Fresh(m) => Fresh(Flushed(m))
<1>1. m.queue \in Suffixes /\ m.queue \in Seq(Items)
  BY MirrorsAre, SuffixSeq DEF MirrorSet
<1>2. DEFINE k == IF Len(m.queue) < Batch THEN Len(m.queue) ELSE Batch
<1>3. k \in Nat /\ k <= Len(m.queue) /\ Len(m.queue) \in Nat
  BY <1>1, LenProperties, BatchAssumption
<1>4. \A i \in 1..k : m.queue[i] \in Items
  BY <1>1, <1>3, ElementOfSeq
<1>5. First(m) \in Seq(Items) /\ Len(First(m)) = k
  <2>1. First(m) = SubSeq(m.queue, 1, k)
    BY DEF First
  <2> HIDE DEF k
  <2> QED
    BY <1>3, <1>4, <2>1, SubSeqProperties
<1>6. SubSeq(m.queue, Len(First(m)) + 1, Len(m.queue)) \in Suffixes
  <2> HIDE DEF k
  <2> QED
    BY <1>1, <1>3, <1>5, SuffixDrop
<1>7. Range(First(m)) \subseteq Items
  BY <1>5, ElementOfSeq, LenProperties DEF Range
<1> QED
  BY <1>6, <1>7, MirrorsAre DEF MirrorSet, Flushed, Fresh

LEMMA LossyIsMirror ==
  ASSUME NEW m \in Mirrors, NEW items
  PROVE  Lossy(m, items) \in Mirrors /\ (Fresh(m) => Fresh(Lossy(m, items)))
  BY MirrorsAre DEF MirrorSet, Lossy, Fresh

LEMMA CachedIsMirror ==
  ASSUME NEW m \in Mirrors, NEW item \in Items
  PROVE  Cached(m, item) \in Mirrors /\ (Fresh(m) => Fresh(Cached(m, item)))
  BY MirrorsAre DEF MirrorSet, Cached, Fresh

LEMMA ReachedIsAsked ==
  ASSUME NEW items \in SUBSET Items
  PROVE  Reached(items) \subseteq Items
  BY DEF Reached

-----------------------------------------------------------------------------
(* The steps.                                                                 *)
Inv == TypeOK /\ FreshAfterReset

\* TypeOK in two parts, of which most steps leave the second alone.
Control ==
    /\ device \in {"absent", "deaf", "live"} /\ reset \in BOOLEAN
    /\ ser \in {"none", "open", "broken"}
    /\ connected \in BOOLEAN /\ dataOk \in BOOLEAN /\ silent \in BOOLEAN
    /\ since \in {"never", "recent", "long"}
    /\ reader \in {"top", "opened", "linked", "reading", "failed"}
    /\ manager \in {"top", "overdue", "cutting", "cut"}
    /\ beat \in {"top", "writing", "raised"} /\ query \in {"top", "checked", "dead"}

Memory == asked \subseteq Items /\ mirror \in Mirrors

LEMMA Parts == TypeOK <=> Control /\ Memory
  BY DEF TypeOK, Control, Memory

FreshNow == ~reset => Fresh(mirror)

LEMMA FreshIs == FreshAfterReset <=> FreshNow
  BY DEF FreshAfterReset, FreshNow, Fresh

LEMMA InitInv == Init => Inv
  BY EmptyIsMirror DEF Init, Inv, TypeOK, FreshAfterReset, Fresh

\* What a use of the port does to what is remembered.
LEMMA DropKeeps ==
  ASSUME Memory, Drop
  PROVE  mirror' \in Mirrors /\ Fresh(mirror') /\ connected' = FALSE /\ dataOk' = FALSE /\ silent' = FALSE
  BY LinkDownIsMirror DEF Memory, Drop

LEMMA SentKeeps ==
  ASSUME NEW m \in Mirrors, NEW items \in SUBSET Items, asked \subseteq Items, Sent(m, items)
  PROVE  asked' \subseteq Items /\ mirror' \in Mirrors /\ (Fresh(m) => Fresh(mirror'))
<1>1. CASE connected /\ ser = "broken"
  BY <1>1, LinkDownIsMirror DEF Sent
<1>2. CASE ~(connected /\ ser = "broken")
  BY <1>2, LossyIsMirror, ReachedIsAsked DEF Sent
<1> QED
  BY <1>1, <1>2

LEMMA SentFlags ==
  ASSUME NEW m, NEW items, Sent(m, items), connected \in BOOLEAN, dataOk \in BOOLEAN, silent \in BOOLEAN
  PROVE  connected' \in BOOLEAN /\ dataOk' \in BOOLEAN /\ silent' \in BOOLEAN
  BY Zenon DEF Sent

LEMMA ResumedKeeps ==
  ASSUME Memory
  PROVE  /\ Resumed.m \in Mirrors /\ Resumed.items \subseteq Items
         /\ Fresh(mirror) => Fresh(Resumed.m)
<1>1. CASE dataOk
  BY <1>1 DEF Resumed, Memory
<1>2. CASE ~dataOk
  <2>1. LinkUp(mirror) \in Mirrors /\ Fresh(LinkUp(mirror))
    BY LinkUpIsMirror DEF Memory
  <2> QED
    BY <1>2, <2>1, FlushedIsMirror DEF Resumed
<1> QED
  BY <1>1, <1>2

\* Every step keeps the control's type.
LEMMA ControlSteps ==
  ASSUME Control, [Next]_vars
  PROVE  Control'
<1> USE DEF Control, vars, deviceVars, linkVars, threadVars
<1>1. CASE Open
  <2>1. \/ ser' = ser /\ reader' = reader
        \/ ser' = "open" /\ reader' = "opened"
    <3>1. CASE device = "absent"
      BY <1>1, <3>1, Zenon DEF Open
    <3>2. CASE device # "absent"
      BY <1>1, <3>2, Zenon DEF Open
    <3> QED
      BY <3>1, <3>2
  <2>2. /\ device' = device /\ reset' = reset /\ connected' = connected /\ dataOk' = dataOk
        /\ silent' = silent /\ since' = since /\ manager' = manager /\ beat' = beat /\ query' = query
    BY <1>1 DEF Open
  <2> QED
    BY <2>1, <2>2
<1>2. CASE Opened
  BY <1>2, Zenon DEF Opened
<1>3. CASE Linked
  <2>1. connected' \in BOOLEAN /\ dataOk' \in BOOLEAN /\ silent' \in BOOLEAN
    BY <1>3, SentFlags DEF Linked
  <2>2. /\ device' = device /\ reset' = reset /\ ser' = ser /\ since' = since
        /\ reader' = "top" /\ manager' = manager /\ beat' = beat /\ query' = query
    BY <1>3 DEF Linked
  <2> QED
    BY <2>1, <2>2
<1>4. CASE Read \/ Stop
  BY <1>4, Zenon DEF Read, Stop
<1>5. CASE SysState
  BY <1>5, Zenon DEF SysState, Frame
<1>6. CASE Stream
  BY <1>6, Zenon DEF Stream, Frame
<1>7. CASE ReadFails
  BY <1>7, Zenon DEF ReadFails, Drop
<1>8. CASE Close
  <2>1. ser' = "none" /\ reader' = "top"
    BY <1>8 DEF Close
  <2>2. /\ device' = device /\ reset' = reset /\ connected' = connected /\ dataOk' = dataOk
        /\ silent' = silent /\ since' = since /\ manager' = manager /\ beat' = beat /\ query' = query
    BY <1>8 DEF Close
  <2> QED
    BY <2>1, <2>2
<1>9. ASSUME NEW item \in Items, Answer(item)
      PROVE  Control'
  BY <1>9, Zenon DEF Answer, Frame
<1>10. CASE Beat \/ Write
  BY <1>10, Zenon DEF Beat, Write
<1>11. CASE Raised
  <2>1. connected' \in BOOLEAN /\ dataOk' \in BOOLEAN /\ silent' \in BOOLEAN
    BY <1>11, Zenon DEF Raised, Drop
  <2>2. /\ device' = device /\ reset' = reset /\ ser' = ser /\ since' = since
        /\ reader' = reader /\ manager' = manager /\ beat' = "top" /\ query' = query
    BY <1>11 DEF Raised
  <2> QED
    BY <2>1, <2>2
<1>12. CASE Watch \/ GiveUpData
  BY <1>12, Zenon DEF Watch, GiveUpData
<1>13. CASE Cut \/ CutPort \/ CutDone
  BY <1>13, Zenon DEF Cut, CutPort, CutDone
<1>14. CASE QueryCheck \/ QueryDies
  BY <1>14, Zenon DEF QueryCheck, QueryDies
<1>15. CASE QueryPop
  <2>1. connected' \in BOOLEAN /\ dataOk' \in BOOLEAN /\ silent' \in BOOLEAN
    BY <1>15, SentFlags DEF QueryPop
  <2>2. /\ device' = device /\ reset' = reset /\ ser' = ser /\ since' = since
        /\ reader' = reader /\ manager' = manager /\ beat' = beat /\ query' = "top"
    BY <1>15 DEF QueryPop
  <2> QED
    BY <2>1, <2>2
<1>16. CASE QueryPoll
  <2>1. /\ Sent(mirror, Polled \ mirror.cache)
        /\ device' = device /\ reset' = reset /\ ser' = ser /\ since' = since
        /\ reader' = reader /\ manager' = manager /\ beat' = beat /\ query' = query
    BY <1>16 DEF QueryPoll
  <2>2. connected' \in BOOLEAN /\ dataOk' \in BOOLEAN /\ silent' \in BOOLEAN
    BY <2>1, SentFlags
  <2> QED
    BY <2>1, <2>2
<1>17. CASE Quiet \/ Later
  BY <1>17, Zenon DEF Quiet, Later
<1>18. CASE Listens \/ Plug
  BY <1>18, Zenon DEF Listens, Plug
<1>20. CASE Deafens
  <2>1. device' = "deaf" /\ (reset' = reset \/ reset')
    BY <1>20 DEF Deafens
  <2>2. /\ ser' = ser /\ connected' = connected /\ dataOk' = dataOk /\ silent' = silent /\ since' = since
        /\ reader' = reader /\ manager' = manager /\ beat' = beat /\ query' = query
    BY <1>20 DEF Deafens
  <2>3. reset' \in BOOLEAN
    BY <2>1, Zenon
  <2> QED
    BY <2>1, <2>2, <2>3
<1>21. CASE Unplug
  <2>1. device' = "absent" /\ ser' \in {"broken", ser}
    BY <1>21 DEF Unplug
  <2>2. /\ reset' = reset /\ connected' = connected /\ dataOk' = dataOk /\ silent' = silent /\ since' = since
        /\ reader' = reader /\ manager' = manager /\ beat' = beat /\ query' = query
    BY <1>21 DEF Unplug
  <2> QED
    BY <2>1, <2>2
<1>19. CASE UNCHANGED vars
  BY <1>19
<1> QED
  BY <1>1, <1>2, <1>3, <1>4, <1>5, <1>6, <1>7, <1>8, <1>9, <1>10, <1>11, <1>12, <1>13,
     <1>14, <1>15, <1>16, <1>17, <1>18, <1>19, <1>20, <1>21, Zenon DEF Next

\* ... and what is remembered stays a memory, and fresh.
LEMMA MemorySteps ==
  ASSUME Memory, Control, FreshNow, [Next]_vars
  PROVE  Memory' /\ FreshNow'
<1> DEFINE Quiescent == UNCHANGED <<reset, asked, mirror>>
<1>1. CASE Quiescent
  BY <1>1 DEF Memory, FreshNow
<1>2. CASE \/ Open \/ Opened \/ Read \/ Stop \/ Close \/ Beat \/ Write \/ Watch
           \/ Cut \/ CutPort \/ CutDone \/ QueryCheck \/ QueryDies \/ Quiet \/ Listens \/ Plug
           \/ UNCHANGED vars
  <2>1. Quiescent
    BY <1>2, Zenon DEF Open, Opened, Read, Stop, Close, Beat, Write, Watch, Cut, CutPort, CutDone,
       QueryCheck, QueryDies, Quiet, Listens, Plug, vars, deviceVars, linkVars, threadVars
  <2> QED
    BY <1>1, <2>1
<1>3. CASE Linked
  <2> DEFINE m == LinkUp(mirror)
  <2>1. m \in Mirrors /\ Fresh(m)
    BY LinkUpIsMirror DEF Memory
  <2>2. Flushed(m) \in Mirrors /\ Range(First(m)) \subseteq Items /\ Fresh(Flushed(m))
    BY <2>1, FlushedIsMirror
  <2>3. Sent(Flushed(m), Range(First(m))) /\ UNCHANGED reset
    BY <1>3 DEF Linked
  <2> HIDE DEF m
  <2> QED
    BY <2>2, <2>3, SentKeeps DEF Memory, FreshNow
<1>4. CASE SysState
  <2> DEFINE m == Resumed.m
             items == Resumed.items
             again == IF WasReset(m, reset) THEN Requested(m) ELSE m
             more == IF WasReset(m, reset) THEN Range(First(again)) ELSE {}
             left == IF WasReset(m, reset) THEN Flushed(again) ELSE m
  <2>1. m \in Mirrors /\ items \subseteq Items /\ (Fresh(mirror) => Fresh(m))
    BY ResumedKeeps
  <2>2. mirror' = [Lossy(left, items \union more) EXCEPT !.known = TRUE]
    BY <1>4, Zenon DEF SysState, Frame
  <2>3. asked' = asked \union Reached(items \union more)
    BY <1>4, Zenon DEF SysState, Frame
  <2> HIDE DEF m, items
  <2>4. left \in Mirrors /\ more \subseteq Items /\ Fresh(left)
    <3>1. CASE WasReset(m, reset)
      <4>1. Requested(m) \in Mirrors /\ Fresh(Requested(m))
        BY <2>1, RequestedIsMirror
      <4>2. /\ Flushed(Requested(m)) \in Mirrors
            /\ Range(First(Requested(m))) \subseteq Items
            /\ Fresh(Flushed(Requested(m)))
        BY <4>1, FlushedIsMirror
      <4> QED
        BY <3>1, <4>2
    <3>2. CASE ~WasReset(m, reset)
      <4>1. ~reset
        BY <3>2 DEF WasReset
      <4> QED
        BY <3>2, <4>1, <2>1 DEF FreshNow
    <3> QED
      BY <3>1, <3>2
  <2> HIDE DEF left, more
  <2>5. Lossy(left, items \union more) \in Mirrors /\ Fresh(Lossy(left, items \union more))
    BY <2>4, LossyIsMirror
  <2>6. mirror' \in Mirrors /\ Fresh(mirror')
    BY <2>2, <2>5, MirrorsAre DEF MirrorSet, Fresh
  <2>7. asked' \subseteq Items
    BY <2>1, <2>3, <2>4, ReachedIsAsked DEF Memory
  <2> QED
    BY <2>6, <2>7 DEF Memory, FreshNow
<1>5. CASE Stream
  <2>1. mirror' = Lossy(Resumed.m, Resumed.items) /\ asked' = asked \union Reached(Resumed.items) /\ reset' = reset
    BY <1>5, Zenon DEF Stream, Frame
  <2> QED
    BY <2>1, ResumedKeeps, LossyIsMirror, ReachedIsAsked DEF Memory, FreshNow
<1>6. ASSUME NEW item \in Items, Answer(item)
      PROVE  Memory' /\ FreshNow'
  <2>1. /\ mirror' = Cached(Lossy(Resumed.m, Resumed.items), item)
        /\ asked' = (asked \ {item}) \union Reached(Resumed.items)
        /\ reset' = reset
    BY <1>6, Zenon DEF Answer, Frame
  <2>2. /\ Lossy(Resumed.m, Resumed.items) \in Mirrors
        /\ Fresh(mirror) => Fresh(Lossy(Resumed.m, Resumed.items))
    BY ResumedKeeps, LossyIsMirror
  <2>3. mirror' \in Mirrors /\ (Fresh(mirror) => Fresh(mirror'))
    BY <2>1, <2>2, CachedIsMirror
  <2>4. asked' \subseteq Items
    BY <2>1, ResumedKeeps, ReachedIsAsked DEF Memory
  <2> QED
    BY <2>1, <2>3, <2>4 DEF Memory, FreshNow
<1>7. CASE ReadFails
  BY <1>7, DropKeeps DEF ReadFails, Memory, FreshNow, deviceVars
<1>8. CASE Raised
  BY <1>8, DropKeeps DEF Raised, Memory, FreshNow, deviceVars
<1>9. CASE GiveUpData
  BY <1>9, LinkDownIsMirror DEF GiveUpData, Memory, FreshNow, deviceVars
<1>10. CASE QueryPop
  <2> DEFINE m == [mirror EXCEPT !.queue = Tail(mirror.queue)]
             item == Head(mirror.queue)
  <2>1. Sent(m, {item}) /\ reset' = reset /\ mirror.queue # <<>>
    BY <1>10 DEF QueryPop
  <2>2. mirror \in MirrorSet /\ mirror.queue \in Suffixes
    BY MirrorsAre DEF Memory, MirrorSet
  <2>3. Tail(mirror.queue) \in Suffixes /\ item \in Items
    BY <2>1, <2>2, SuffixTail
  <2>4. m \in MirrorSet /\ (Fresh(mirror) => Fresh(m))
    BY <2>2, <2>3 DEF MirrorSet, Fresh
  <2>5. m \in Mirrors /\ {item} \in SUBSET Items
    BY <2>3, <2>4, MirrorsAre
  <2> HIDE DEF m, item
  <2> QED
    BY <2>1, <2>4, <2>5, SentKeeps DEF Memory, FreshNow
<1>11. CASE QueryPoll
  <2>1. Sent(mirror, Polled \ mirror.cache) /\ reset' = reset
    BY <1>11 DEF QueryPoll
  <2>2. (Polled \ mirror.cache) \in SUBSET Items
    BY OrderAssumption
  <2> QED
    BY <2>1, <2>2, SentKeeps DEF Memory, FreshNow
<1>12. CASE Later
  <2>1. mirror' = [mirror EXCEPT !.recent = FALSE] /\ asked' = asked /\ reset' = reset
    BY <1>12 DEF Later, deviceVars
  <2> QED
    BY <2>1, MirrorsAre DEF MirrorSet, Memory, FreshNow, Fresh
<1>13. CASE Deafens
  BY <1>13, MirrorsAre DEF Deafens, MirrorSet, Memory, FreshNow, Fresh
<1>14. CASE Unplug
  BY <1>14, MirrorsAre DEF Unplug, MirrorSet, Memory, FreshNow, Fresh
<1> QED
  BY <1>2, <1>3, <1>4, <1>5, <1>6, <1>7, <1>8, <1>9, <1>10, <1>11, <1>12, <1>13, <1>14, Zenon DEF Next

LEMMA StepInv == Inv /\ [Next]_vars => Inv'
<1> SUFFICES ASSUME Inv, [Next]_vars PROVE Inv'
  OBVIOUS
<1>1. Control /\ Memory /\ FreshNow
  BY Parts, FreshIs DEF Inv
<1>2. Control' /\ Memory' /\ FreshNow'
  BY <1>1, ControlSteps, MemorySteps
<1>3. TypeOK'
  BY <1>2 DEF TypeOK, Control, Memory
<1>4. FreshAfterReset'
  BY <1>2 DEF FreshAfterReset, FreshNow, Fresh
<1> QED
  BY <1>3, <1>4 DEF Inv

\* Every variable of the link keeps its type, in every order of the threads'
\* steps.
THEOREM Types == Spec => []TypeOK
<1>1. Inv => TypeOK
  BY DEF Inv
<1> QED
  BY InitInv, StepInv, <1>1, PTL DEF Spec

\* After SYS_STATE has told of a reset, the router holds no snapshot that the
\* firmware gave before it, unless a request for a bootstrap was ignored.
THEOREM NothingStale == Spec => []FreshAfterReset
<1>1. Inv => FreshAfterReset
  BY DEF Inv
<1> QED
  BY InitInv, StepInv, <1>1, PTL DEF Spec

-----------------------------------------------------------------------------
(* What LinkRecovers and SilenceIsSeen mean by "for good".                    *)

\* The device is heard, and no thread is on its way to give the link up.
Calm ==
  /\ device = "live" /\ Healthy /\ ~silent
  /\ reader \notin {"opened", "failed"} /\ manager = "top" /\ beat # "raised"

Shown == connected /\ dataOk

LinkHolds ==
  /\ Calm /\ device' = "live" => Calm'
  /\ device # "live" /\ ~Shown => ~Shown'

LEMMA SentHolds ==
  ASSUME NEW m, NEW items, Sent(m, items)
  PROVE  /\ ser = "open" => UNCHANGED <<connected, dataOk, silent>>
         /\ ~Shown => ~Shown'
<1>1. CASE connected /\ ser = "broken"
  BY <1>1 DEF Sent, Shown
<1>2. CASE ~(connected /\ ser = "broken")
  BY <1>2 DEF Sent, Shown
<1> QED
  BY <1>1, <1>2

\* A link that is up stays up for as long as the device stays live, whatever
\* the threads do; one that is not is not shown as up before the device is.
THEOREM LinkStays == Spec => [][LinkHolds]_vars
<1>1. ASSUME [Next]_vars PROVE LinkHolds
  <2>1. CASE Open \/ Opened \/ Read \/ Stop \/ ReadFails \/ Close
    BY <2>1 DEF Open, Opened, Read, Stop, ReadFails, Close, Drop, LinkHolds, Calm, Shown, Healthy,
                deviceVars, linkVars
  <2>2. CASE Linked
    <3>1. PICK m, items : Sent(m, items)
      BY <2>2 DEF Linked
    <3>2. reader' = "top" /\ UNCHANGED <<device, ser, manager, beat>>
      BY <2>2 DEF Linked
    <3>3. /\ Calm => UNCHANGED <<connected, dataOk, silent>>
          /\ ~Shown => ~Shown'
      BY <3>1, SentHolds DEF Calm, Healthy
    <3> QED
      BY <3>2, <3>3 DEF LinkHolds, Calm, Healthy
  <2>3. CASE SysState \/ Stream \/ \E item \in Items : Answer(item)
    <3>1. /\ device = "live" /\ dataOk' = TRUE /\ silent' = FALSE
          /\ UNCHANGED <<device, ser, connected, reader, manager, beat>>
      BY <2>3 DEF SysState, Stream, Answer, Frame, threadVars
    <3> QED
      BY <3>1 DEF LinkHolds, Calm, Healthy
  <2>4. CASE Beat \/ Write \/ Raised
    BY <2>4 DEF Beat, Write, Raised, Drop, LinkHolds, Calm, Shown, Healthy, deviceVars, linkVars
  <2>5. CASE Watch \/ GiveUpData \/ Cut \/ CutPort \/ CutDone
    BY <2>5 DEF Watch, Free, Overdue, GiveUpData, Cut, CutPort, CutDone, LinkHolds, Calm, Shown,
                Healthy, deviceVars, linkVars
  <2>6. CASE QueryPop \/ QueryPoll
    <3>1. PICK m, items : Sent(m, items)
      BY <2>6 DEF QueryPop, QueryPoll
    <3>2. UNCHANGED <<device, ser, reader, manager, beat>>
      BY <2>6 DEF QueryPop, QueryPoll, threadVars
    <3>3. /\ Calm => UNCHANGED <<connected, dataOk, silent>>
          /\ ~Shown => ~Shown'
      BY <3>1, SentHolds DEF Calm, Healthy
    <3> QED
      BY <3>2, <3>3 DEF LinkHolds, Calm, Healthy
  <2>7. CASE QueryCheck \/ QueryDies \/ Later \/ UNCHANGED vars
    BY <2>7 DEF QueryCheck, QueryDies, Later, vars, deviceVars, linkVars, threadVars, LinkHolds,
                Calm, Shown, Healthy
  <2>8. CASE Quiet
    BY <2>8 DEF Quiet, deviceVars, threadVars, LinkHolds, Calm, Shown
  <2>9. CASE Listens \/ Deafens \/ Unplug \/ Plug
    BY <2>9 DEF Listens, Deafens, Unplug, Plug, linkVars, threadVars, LinkHolds, Calm, Shown
  <2> QED
    BY <1>1, <2>1, <2>2, <2>3, <2>4, <2>5, <2>6, <2>7, <2>8, <2>9 DEF Next
<1>2. [Next]_vars => [LinkHolds]_vars
  BY <1>1
<1> QED
  BY <1>2, PTL DEF Spec
=============================================================================
