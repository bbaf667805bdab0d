------------------------- MODULE StatusServiceProofs -------------------------
(***************************************************************************)
(* Proofs about StatusService: its events come in order.                   *)
(***************************************************************************)
EXTENDS StatusService, TLAPS

CanFrame == [id : Nat, kind : Kinds, dlc : Nat]
StatusEvent == [id : Nat, bytes : Nat]

TypeInv ==
  /\ buffered \in Seq(CanFrame) /\ heard \in Nat /\ events \in Seq(StatusEvent)

Increasing(log) == \A i, j \in DOMAIN log : i < j => log[i].id < log[j].id

\* The frames still to be dealt with are newer than every event.
OrderInv ==
  /\ Increasing(buffered)
  /\ \A b \in DOMAIN buffered : buffered[b].id <= heard
  /\ \A e \in DOMAIN events : events[e].id <= heard
  /\ \A e \in DOMAIN events, b \in DOMAIN buffered : events[e].id < buffered[b].id

StatusInv == TypeInv /\ OrderInv /\ EventsInOrder

\* What is there after an element goes last.
LEMMA AppendFacts ==
  ASSUME NEW S, NEW s \in Seq(S), NEW x \in S
  PROVE  /\ Append(s, x) \in Seq(S)
         /\ Len(s) \in Nat
         /\ DOMAIN s = 1 .. Len(s) /\ DOMAIN Append(s, x) = 1 .. Len(s) + 1
         /\ \A i \in 1 .. Len(s) : Append(s, x)[i] = s[i]
         /\ Append(s, x)[Len(s) + 1] = x
OBVIOUS

\* What is left of a sequence that loses its head.
LEMMA TailFacts ==
  ASSUME NEW S, NEW s \in Seq(S), s # <<>>
  PROVE  /\ Head(s) = s[1] /\ s[1] \in S /\ Len(s) \in Nat \ {0}
         /\ Tail(s) \in Seq(S)
         /\ DOMAIN s = 1 .. Len(s) /\ DOMAIN Tail(s) = 1 .. Len(s) - 1
         /\ \A i \in 1 .. Len(s) - 1 : Tail(s)[i] = s[i + 1]
OBVIOUS

\* The numbers in the log and the buffer are numbers.
LEMMA NumberTypes ==
  ASSUME TypeInv
  PROVE  /\ \A b \in DOMAIN buffered : buffered[b].id \in Nat /\ buffered[b].dlc \in Nat
         /\ \A e \in DOMAIN events : events[e].id \in Nat /\ events[e].bytes \in Nat
<1>1. \A b \in DOMAIN buffered : buffered[b] \in CanFrame
  BY DEF TypeInv
<1>2. \A e \in DOMAIN events : events[e] \in StatusEvent
  BY DEF TypeInv
<1> QED BY <1>1, <1>2 DEF CanFrame, StatusEvent

\* A service that has just started has published nothing.
LEMMA StatusInit == Init => StatusInv
<1> SUFFICES ASSUME Init PROVE StatusInv
  OBVIOUS
<1>1. DOMAIN buffered = {} /\ DOMAIN events = {}
  BY DEF Init
<1>2. TypeInv
  <2>1. <<>> \in Seq(CanFrame) OBVIOUS
  <2>2. <<>> \in Seq(StatusEvent) OBVIOUS
  <2> QED BY <2>1, <2>2 DEF Init, TypeInv
<1>3. Increasing(buffered) BY <1>1 DEF Increasing
<1>4. OrderInv BY <1>1, <1>3, Zenon DEF OrderInv
<1>5. EventsInOrder BY <1>1 DEF EventsInOrder
<1> QED BY <1>2, <1>4, <1>5 DEF StatusInv

\* A frame that is taken in goes last, newer than all others.
LEMMA HearKeeps ==
  ASSUME StatusInv, NEW kind \in Kinds, NEW dlc \in Nat, Hear(kind, dlc)
  PROVE  StatusInv'
<1> DEFINE f == [id |-> heard + 1, kind |-> kind, dlc |-> dlc]
<1>1. f \in CanFrame /\ heard + 1 \in Nat /\ f.id = heard + 1
  BY DEF StatusInv, TypeInv, CanFrame
<1>2. buffered' = Append(buffered, f) /\ heard' = heard + 1 /\ events' = events
  BY DEF Hear
<1> HIDE DEF f
<1>3. /\ buffered' \in Seq(CanFrame) /\ Len(buffered) \in Nat
      /\ DOMAIN buffered = 1 .. Len(buffered)
      /\ DOMAIN buffered' = 1 .. Len(buffered) + 1
      /\ \A i \in 1 .. Len(buffered) : buffered'[i] = buffered[i]
      /\ buffered'[Len(buffered) + 1] = f
  BY <1>1, <1>2, AppendFacts DEF StatusInv, TypeInv
<1>4. \A b \in DOMAIN buffered : buffered[b].id \in Nat /\ buffered[b].id <= heard
  BY NumberTypes DEF StatusInv, OrderInv
<1>5. \A e \in DOMAIN events : events[e].id \in Nat /\ events[e].id <= heard
  BY NumberTypes DEF StatusInv, OrderInv
<1>6. heard \in Nat BY DEF StatusInv, TypeInv
<1>7. TypeInv' BY <1>1, <1>2, <1>3 DEF StatusInv, TypeInv
<1>8. OrderInv'
  <2>1. Increasing(buffered)'
    BY <1>1, <1>3, <1>4, <1>6 DEF StatusInv, OrderInv, Increasing
  <2>2. \A b \in DOMAIN buffered' : buffered'[b].id <= heard'
    BY <1>1, <1>2, <1>3, <1>4, <1>6
  <2>3. \A e \in DOMAIN events : events[e].id <= heard'
    BY <1>2, <1>5, <1>6
  <2>4. \A e \in DOMAIN events, b \in DOMAIN buffered' :
          events[e].id < buffered'[b].id
    BY <1>1, <1>3, <1>5, <1>6 DEF StatusInv, OrderInv
  <2> QED BY <1>2, <2>1, <2>2, <2>3, <2>4 DEF OrderInv
<1>9. EventsInOrder' BY <1>2 DEF StatusInv, EventsInOrder
<1> QED BY <1>7, <1>8, <1>9 DEF StatusInv

\* What the rest of the buffer keeps when its head goes.
LEMMA TailKeeps ==
  ASSUME TypeInv, OrderInv, buffered # <<>>, buffered' = Tail(buffered)
  PROVE  /\ buffered' \in Seq(CanFrame) /\ Increasing(buffered)'
         /\ Head(buffered) = buffered[1] /\ buffered[1] \in CanFrame
         /\ 1 \in DOMAIN buffered
         /\ \A b \in DOMAIN buffered' :
              /\ b + 1 \in DOMAIN buffered /\ buffered'[b] = buffered[b + 1]
              /\ buffered[1].id < buffered'[b].id
<1>1. /\ Head(buffered) = buffered[1] /\ buffered[1] \in CanFrame
      /\ Len(buffered) \in Nat \ {0} /\ buffered' \in Seq(CanFrame)
      /\ DOMAIN buffered = 1 .. Len(buffered)
      /\ DOMAIN buffered' = 1 .. Len(buffered) - 1
      /\ \A i \in 1 .. Len(buffered) - 1 : buffered'[i] = buffered[i + 1]
  BY TailFacts DEF TypeInv
<1>2. \A b \in DOMAIN buffered' :
         b + 1 \in DOMAIN buffered /\ buffered'[b] = buffered[b + 1] /\ 1 < b + 1
  BY <1>1
<1>3. Increasing(buffered) BY DEF OrderInv
<1>4. Increasing(buffered)' BY <1>1, <1>2, <1>3 DEF Increasing
<1>5. 1 \in DOMAIN buffered BY <1>1
<1> QED BY <1>1, <1>2, <1>3, <1>4, <1>5 DEF Increasing

\* A frame that is no status goes.
LEMMA IgnoreKeeps ==
  ASSUME StatusInv, Ignore
  PROVE  StatusInv'
<1>1. /\ buffered # <<>> /\ buffered' = Tail(buffered)
      /\ heard' = heard /\ events' = events
  BY DEF Ignore
<1>2. /\ buffered' \in Seq(CanFrame) /\ Increasing(buffered)'
      /\ \A b \in DOMAIN buffered' :
           b + 1 \in DOMAIN buffered /\ buffered'[b] = buffered[b + 1]
  BY <1>1, TailKeeps DEF StatusInv
<1>3. TypeInv' BY <1>1, <1>2 DEF StatusInv, TypeInv
<1>4. OrderInv' BY <1>1, <1>2 DEF StatusInv, OrderInv
<1>5. EventsInOrder' BY <1>1 DEF StatusInv, EventsInOrder
<1> QED BY <1>3, <1>4, <1>5 DEF StatusInv

\* A status becomes the last event, newer than all before it.
LEMMA PublishKeeps ==
  ASSUME StatusInv, Publish
  PROVE  StatusInv'
<1>1. /\ buffered # <<>> /\ IsStatus(Head(buffered))
      /\ buffered' = Tail(buffered) /\ heard' = heard
  BY DEF Publish
<1>2. PICK n \in Bytes(Head(buffered)) :
        events' = Append(events, [id |-> Head(buffered).id, bytes |-> n])
  BY DEF Publish
<1>3. /\ buffered' \in Seq(CanFrame) /\ Increasing(buffered)'
      /\ Head(buffered) = buffered[1] /\ buffered[1] \in CanFrame
      /\ 1 \in DOMAIN buffered
      /\ \A b \in DOMAIN buffered' :
           /\ b + 1 \in DOMAIN buffered /\ buffered'[b] = buffered[b + 1]
           /\ buffered[1].id < buffered'[b].id
  BY <1>1, TailKeeps DEF StatusInv
<1> DEFINE ev == [id |-> Head(buffered).id, bytes |-> n]
<1>4. n \in Nat /\ n >= 2
  BY <1>1, <1>2, <1>3 DEF CanFrame, IsStatus, Bytes
<1>5. ev \in StatusEvent /\ ev.id = buffered[1].id /\ ev.bytes >= 2
  BY <1>3, <1>4 DEF StatusEvent, CanFrame
<1>6. events' = Append(events, ev) BY <1>2
<1> HIDE DEF ev
<1>7. /\ events' \in Seq(StatusEvent) /\ Len(events) \in Nat
      /\ DOMAIN events = 1 .. Len(events) /\ DOMAIN events' = 1 .. Len(events) + 1
      /\ \A i \in 1 .. Len(events) : events'[i] = events[i]
      /\ events'[Len(events) + 1] = ev
  BY <1>5, <1>6, AppendFacts DEF StatusInv, TypeInv
<1>8. \A e \in DOMAIN events' :
         \/ e \in DOMAIN events /\ events'[e] = events[e]
         \/ e = Len(events) + 1 /\ e \notin DOMAIN events /\ events'[e] = ev
  BY <1>7
<1>9. \A e \in DOMAIN events : events[e].id < buffered[1].id
  BY <1>3 DEF StatusInv, OrderInv
<1>10. TypeInv' BY <1>1, <1>3, <1>7 DEF StatusInv, TypeInv
<1>11. OrderInv'
  <2>1. \A b \in DOMAIN buffered' : buffered'[b].id <= heard
    BY <1>3 DEF StatusInv, OrderInv
  <2>2. \A e \in DOMAIN events' : events'[e].id <= heard
    BY <1>3, <1>5, <1>8 DEF StatusInv, OrderInv
  <2>3. \A e \in DOMAIN events', b \in DOMAIN buffered' :
          events'[e].id < buffered'[b].id
    BY <1>3, <1>5, <1>8 DEF StatusInv, OrderInv
  <2> QED BY <1>1, <1>3, <2>1, <2>2, <2>3 DEF OrderInv
<1>12. EventsInOrder'
  <2>1. \A i, j \in DOMAIN events' : i < j => events'[i].id < events'[j].id
    BY <1>5, <1>7, <1>8, <1>9 DEF StatusInv, EventsInOrder
  <2>2. \A i \in DOMAIN events' : events'[i].bytes >= 2
    BY <1>5, <1>8 DEF StatusInv, EventsInOrder
  <2> QED BY <2>1, <2>2 DEF EventsInOrder
<1> QED BY <1>10, <1>11, <1>12 DEF StatusInv

\* What the socket held is forgotten.
LEMMA ForgetKeeps ==
  ASSUME StatusInv, Forget
  PROVE  StatusInv'
<1>1. buffered' = <<>> /\ heard' = heard /\ events' = events
  BY DEF Forget
<1>2. DOMAIN buffered' = {} BY <1>1
<1>3. TypeInv'
  <2>1. <<>> \in Seq(CanFrame) OBVIOUS
  <2> QED BY <1>1, <2>1 DEF StatusInv, TypeInv
<1>4. OrderInv' BY <1>1, <1>2 DEF StatusInv, OrderInv, Increasing
<1>5. EventsInOrder' BY <1>1 DEF StatusInv, EventsInOrder
<1> QED BY <1>3, <1>4, <1>5 DEF StatusInv

\* Events come in the order of their frames, none twice, whatever frames the bus
\* carries and however long their queue.
THEOREM ServicePublishesInOrder ==
  ASSUME FrameLengths \subseteq Nat
  PROVE  Spec => []EventsInOrder
<1>1. StatusInv /\ [Next]_vars => StatusInv'
  <2> SUFFICES ASSUME StatusInv, [Next]_vars PROVE StatusInv'
    OBVIOUS
  <2>1. ASSUME NEW kind \in Kinds, NEW dlc \in FrameLengths, Hear(kind, dlc)
        PROVE  StatusInv'
    BY <2>1, HearKeeps
  <2>2. CASE Ignore BY <2>2, IgnoreKeeps
  <2>3. CASE Publish BY <2>3, PublishKeeps
  <2>4. CASE Forget BY <2>4, ForgetKeeps
  <2>5. CASE UNCHANGED vars
    BY <2>5 DEF vars, StatusInv, TypeInv, OrderInv, Increasing, EventsInOrder
  <2> QED BY <2>1, <2>2, <2>3, <2>4, <2>5 DEF Next
<1>2. StatusInv => EventsInOrder BY DEF StatusInv
<1> QED BY StatusInit, <1>1, <1>2, PTL DEF Spec

=============================================================================
