------------------------- MODULE GatewayBytesProofs -------------------------
(***************************************************************************)
(* Proofs about GatewayBytes: main stays in step with the tester's stream, *)
(* and requests and responses come through with all their bytes, whatever  *)
(* their sizes, the pieces of the stream and the sizes of the blocks.      *)
(***************************************************************************)
EXTENDS GatewayBytes, TLAPS

Message == [type : {"diag", "other"}, length : Nat]
Piece   == [n : Nat, whole : BOOLEAN]

-----------------------------------------------------------------------------
(* The stream *)

\* Main has the stream's messages so far, and what has arrived and been read are
\* bytes of the one message in front.
Aligned ==
  /\ wire \in Seq(Message) /\ taken \in Seq(Message)
  /\ Len(taken) <= Len(wire)
  /\ \A i \in 1 .. Len(taken) : taken[i] = wire[i]

Counted ==
  /\ here \in Nat /\ got \in Nat /\ got <= here
  /\ here > 0 => Len(taken) < Len(wire) /\ here <= Total

Phases ==
  /\ phase \in {"header", "payload", "dispatch", "send", "transfer", "ended",
                "aborted", "astray"}
  /\ phase \in {"payload", "dispatch"} => got >= HeaderSize
  /\ phase = "dispatch" => got = Total
  /\ phase \in {"header", "send", "transfer"} => got = 0
  /\ phase = "send" => taken # <<>> /\ Request.type = "diag" /\ Request.length >= 4

StreamInv == Aligned /\ Counted /\ Phases

\* Nothing has been sent when the stream is empty.
LEMMA StreamStarts == BytesInit => StreamInv
<1> SUFFICES ASSUME BytesInit PROVE StreamInv
  OBVIOUS
<1>1. /\ wire = <<>> /\ here = 0 /\ got = 0 /\ phase = "header" /\ taken = <<>>
  BY DEF BytesInit, StreamInit
<1>2. Aligned BY <1>1 DEF Aligned
<1>3. Counted BY <1>1 DEF Counted
<1>4. Phases BY <1>1 DEF Phases
<1> QED BY <1>2, <1>3, <1>4 DEF StreamInv

\* The message in front has a header and a payload.
LEMMA FrontTotal ==
  ASSUME StreamInv, Len(taken) < Len(wire)
  PROVE  Front \in Message /\ Total \in Nat /\ Total = HeaderSize + Front.length
<1>1. wire \in Seq(Message) /\ Len(taken) + 1 \in 1 .. Len(wire)
  BY DEF StreamInv, Aligned
<1>2. Front \in Message BY <1>1 DEF Front
<1> QED BY <1>2 DEF Total, Message, HeaderSize

\* The tester writes a message behind those there are.
LEMMA WriteKeepsStream ==
  ASSUME StreamInv, NEW type \in {"diag", "other"}, NEW n \in Nat,
         TesterWrites(type, n)
  PROVE  StreamInv'
<1> DEFINE m == [type |-> type, length |-> n]
<1>1. m \in Message BY DEF Message
<1>2. /\ wire' = Append(wire, m)
      /\ UNCHANGED <<here, got, phase, taken>>
  BY DEF TesterWrites
<1> HIDE DEF m
<1>3. wire \in Seq(Message) /\ taken \in Seq(Message) /\ Len(taken) <= Len(wire)
  BY DEF StreamInv, Aligned
<1>4. /\ wire' \in Seq(Message) /\ Len(wire') = Len(wire) + 1
      /\ \A i \in 1 .. Len(wire) : wire'[i] = wire[i]
  BY <1>1, <1>2, <1>3
<1>5. Aligned' BY <1>2, <1>3, <1>4 DEF StreamInv, Aligned
<1>6. Len(taken) < Len(wire) => Total' = Total
  BY <1>2, <1>3, <1>4 DEF Total, Front
<1>7. here > 0 => Len(taken) < Len(wire) /\ here <= Total
  BY DEF StreamInv, Counted
<1>8. Counted' BY <1>2, <1>3, <1>4, <1>6, <1>7 DEF StreamInv, Counted
<1>9. phase \in {"payload", "dispatch"} => Len(taken) < Len(wire)
  BY <1>7 DEF StreamInv, Phases, Counted, HeaderSize
<1>10. Phases' BY <1>2, <1>6, <1>9 DEF StreamInv, Phases, Request, HeaderSize
<1> QED BY <1>5, <1>8, <1>10 DEF StreamInv

\* Main takes a message whole.
LEMMA DispatchKeepsStream ==
  ASSUME StreamInv, Dispatch
  PROVE  StreamInv' /\ taken' = Append(taken, Front) /\ Len(taken) < Len(wire)
<1>1. /\ phase = "dispatch" /\ UNCHANGED wire
      /\ taken' = Append(taken, [type |-> Front.type, length |-> got - HeaderSize])
      /\ here' = here - got /\ got' = 0
      /\ phase' = IF Front.type = "diag"
                  THEN IF HasAddresses(Front) THEN "send" ELSE "aborted"
                  ELSE "header"
  BY DEF Dispatch
<1>2. got = Total /\ got >= HeaderSize /\ got \in Nat /\ here \in Nat /\ got <= here
  BY <1>1 DEF StreamInv, Phases, Counted
<1>3. Len(taken) < Len(wire) /\ here <= Total
  BY <1>2 DEF StreamInv, Counted, HeaderSize
<1>4. Front \in Message /\ Total \in Nat /\ Total = HeaderSize + Front.length
  BY <1>3, FrontTotal
<1>5. here' = 0 BY <1>1, <1>2, <1>3, <1>4
<1>6. [type |-> Front.type, length |-> got - HeaderSize] = Front
  BY <1>2, <1>4 DEF Message, HeaderSize
<1>7. taken' = Append(taken, Front) BY <1>1, <1>6
<1>8. /\ wire \in Seq(Message) /\ taken \in Seq(Message)
      /\ \A i \in 1 .. Len(taken) : taken[i] = wire[i]
  BY DEF StreamInv, Aligned
<1>9. /\ taken' \in Seq(Message) /\ Len(taken') = Len(taken) + 1
      /\ taken'[Len(taken')] = Front
      /\ \A i \in 1 .. Len(taken) : taken'[i] = taken[i]
  BY <1>4, <1>7, <1>8
<1>10. Aligned'
  <2>1. wire' \in Seq(Message) /\ Len(taken') <= Len(wire')
    BY <1>1, <1>3, <1>8, <1>9
  <2>2. ASSUME NEW i \in 1 .. Len(taken') PROVE taken'[i] = wire'[i]
    <3>1. CASE i \in 1 .. Len(taken) BY <3>1, <1>1, <1>8, <1>9
    <3>2. CASE i = Len(taken) + 1 BY <3>2, <1>1, <1>9 DEF Front
    <3> QED BY <3>1, <3>2, <1>8, <1>9
  <2> QED BY <2>1, <2>2, <1>9 DEF Aligned
<1>11. Counted' BY <1>1, <1>5 DEF Counted
<1>12. phase' = "send" => Front.type = "diag" /\ Front.length >= 4
  BY <1>1 DEF HasAddresses
<1>13. Phases'
  <2>1. phase' \in {"header", "send", "aborted"} BY <1>1
  <2>2. taken' # <<>> /\ Request' = Front BY <1>8, <1>9 DEF Request
  <2> QED BY <2>1, <2>2, <1>1, <1>12 DEF Phases
<1> QED BY <1>3, <1>7, <1>10, <1>11, <1>13 DEF StreamInv

\* However many bytes arrive, and are read, they are of the message in front.
LEMMA StreamKeepsStep ==
  ASSUME StreamInv, Stream
  PROVE  StreamInv'
<1>1. ASSUME NEW type \in {"diag", "other"}, NEW n \in Lengths, TesterWrites(type, n)
      PROVE  StreamInv'
  BY <1>1, WriteKeepsStream, BytesAssumption
<1>2. CASE TesterLeaves
  <2>1. UNCHANGED <<wire, here, got, phase, taken>> BY <1>2 DEF TesterLeaves
  <2> QED BY <2>1 DEF StreamInv, Aligned, Counted, Phases, Total, Front, Request
<1>3. ASSUME Len(taken) < Len(wire), NEW n \in Cuts \cup {Total}, Arrive(n)
      PROVE  StreamInv'
  <2>1. /\ here < n /\ n <= Total /\ here' = n
        /\ UNCHANGED <<wire, got, phase, taken>>
    BY <1>3 DEF Arrive
  <2>2. n \in Nat
    <3>1. Total \in Nat BY <1>3, FrontTotal
    <3>2. Cuts \subseteq Nat BY BytesAssumption
    <3> QED BY <3>1, <3>2
  <2>3. Aligned' BY <2>1 DEF StreamInv, Aligned
  <2>4. Total' = Total BY <2>1 DEF Total, Front
  <2>5. Counted' BY <1>3, <2>1, <2>2, <2>4 DEF StreamInv, Counted
  <2>6. Phases' BY <2>1, <2>4 DEF StreamInv, Phases, Request
  <2> QED BY <2>3, <2>5, <2>6 DEF StreamInv
<1>4. CASE ReadHeader
  <2>1. /\ here >= HeaderSize /\ got' = HeaderSize
        /\ phase' = IF Front.length = 0 THEN "dispatch" ELSE "payload"
        /\ UNCHANGED <<wire, here, taken>>
    BY <1>4 DEF ReadHeader
  <2>2. Len(taken) < Len(wire) BY <2>1 DEF StreamInv, Counted, HeaderSize
  <2>3. Total = HeaderSize + Front.length BY <2>2, FrontTotal
  <2>4. Aligned' BY <2>1 DEF StreamInv, Aligned
  <2>5. Total' = Total BY <2>1 DEF Total, Front
  <2>6. Counted' BY <2>1, <2>5 DEF StreamInv, Counted, HeaderSize
  <2>7. Phases' BY <2>1, <2>3, <2>5 DEF Phases, HeaderSize
  <2> QED BY <2>4, <2>6, <2>7 DEF StreamInv
<1>5. CASE ReadHeaderInPieces \/ ConnectionLost
  <2>1. phase' \in {"astray", "ended"} /\ UNCHANGED <<wire, here, got, taken>>
    BY <1>5 DEF ReadHeaderInPieces, ConnectionLost
  <2> QED BY <2>1 DEF StreamInv, Aligned, Counted, Phases, Total, Front
<1>6. CASE ReadPayload
  <2>1. /\ phase = "payload" /\ got < here /\ got' = here
        /\ phase' = IF got' = Total THEN "dispatch" ELSE "payload"
        /\ UNCHANGED <<wire, here, taken>>
    BY <1>6 DEF ReadPayload, Received
  <2>2. Aligned' BY <2>1 DEF StreamInv, Aligned
  <2>3. Total' = Total BY <2>1 DEF Total, Front
  <2>4. Counted' BY <2>1, <2>3 DEF StreamInv, Counted
  <2>5. got >= HeaderSize /\ got \in Nat /\ here \in Nat
    BY <2>1 DEF StreamInv, Phases, Counted
  <2>6. Phases' BY <2>1, <2>3, <2>5 DEF Phases, HeaderSize
  <2> QED BY <2>2, <2>4, <2>6 DEF StreamInv
<1>7. CASE Dispatch BY <1>7, DispatchKeepsStream
<1> QED BY <1>1, <1>2, <1>3, <1>4, <1>5, <1>6, <1>7 DEF Stream

\* Steps that send a request leave the stream alone.
LEMMA SendingKeepsStream ==
  ASSUME StreamInv, UNCHANGED <<wire, here, got, taken>>,
         phase \in {"send", "transfer"},
         phase' \in {"header", "transfer"}
  PROVE  StreamInv'
BY DEF StreamInv, Aligned, Counted, Phases, Total, Front

-----------------------------------------------------------------------------
(* Logs of requests *)

\* A log names requests among the messages t, and their sizes are those of its entries.
Names(log, t) ==
  /\ log \in Seq(Nat)
  /\ \A j \in DOMAIN log :
       log[j] \in 1 .. Len(t) /\ t[log[j]].type = "diag" /\ t[log[j]].length > 4
SizesIn(log, t) == [j \in DOMAIN log |-> UdsSize(t[log[j]])]

LEMMA SizesType ==
  ASSUME NEW t \in Seq(Message), NEW log, Names(log, t)
  PROVE  SizesIn(log, t) \in Seq(Nat) /\ Len(SizesIn(log, t)) = Len(log)
<1>1. log \in Seq(Nat) /\ DOMAIN log = 1 .. Len(log) /\ Len(log) \in Nat
  BY DEF Names
<1>2. ASSUME NEW j \in DOMAIN log PROVE UdsSize(t[log[j]]) \in Nat
  <2>1. log[j] \in 1 .. Len(t) /\ t[log[j]].length > 4 BY DEF Names
  <2>2. t[log[j]] \in Message BY <2>1
  <2> QED BY <2>1, <2>2 DEF Message, UdsSize
<1> QED BY <1>1, <1>2 DEF SizesIn

\* Messages more do not change what a log names.
LEMMA SizesStay ==
  ASSUME NEW t \in Seq(Message), NEW m \in Message, NEW log, Names(log, t)
  PROVE  Names(log, Append(t, m)) /\ SizesIn(log, Append(t, m)) = SizesIn(log, t)
<1> DEFINE u == Append(t, m)
<1>1. Len(u) = Len(t) + 1 /\ Len(t) \in Nat /\ \A i \in 1 .. Len(t) : u[i] = t[i]
  OBVIOUS
<1>2. log \in Seq(Nat) /\ \A j \in DOMAIN log : log[j] \in 1 .. Len(t)
  BY DEF Names
<1>3. \A j \in DOMAIN log : u[log[j]] = t[log[j]] /\ log[j] \in 1 .. Len(u)
  BY <1>1, <1>2
<1> HIDE DEF u
<1>4. Names(log, u) BY <1>2, <1>3 DEF Names
<1>5. SizesIn(log, u) = SizesIn(log, t) BY <1>3 DEF SizesIn
<1> QED BY <1>4, <1>5 DEF u

LEMMA SizesGrow ==
  ASSUME NEW t \in Seq(Message), NEW log, Names(log, t),
         NEW i \in 1 .. Len(t), t[i].type = "diag", t[i].length > 4
  PROVE  /\ Names(Append(log, i), t)
         /\ SizesIn(Append(log, i), t) = Append(SizesIn(log, t), UdsSize(t[i]))
<1> DEFINE more == Append(log, i)
<1>1. /\ more \in Seq(Nat) /\ Len(more) = Len(log) + 1 /\ Len(log) \in Nat
      /\ DOMAIN log = 1 .. Len(log) /\ DOMAIN more = 1 .. Len(log) + 1
      /\ more[Len(log) + 1] = i /\ \A j \in 1 .. Len(log) : more[j] = log[j]
  BY DEF Names
<1> HIDE DEF more
<1>2. ASSUME NEW j \in DOMAIN more
      PROVE  /\ more[j] \in 1 .. Len(t) /\ t[more[j]].type = "diag"
             /\ t[more[j]].length > 4
  <2>1. CASE j \in 1 .. Len(log) BY <2>1, <1>1 DEF Names
  <2>2. CASE j = Len(log) + 1 BY <2>2, <1>1
  <2> QED BY <2>1, <2>2, <1>1
<1>3. Names(more, t) BY <1>1, <1>2 DEF Names
<1>4. SizesIn(more, t) = Append(SizesIn(log, t), UdsSize(t[i]))
  <2>1. /\ SizesIn(log, t) \in Seq(Nat) /\ Len(SizesIn(log, t)) = Len(log)
        /\ SizesIn(log, t) = [j \in 1 .. Len(log) |-> UdsSize(t[log[j]])]
    BY SizesType, <1>1 DEF SizesIn
  <2>2. SizesIn(more, t) = [j \in 1 .. Len(log) + 1 |-> UdsSize(t[more[j]])]
    BY <1>1 DEF SizesIn
  <2>3. ASSUME NEW j \in 1 .. Len(log) + 1
        PROVE  UdsSize(t[more[j]])
                 = IF j <= Len(log) THEN SizesIn(log, t)[j] ELSE UdsSize(t[i])
    <3>1. CASE j \in 1 .. Len(log) BY <3>1, <2>1, <1>1
    <3>2. CASE j = Len(log) + 1 BY <3>2, <1>1
    <3> QED BY <3>1, <3>2, <1>1
  <2> QED BY <2>1, <2>2, <2>3, <1>1
<1> QED BY <1>3, <1>4 DEF more

-----------------------------------------------------------------------------
(* The requests main sends *)

\* What main began to send are the requests it took, each once, in their order, and
\* those sent are among the messages it took.
SentInv ==
  /\ SentOnce
  /\ Names(asked, taken) /\ Names(succeeded, taken)
  /\ phase = "send" => \A j \in DOMAIN asked : asked[j] < Len(taken)
  /\ phase = "transfer" => asked # <<>> /\ asked[Len(asked)] = Len(taken)

LEMMA SentStarts == BytesInit => SentInv
<1> SUFFICES ASSUME BytesInit PROVE SentInv
  OBVIOUS
<1>1. asked = <<>> /\ succeeded = <<>> /\ taken = <<>> /\ phase = "header"
  BY DEF BytesInit, StreamInit
<1> QED BY <1>1 DEF SentInv, SentOnce, Names

\* A message taken now is the one in hand.
LEMMA SentAfterDispatch ==
  ASSUME StreamInv, SentInv, Dispatch, UNCHANGED results
  PROVE  /\ SentInv'
         /\ Sizes(succeeded)' = Sizes(succeeded)
         /\ Small' => Small
<1>0. UNCHANGED <<asked, succeeded>> BY DEF results
<1>1. /\ taken' = Append(taken, Front) /\ Len(taken) < Len(wire)
      /\ taken \in Seq(Message)
  BY DispatchKeepsStream DEF StreamInv, Aligned
<1>2. Front \in Message BY <1>1, FrontTotal
<1>3. /\ taken' \in Seq(Message) /\ Len(taken') = Len(taken) + 1
      /\ taken'[Len(taken')] = Front
      /\ \A i \in 1 .. Len(taken) : taken'[i] = taken[i]
  BY <1>1, <1>2
<1>4. phase = "dispatch" /\ phase' \in {"header", "send", "aborted"} BY DEF Dispatch
<1>5. IsRequest(Len(taken))' => phase' = "send"
  <2>1. IsRequest(Len(taken))' => Front.type = "diag" /\ Front.length > 4
    BY <1>3 DEF IsRequest
  <2>2. Front.length > 4 => HasAddresses(Front)
    BY <1>2 DEF HasAddresses, Message
  <2>3. Front.type = "diag" /\ HasAddresses(Front) => phase' = "send"
    BY DEF Dispatch
  <2> QED BY <2>1, <2>2, <2>3
<1>6. \A i \in 1 .. Len(taken) : IsRequest(i)' <=> IsRequest(i)
  BY <1>3 DEF IsRequest
<1>7. \A i \in DOMAIN taken :
        IsRequest(i) => \E j \in DOMAIN asked : asked[j] = i
  BY <1>4 DEF SentInv, SentOnce, InHand
<1>8. \A i \in DOMAIN taken' :
        IsRequest(i)' => InHand(i)' \/ \E j \in DOMAIN asked' : asked'[j] = i
  <2> SUFFICES ASSUME NEW i \in DOMAIN taken', IsRequest(i)'
               PROVE  InHand(i)' \/ \E j \in DOMAIN asked' : asked'[j] = i
    OBVIOUS
  <2>1. CASE i \in 1 .. Len(taken) BY <2>1, <1>0, <1>1, <1>6, <1>7
  <2>2. CASE i = Len(taken') BY <2>2, <1>5 DEF InHand
  <2> QED BY <2>1, <2>2, <1>1, <1>3
<1>9. SentOnce' BY <1>0, <1>8 DEF SentInv, SentOnce
<1>10. /\ Names(asked, taken') /\ SizesIn(asked, taken') = SizesIn(asked, taken)
       /\ Names(succeeded, taken')
       /\ SizesIn(succeeded, taken') = SizesIn(succeeded, taken)
  BY <1>1, <1>2, SizesStay DEF SentInv
<1>11. \A j \in DOMAIN asked : asked[j] < Len(taken')
  BY <1>1, <1>3 DEF SentInv, Names
<1>12. SentInv'
  <2>1. Names(asked, taken)' /\ Names(succeeded, taken)' BY <1>0, <1>10
  <2> QED BY <2>1, <1>0, <1>4, <1>9, <1>11 DEF SentInv
<1>13. Sizes(succeeded)' = Sizes(succeeded)
  BY <1>0, <1>10 DEF Sizes, SizesIn
<1>14. Small' => Small
  <2>1. \A j \in DOMAIN asked : taken'[asked[j]] = taken[asked[j]]
    BY <1>3 DEF SentInv, Names
  <2> QED BY <2>1, <1>0 DEF Small
<1> QED BY <1>12, <1>13, <1>14

\* The message in hand is begun, or is no request.
LEMMA SentAfterSending ==
  ASSUME StreamInv, SentInv, NEW n, n = UdsSize(Request),
         phase = "send", phase' # "send", UNCHANGED taken,
         phase' = "transfer" => n > 0,
         asked' = IF n > 0 THEN Append(asked, Len(taken)) ELSE asked,
         succeeded' = succeeded \/ (n > 0 /\ succeeded' = Append(succeeded, Len(taken)))
  PROVE  /\ SentInv'
         /\ n \in Nat
         /\ Small' => Small /\ (n > 0 => n <= 4095)
         /\ succeeded' = succeeded => Sizes(succeeded)' = Sizes(succeeded)
         /\ n > 0 /\ succeeded' = Append(succeeded, Len(taken))
              => Sizes(succeeded)' = Append(Sizes(succeeded), n)
<1>2. /\ taken \in Seq(Message) /\ taken # <<>>
      /\ Request.type = "diag" /\ Request.length >= 4
  BY DEF StreamInv, Aligned, Phases
<1>3. Len(taken) \in 1 .. Len(taken) /\ Request \in Message BY <1>2 DEF Request
<1>4. n \in Nat BY <1>2, <1>3 DEF UdsSize, Message
<1>5. IsRequest(Len(taken)) <=> n > 0
  BY <1>2, <1>3 DEF IsRequest, UdsSize, Request, Message
<1>6. \A i \in DOMAIN taken : IsRequest(i)' <=> IsRequest(i)
  BY DEF IsRequest
<1>7. /\ asked \in Seq(Nat)
      /\ \A j \in DOMAIN asked : asked[j] \in 1 .. Len(taken) /\ asked[j] < Len(taken)
      /\ \A i, j \in DOMAIN asked : i < j => asked[i] < asked[j]
  BY DEF SentInv, SentOnce, Names
<1>8. \A i \in DOMAIN taken :
        IsRequest(i) => i = Len(taken) \/ \E j \in DOMAIN asked : asked[j] = i
  BY DEF SentInv, SentOnce, InHand
<1>9. n > 0 => /\ Names(Append(asked, Len(taken)), taken)
               /\ Names(Append(succeeded, Len(taken)), taken)
               /\ SizesIn(Append(succeeded, Len(taken)), taken)
                    = Append(SizesIn(succeeded, taken), n)
  <2> SUFFICES ASSUME n > 0
               PROVE  /\ Names(Append(asked, Len(taken)), taken)
                      /\ Names(Append(succeeded, Len(taken)), taken)
                      /\ SizesIn(Append(succeeded, Len(taken)), taken)
                           = Append(SizesIn(succeeded, taken), n)
    OBVIOUS
  <2>1. taken[Len(taken)].type = "diag" /\ taken[Len(taken)].length > 4
    BY <1>5 DEF IsRequest
  <2> QED BY <2>1, <1>2, <1>3, SizesGrow DEF SentInv, Request
<1>10. Names(asked, taken)' /\ Names(succeeded, taken)'
  <2>1. Names(asked', taken) BY <1>9, <1>4 DEF SentInv
  <2>2. Names(succeeded', taken) BY <1>9 DEF SentInv
  <2> QED BY <2>1, <2>2
<1>11. /\ succeeded' = succeeded => Sizes(succeeded)' = Sizes(succeeded)
       /\ n > 0 /\ succeeded' = Append(succeeded, Len(taken))
            => Sizes(succeeded)' = Append(Sizes(succeeded), n)
  BY <1>9 DEF Sizes, SizesIn
<1>12. CASE n > 0
  <2>1. /\ asked' = Append(asked, Len(taken)) /\ asked' \in Seq(Nat)
        /\ Len(asked') = Len(asked) + 1 /\ asked'[Len(asked')] = Len(taken)
        /\ \A j \in DOMAIN asked : asked'[j] = asked[j]
    BY <1>3, <1>7, <1>12
  <2>2. DOMAIN asked = 1 .. Len(asked) /\ DOMAIN asked' = 1 .. Len(asked) + 1
    BY <2>1, <1>7
  <2>3. \A i \in DOMAIN taken : IsRequest(i)' => \E j \in DOMAIN asked' : asked'[j] = i
    <3> SUFFICES ASSUME NEW i \in DOMAIN taken, IsRequest(i)
                 PROVE  \E j \in DOMAIN asked' : asked'[j] = i
      BY <1>6
    <3>1. CASE i = Len(taken)
      <4>1. Len(asked') \in DOMAIN asked' BY <2>1, <2>2, <1>7
      <4> QED BY <4>1, <3>1, <2>1
    <3>2. CASE \E j \in DOMAIN asked : asked[j] = i BY <3>2, <2>1, <2>2, <1>7
    <3> QED BY <3>1, <3>2, <1>8
  <2>4. \A i, j \in DOMAIN asked' : i < j => asked'[i] < asked'[j]
    <3> SUFFICES ASSUME NEW i \in DOMAIN asked', NEW j \in DOMAIN asked', i < j
                 PROVE  asked'[i] < asked'[j]
      OBVIOUS
    <3>1. CASE j \in DOMAIN asked BY <3>1, <2>1, <2>2, <1>7
    <3>2. CASE j = Len(asked') BY <3>2, <2>1, <2>2, <1>7
    <3> QED BY <3>1, <3>2, <2>1, <2>2, <1>7
  <2>5. SentOnce' BY <2>3, <2>4 DEF SentOnce
  <2>6. asked' # <<>> BY <2>1, <1>7
  <2>7. SentInv' BY <2>1, <2>5, <2>6, <1>10 DEF SentInv
  <2>8. ASSUME Small' PROVE Small /\ n <= 4095
    <3>1. \A j \in DOMAIN asked' : UdsSize(taken[asked'[j]]) <= 4095
      BY <2>8 DEF Small
    <3>2. Small BY <3>1, <2>1, <2>2, <1>7 DEF Small
    <3>3. Len(asked') \in DOMAIN asked' BY <2>1, <2>2, <1>7
    <3>4. UdsSize(taken[Len(taken)]) <= 4095 BY <3>1, <3>3, <2>1
    <3> QED BY <3>2, <3>4 DEF Request
  <2> QED BY <2>7, <2>8, <1>4, <1>11
<1>13. CASE ~(n > 0)
  <2>1. UNCHANGED <<asked, taken>> /\ phase' # "transfer" BY <1>13
  <2>2. SentOnce' BY <2>1, <1>5, <1>6, <1>7, <1>8, <1>13 DEF SentOnce
  <2>3. SentInv' BY <2>1, <2>2, <1>10 DEF SentInv
  <2>4. Small' => Small BY <2>1 DEF Small
  <2> QED BY <2>3, <2>4, <1>4, <1>11, <1>13
<1> QED BY <1>12, <1>13

\* Where nothing is taken or begun, nothing changes.
LEMMA SentStays ==
  ASSUME SentInv, UNCHANGED <<taken, results>>, phase' = "send" <=> phase = "send",
         phase' = "transfer" => phase = "transfer"
  PROVE  SentInv' /\ Sizes(succeeded)' = Sizes(succeeded) /\ (Small' => Small)
<1>0. UNCHANGED <<asked, succeeded>> BY DEF results
<1>1. \A i : IsRequest(i)' <=> IsRequest(i) BY DEF IsRequest
<1>2. SentOnce' BY <1>0, <1>1 DEF SentInv, SentOnce, InHand
<1>3. SentInv' BY <1>0, <1>1, <1>2 DEF SentInv, Names
<1> QED BY <1>0, <1>3 DEF Sizes, Small

\* A request sent to its end is the last one begun.
LEMMA SentAfterTransfer ==
  ASSUME StreamInv, SentInv, UNCHANGED <<taken, asked>>,
         phase = "transfer", phase' # "send",
         succeeded' = Append(succeeded, Len(taken))
  PROVE  /\ SentInv'
         /\ Sizes(succeeded)' = Append(Sizes(succeeded), UdsSize(Request))
         /\ Small' => Small
         /\ Append(AllButLast(asked), Len(taken)) = asked
<1>1. taken \in Seq(Message) BY DEF StreamInv, Aligned
<1>2. /\ asked \in Seq(Nat) /\ asked # <<>> /\ asked[Len(asked)] = Len(taken)
      /\ Names(asked, taken)
  BY DEF SentInv, Names
<1>3. Len(asked) \in DOMAIN asked BY <1>2
<1>4. /\ Len(taken) \in 1 .. Len(taken) /\ taken[Len(taken)].type = "diag"
      /\ taken[Len(taken)].length > 4
  BY <1>2, <1>3 DEF Names
<1>5. /\ Names(Append(succeeded, Len(taken)), taken)
      /\ SizesIn(Append(succeeded, Len(taken)), taken)
           = Append(SizesIn(succeeded, taken), UdsSize(taken[Len(taken)]))
  BY <1>1, <1>4, SizesGrow DEF SentInv
<1>6. SentOnce'
  <2>1. \A i : IsRequest(i)' <=> IsRequest(i) BY DEF IsRequest
  <2> QED BY <2>1 DEF SentInv, SentOnce, InHand
<1>7. SentInv'
  <2>1. Names(asked, taken)' /\ Names(succeeded, taken)' BY <1>2, <1>5
  <2> QED BY <2>1, <1>2, <1>6 DEF SentInv
<1>8. Sizes(succeeded)' = Append(Sizes(succeeded), UdsSize(Request))
  BY <1>5 DEF Sizes, SizesIn, Request
<1>9. Append(AllButLast(asked), Len(taken)) = asked BY <1>2 DEF AllButLast
<1>10. Small' => Small BY DEF Small
<1> QED BY <1>7, <1>8, <1>9, <1>10

-----------------------------------------------------------------------------
(* Requests reach the ECU whole *)

\* How far isotp_send is with a request, and what is in the queue for it.
CountInv ==
  /\ sending \in {"idle", "wait_fc", "block"}
  /\ phase = "transfer" <=> sending # "idle"
  /\ block_size \in BlockSizes
  /\ mishaps \in Nat /\ (mishaps = 0 => ~late)
  /\ sending # "idle" =>
       /\ size = UdsSize(Request) /\ size \in Nat
       /\ bytes_sent \in 6 .. size - 1 /\ seq_num \in Nat
  /\ sending = "block" => block_left \in Nat \ {0}
  /\ \/ fc_frame_queue = <<>>
     \/ \E fs \in {"CTS", "WAIT", "OVFLW"} :
          fc_frame_queue = << FlowControl(fs, block_size) >>

\* The ECU has the bytes main has sent of its request; or it sends no Flow Control
\* frame, having none or one that main has given up.
Together ==
  /\ e_total = size /\ e_seq = seq_num
  /\ e_buffer = [n |-> bytes_sent, whole |-> TRUE]
Dead == e_total = 0 \/ e_block > 0

Waiting ==
  \/ fc_frame_queue = <<>> /\ mishaps > 0 /\ Dead
  \/ fc_frame_queue = <<>> /\ Together /\ e_block = 0
  \/ /\ fc_frame_queue = << FlowControl("CTS", block_size) >>
     /\ Together /\ e_block = Granted(block_size)
  \/ /\ fc_frame_queue = << FlowControl("WAIT", block_size) >>
     /\ Together /\ e_block = 0
  \/ /\ fc_frame_queue = << FlowControl("OVFLW", block_size) >>
     /\ mishaps > 0 /\ e_total = 0

Settled == requests = WholeMessages(Sizes(succeeded))
Position ==
  /\ sending = "idle" => fc_frame_queue = <<>> /\ Dead
  /\ sending = "block" => fc_frame_queue = <<>> /\ Together /\ e_block = block_left
  /\ sending = "wait_fc" => Waiting
Lockstep == Small /\ ~late => Settled /\ Position

\* Without a mishap, a request main has begun it will send to its end.
Clean ==
  Small /\ mishaps = 0 =>
    succeeded = IF sending = "idle" THEN asked ELSE AllButLast(asked)

RequestInv == StreamInv /\ SentInv /\ CountInv /\ Lockstep /\ Clean

\* One size more is one whole message more.
LEMMA WholeAppend ==
  ASSUME NEW s \in Seq(Nat), NEW x \in Nat
  PROVE  /\ WholeMessages(Append(s, x))
              = Append(WholeMessages(s), [n |-> x, whole |-> TRUE])
         /\ AllButLast(Append(s, x)) = s
<1> DEFINE whole(k) == [n |-> k, whole |-> TRUE]
           t == Append(s, x)
<1>1. /\ t \in Seq(Nat) /\ Len(t) = Len(s) + 1 /\ Len(s) \in Nat /\ t[Len(t)] = x
      /\ \A i \in 1 .. Len(s) : t[i] = s[i]
      /\ DOMAIN t = 1 .. Len(s) + 1 /\ DOMAIN s = 1 .. Len(s)
  OBVIOUS
<1>2. /\ WholeMessages(s) = [i \in 1 .. Len(s) |-> whole(s[i])]
      /\ WholeMessages(t) = [i \in 1 .. Len(s) + 1 |-> whole(t[i])]
  BY <1>1 DEF WholeMessages
<1> HIDE DEF whole, t
<1>3. WholeMessages(t) = Append(WholeMessages(s), whole(x))
  BY <1>1, <1>2
<1>4. AllButLast(t) = s
  BY <1>1 DEF AllButLast
<1> QED BY <1>3, <1>4 DEF whole, t

\* Whatever is last completes what comes before it.
LEMMA WholeLast ==
  ASSUME NEW s \in Seq(Nat), s # <<>>
  PROVE  WholeMessages(s)
           = Append(WholeMessages(AllButLast(s)),
                    [n |-> s[Len(s)], whole |-> TRUE])
<1>1. /\ AllButLast(s) \in Seq(Nat) /\ s[Len(s)] \in Nat
      /\ s = Append(AllButLast(s), s[Len(s)])
  BY DEF AllButLast
<1> QED BY <1>1, WholeAppend

\* A buffer stays whole with the bytes it has next.
LEMMA ExtendWhole ==
  ASSUME NEW m \in Nat, NEW k \in Nat
  PROVE  Extend([n |-> m, whole |-> TRUE], m, k) = [n |-> m + k, whole |-> TRUE]
<1> DEFINE b == [n |-> m, whole |-> TRUE]
<1>1. b.n = m /\ b.whole = TRUE OBVIOUS
<1>2. (b.whole /\ m = b.n) = TRUE BY <1>1, Zenon
<1>3. b.n + k = m + k BY <1>1
<1> HIDE DEF b
<1> QED BY <1>2, <1>3 DEF Extend, b

LEMMA EmptyExtended ==
  ASSUME NEW k \in Nat
  PROVE  Extend(Empty, 0, k) = [n |-> k, whole |-> TRUE]
<1>1. Extend([n |-> 0, whole |-> TRUE], 0, k) = [n |-> 0 + k, whole |-> TRUE]
  BY ExtendWhole
<1>2. 0 + k = k OBVIOUS
<1> QED BY <1>1, <1>2 DEF Empty

LEMMA RequestStarts == BytesInit => RequestInv
<1> SUFFICES ASSUME BytesInit PROVE RequestInv
  OBVIOUS
<1>1. /\ sending = "idle" /\ phase = "header" /\ e_total = 0 /\ requests = <<>>
      /\ asked = <<>> /\ succeeded = <<>> /\ block_size \in BlockSizes
      /\ fc_frame_queue = <<>> /\ mishaps = 0 /\ late = FALSE
  BY DEF BytesInit, StreamInit, IsoTpInit
<1>2. CountInv BY <1>1 DEF CountInv
<1>3. Sizes(succeeded) = <<>> BY <1>1 DEF Sizes
<1>4. Settled BY <1>1, <1>3 DEF WholeMessages, Settled
<1>5. Position BY <1>1 DEF Position, Dead
<1>6. Clean BY <1>1 DEF Clean
<1> QED BY <1>2, <1>4, <1>5, <1>6, StreamStarts, SentStarts DEF RequestInv, Lockstep

\* What main and the ECU have of a request stays the same while only the stream moves.
LEMMA LockstepStays ==
  ASSUME Lockstep, Clean, UNCHANGED <<send_vars, ecu_rx, results, faults, block_size>>,
         Sizes(succeeded)' = Sizes(succeeded), Small' => Small
  PROVE  Lockstep' /\ Clean'
<1>1. /\ UNCHANGED <<fc_frame_queue, sending, size, bytes_sent, seq_num, block_left>>
      /\ UNCHANGED <<e_total, e_buffer, e_seq, e_block, requests>>
      /\ UNCHANGED <<asked, succeeded, mishaps, late, block_size>>
  BY DEF send_vars, ecu_rx, results, faults
<1>2. Settled => Settled' BY <1>1 DEF Settled, WholeMessages
<1>3. Position => Position' BY <1>1 DEF Position, Waiting, Together, Dead, Granted
<1>4. Clean' BY <1>1 DEF Clean, AllButLast
<1> QED BY <1>1, <1>2, <1>3, <1>4 DEF Lockstep

LEMMA StreamKeepsRequests ==
  ASSUME RequestInv, Stream, UNCHANGED block_size
  PROVE  RequestInv'
<1>1. StreamInv' BY StreamKeepsStep DEF RequestInv
<1>2. UNCHANGED <<send_vars, ecu_rx, results, faults>> BY DEF Stream
<1>3. /\ phase' = "transfer" <=> phase = "transfer"
      /\ sending # "idle" => UNCHANGED taken
  <2>1. /\ phase' = "transfer" <=> phase = "transfer"
        /\ phase = "transfer" => UNCHANGED taken
    BY DEF Stream, TesterWrites, TesterLeaves, Arrive, ReadHeader, ReadHeaderInPieces,
           ReadPayload, Received, Dispatch, ConnectionLost
  <2> QED BY <2>1 DEF RequestInv, CountInv
<1>4. CountInv'
  BY <1>2, <1>3 DEF RequestInv, CountInv, send_vars, faults, Request
<1>5. SentInv' /\ Sizes(succeeded)' = Sizes(succeeded) /\ (Small' => Small)
  <2>1. CASE Dispatch BY <2>1, <1>2, SentAfterDispatch DEF RequestInv
  <2>2. CASE ~Dispatch
    <3>1. UNCHANGED taken
      BY <2>2 DEF Stream, TesterWrites, TesterLeaves, Arrive, ReadHeader,
                  ReadHeaderInPieces, ReadPayload, ConnectionLost
    <3>2. phase' = "send" <=> phase = "send"
      BY <2>2 DEF Stream, TesterWrites, TesterLeaves, Arrive, ReadHeader,
                  ReadHeaderInPieces, ReadPayload, Received, ConnectionLost
    <3> QED BY <3>1, <3>2, <1>2, <1>3, SentStays DEF RequestInv
  <2> QED BY <2>1, <2>2
<1>6. Lockstep' /\ Clean' BY <1>2, <1>5, LockstepStays DEF RequestInv
<1> QED BY <1>1, <1>4, <1>5, <1>6 DEF RequestInv

\* A frame that was not written leaves the ECU as it is.
LEMMA NothingTaken == EcuTakes(NoFrame) => UNCHANGED ecu_rx
BY DEF EcuTakes, NoFrame

\* A mishap is counted.
LEMMA MishapCounted ==
  ASSUME mishaps \in Nat, NEW well, Goes(well)
  PROVE  mishaps' \in Nat /\ (well => mishaps' = mishaps) /\ (~well => mishaps' > 0)
         /\ (mishaps' = 0 => mishaps = 0 /\ well)
BY DEF Goes

\* A single frame is a whole request, if it is written.
LEMMA SingleKeepsRequests ==
  ASSUME RequestInv, NEW ok \in BOOLEAN, MainSends(ok),
         SendSingleFrame(UdsSize(Request), ok), UNCHANGED block_size
  PROVE  RequestInv'
<1> DEFINE n == UdsSize(Request)
<1>1. /\ phase = "send" /\ UNCHANGED <<wire, here, got, taken, late>>
      /\ asked' = IF n > 0 THEN Append(asked, Len(taken)) ELSE asked
      /\ MainReturns /\ EcuTakes(frame') /\ Goes(ok)
      /\ phase' = IF sending' = "idle" THEN "header" ELSE "transfer"
  BY DEF MainSends, MainGoesOn
<1>2. /\ sending = "idle" /\ sending' = "idle" /\ n <= 7 /\ phase' = "header"
      /\ frame' = IF ok THEN SingleFrame(n) ELSE NoFrame
      /\ UNCHANGED fc_frame_queue
  BY <1>1 DEF SendSingleFrame, Write
<1>3. SendSucceeds <=> ok BY <1>2 DEF SendSucceeds, SingleFrame, NoFrame
<1>4. succeeded' = IF ok /\ n > 0 THEN Append(succeeded, Len(taken)) ELSE succeeded
  BY <1>1, <1>3 DEF MainReturns
<1>5. /\ SentInv' /\ n \in Nat /\ (Small' => Small)
      /\ ~(ok /\ n > 0) => Sizes(succeeded)' = Sizes(succeeded)
      /\ ok /\ n > 0 => Sizes(succeeded)' = Append(Sizes(succeeded), n)
  <2>1. /\ StreamInv /\ SentInv /\ n = UdsSize(Request)
        /\ phase' # "send" /\ phase' # "transfer"
        /\ succeeded' = succeeded \/ (n > 0 /\ succeeded' = Append(succeeded, Len(taken)))
    BY <1>2, <1>4 DEF RequestInv
  <2> HIDE DEF n
  <2> QED BY <2>1, <1>1, <1>4, SentAfterSending
<1> HIDE DEF n
<1>6. StreamInv' BY <1>1, <1>2, SendingKeepsStream DEF RequestInv
<1>7. mishaps \in Nat BY DEF RequestInv, CountInv
<1>8. mishaps' \in Nat /\ (mishaps' = 0 => mishaps = 0 /\ ok) BY <1>1, <1>7, MishapCounted
<1>9. CountInv' BY <1>1, <1>2, <1>8 DEF RequestInv, CountInv
<1>10. CASE ok
  <2>1. /\ e_total' = 0
        /\ requests' = IF n = 0 THEN requests ELSE Append(requests, Extend(Empty, 0, n))
    BY <1>1, <1>2, <1>10 DEF EcuTakes, NothingMore, SingleFrame
  <2>2. Extend(Empty, 0, n) = [n |-> n, whole |-> TRUE] BY <1>5, EmptyExtended
  <2>3. Settled => Settled'
    <3> SUFFICES ASSUME Settled PROVE Settled'
      OBVIOUS
    <3>1. CASE n = 0
      <4>1. Sizes(succeeded)' = Sizes(succeeded) /\ requests' = requests
        BY <3>1, <2>1, <1>5
      <4> QED BY <4>1 DEF Settled, WholeMessages
    <3>2. CASE n > 0
      <4>1. Sizes(succeeded) \in Seq(Nat)
        BY SizesType DEF RequestInv, StreamInv, Aligned, SentInv, Sizes, SizesIn
      <4>2. WholeMessages(Append(Sizes(succeeded), n)) = requests'
        BY <3>2, <4>1, <2>1, <2>2, <1>5, WholeAppend DEF Settled
      <4>3. Sizes(succeeded)' = Append(Sizes(succeeded), n) BY <3>2, <1>5, <1>10
      <4>4. WholeMessages(Sizes(succeeded))' = WholeMessages(Append(Sizes(succeeded), n))
        BY <4>3 DEF WholeMessages
      <4> QED BY <4>2, <4>4 DEF Settled
    <3> QED BY <3>1, <3>2, <1>5
  <2>4. Position => Position' BY <1>2, <2>1 DEF Position, Dead
  <2>5. Lockstep' BY <2>3, <2>4, <1>1, <1>5 DEF RequestInv, Lockstep
  <2>6. Clean'
    <3>1. CASE n > 0 BY <3>1, <1>1, <1>2, <1>4, <1>5, <1>8, <1>10 DEF RequestInv, Clean
    <3>2. CASE ~(n > 0) BY <3>2, <1>1, <1>2, <1>4, <1>5, <1>8 DEF RequestInv, Clean
    <3> QED BY <3>1, <3>2
  <2> QED BY <2>5, <2>6, <1>5, <1>6, <1>9 DEF RequestInv
<1>11. CASE ~ok
  <2>1. UNCHANGED ecu_rx BY <1>1, <1>2, <1>11, NothingTaken
  <2>2. UNCHANGED <<e_total, e_block, requests>> BY <2>1 DEF ecu_rx
  <2>3. Settled => Settled' BY <2>2, <1>5, <1>11 DEF Settled, WholeMessages
  <2>4. Position => Position' BY <2>2, <1>2 DEF Position, Dead
  <2>5. Lockstep' BY <2>3, <2>4, <1>1, <1>5 DEF RequestInv, Lockstep
  <2>6. Clean' BY <1>8, <1>11 DEF Clean
  <2> QED BY <2>5, <2>6, <1>5, <1>6, <1>9 DEF RequestInv
<1> QED BY <1>10, <1>11

\* A first frame begins one, with its size unless that takes more than twelve bits; if
\* it is not written, main waits for nothing.
LEMMA FirstKeepsRequests ==
  ASSUME RequestInv, NEW ok \in BOOLEAN, MainSends(ok),
         SendFirstFrame(UdsSize(Request), ok), UNCHANGED block_size
  PROVE  RequestInv'
<1> DEFINE n == UdsSize(Request)
<1>1. /\ phase = "send" /\ UNCHANGED <<wire, here, got, taken, late>>
      /\ asked' = IF n > 0 THEN Append(asked, Len(taken)) ELSE asked
      /\ MainReturns /\ EcuTakes(frame') /\ Goes(ok)
      /\ phase' = IF sending' = "idle" THEN "header" ELSE "transfer"
  BY DEF MainSends, MainGoesOn
<1>2. /\ sending = "idle" /\ sending' = "wait_fc" /\ n > 7 /\ phase' = "transfer"
      /\ frame' = IF ok THEN FirstFrame(Announced(n), 8) ELSE NoFrame
      /\ size' = n /\ bytes_sent' = 6 /\ seq_num' = 1
      /\ UNCHANGED fc_frame_queue
  BY <1>1 DEF SendFirstFrame, Write
<1>3. UNCHANGED succeeded BY <1>1, <1>2 DEF MainReturns, SendSucceeds
<1>5. /\ SentInv' /\ n \in Nat /\ (Small' => Small /\ (n > 0 => n <= 4095))
      /\ Sizes(succeeded)' = Sizes(succeeded)
  <2>1. n \in Nat
    <3>1. /\ taken \in Seq(Message) /\ taken # <<>>
          /\ Request.type = "diag" /\ Request.length >= 4
      BY <1>1 DEF RequestInv, StreamInv, Aligned, Phases
    <3>2. Request \in Message BY <3>1 DEF Request
    <3> QED BY <3>1, <3>2 DEF UdsSize, Message
  <2>2. n > 0 BY <2>1, <1>2
  <2>3. StreamInv /\ SentInv /\ n = UdsSize(Request) /\ phase' # "send"
    BY <1>2 DEF RequestInv
  <2> HIDE DEF n
  <2> QED BY <2>1, <2>2, <2>3, <1>1, <1>3, SentAfterSending
<1>6. StreamInv' BY <1>1, <1>2, SendingKeepsStream DEF RequestInv
<1>7. mishaps \in Nat BY DEF RequestInv, CountInv
<1>8. mishaps' \in Nat /\ (mishaps' = 0 => mishaps = 0 /\ ok) BY <1>1, <1>7, MishapCounted
<1>9. UdsSize(Request)' = n BY <1>1 DEF UdsSize, Request
<1> HIDE DEF n
<1>10. CountInv' BY <1>1, <1>2, <1>5, <1>8, <1>9 DEF RequestInv, CountInv
<1>11. Clean'
  <2> SUFFICES ASSUME Small', mishaps' = 0 PROVE succeeded' = AllButLast(asked)'
    BY <1>2 DEF Clean
  <2>1. succeeded = asked /\ asked' = Append(asked, Len(taken))
    BY <1>1, <1>2, <1>5, <1>8 DEF RequestInv, Clean
  <2>2. asked \in Seq(Nat) BY DEF RequestInv, SentInv, Names
  <2>3. AllButLast(Append(asked, Len(taken))) = asked
    <3>1. Len(taken) \in Nat BY DEF RequestInv, StreamInv, Aligned
    <3> QED BY <2>2, <3>1, WholeAppend
  <2> QED BY <2>1, <2>3, <1>3 DEF AllButLast
<1>12. Lockstep'
  <2> SUFFICES ASSUME Small', ~late PROVE Settled' /\ Waiting'
    BY <1>1, <1>2 DEF Lockstep, Position
  <2>1. Settled /\ fc_frame_queue = <<>> /\ Dead /\ n <= 4095
    BY <1>2, <1>5 DEF RequestInv, Lockstep, Position
  <2>2. CASE ok
    <3>1. Announced(n) = n BY <2>1, <1>5 DEF Announced
    <3>2. frame'.pci = "FF" /\ frame'.len = n /\ frame'.from = 0
      BY <3>1, <2>2, <1>2 DEF FirstFrame
    <3>3. /\ e_total' = n /\ e_buffer' = Extend(Empty, 0, 6) /\ e_seq' = 1
          /\ e_block' = 0 /\ UNCHANGED requests
      BY <3>2, <1>1, <1>2, <1>5 DEF EcuTakes
    <3>4. Extend(Empty, 0, 6) = [n |-> 6, whole |-> TRUE] BY EmptyExtended
    <3>5. Together' BY <3>3, <3>4, <1>2 DEF Together
    <3>6. Settled' BY <3>3, <2>1, <1>5 DEF Settled, WholeMessages
    <3> QED BY <3>3, <3>5, <3>6, <2>1, <1>2 DEF Waiting
  <2>3. CASE ~ok
    <3>1. UNCHANGED ecu_rx BY <1>1, <1>2, <2>3, NothingTaken
    <3>2. UNCHANGED <<e_total, e_block, requests>> BY <3>1 DEF ecu_rx
    <3>3. Settled' BY <3>2, <2>1, <1>5 DEF Settled, WholeMessages
    <3>4. Dead' BY <3>2, <2>1 DEF Dead
    <3>5. mishaps' > 0 BY <1>8, <2>3
    <3> QED BY <3>3, <3>4, <3>5, <2>1, <1>2 DEF Waiting
  <2> QED BY <2>2, <2>3
<1> QED BY <1>5, <1>6, <1>10, <1>11, <1>12 DEF RequestInv

\* The ECU takes a frame it waits for.
LEMMA NextFrameTaken ==
  ASSUME NEW f, EcuTakes(f), f.pci = "CF", e_block > 0, f.len = e_seq,
         NEW n, n = Least(7, e_total - e_buffer.n), f.dlc > n
  PROVE  LET buffer == Extend(e_buffer, f.from, n)
         IN \/ /\ buffer.n = e_total
               /\ requests' = Append(requests, buffer) /\ NothingMore
            \/ /\ buffer.n < e_total
               /\ e_buffer' = buffer /\ e_seq' = NextNibble(e_seq)
               /\ e_block' = e_block - 1
               /\ UNCHANGED <<e_total, requests>>
BY Zenon DEF EcuTakes

\* A Flow Control frame is taken: a block, another wait, or the end of the transfer.
LEMMA FlowControlKeepsRequests ==
  ASSUME RequestInv, MainTakesFlowControl, UNCHANGED block_size
  PROVE  RequestInv'
<1>1. /\ sending = "wait_fc" /\ fc_frame_queue # <<>>
      /\ fc_frame_queue' = Tail(fc_frame_queue)
      /\ phase' = IF sending' = "idle" THEN "header" ELSE "transfer"
      /\ UNCHANGED <<wire, here, got, taken, size, bytes_sent, seq_num>>
      /\ UNCHANGED <<ecu_rx, results, faults>>
  BY DEF MainTakesFlowControl, TakeFlowControl, MainGoesOn
<1>2. PICK fs \in {"CTS", "WAIT", "OVFLW"} :
        fc_frame_queue = << FlowControl(fs, block_size) >>
  BY <1>1 DEF RequestInv, CountInv
<1>3. /\ fc_frame_queue' = <<>> /\ Head(fc_frame_queue) = FlowControl(fs, block_size)
  BY <1>1, <1>2
<1>4. /\ fs = "CTS" => sending' = "block" /\ block_left' = Granted(block_size)
      /\ fs = "WAIT" => sending' = "wait_fc"
      /\ fs = "OVFLW" => sending' = "idle"
  BY <1>1, <1>3 DEF MainTakesFlowControl, TakeFlowControl, FlowControl
<1>5. /\ UNCHANGED <<e_total, e_buffer, e_seq, e_block, requests>>
      /\ UNCHANGED <<asked, succeeded, mishaps, late>>
  BY <1>1 DEF ecu_rx, results, faults
<1>6. phase = "transfer" BY <1>1 DEF RequestInv, CountInv
<1>7. StreamInv' BY <1>1, <1>6, SendingKeepsStream DEF RequestInv
<1>8. SentInv' /\ Sizes(succeeded)' = Sizes(succeeded) /\ (Small' => Small)
  BY <1>1, <1>6, SentStays DEF RequestInv
<1>9. Granted(block_size) \in Nat \ {0}
  BY BytesAssumption DEF RequestInv, CountInv, Granted, MAX_CONSECUTIVE_FRAMES_IN_BLOCK
<1>10. CountInv'
  BY <1>1, <1>3, <1>4, <1>5, <1>9 DEF RequestInv, CountInv, Request
<1>11. FlowControl(fs, block_size).fs = fs BY DEF FlowControl
<1>12. ASSUME Small', ~late PROVE Settled' /\ Position' /\ (fs = "OVFLW" => mishaps > 0)
  <2>1. Settled /\ Waiting
    BY <1>1, <1>8, <1>12 DEF RequestInv, Lockstep, Position
  <2>2. Settled' BY <2>1, <1>5, <1>8 DEF Settled, WholeMessages
  <2>3. /\ fs = "CTS" => Together /\ e_block = Granted(block_size)
        /\ fs = "WAIT" => Together /\ e_block = 0
        /\ fs = "OVFLW" => mishaps > 0 /\ e_total = 0
    BY <2>1, <1>2 DEF Waiting, FlowControl
  <2>4. Together => Together' BY <1>1, <1>5 DEF Together
  <2>5. Position'
    <3>1. CASE fs = "CTS"
      BY <3>1, <2>3, <2>4, <1>3, <1>4, <1>5 DEF Position
    <3>2. CASE fs = "WAIT"
      BY <3>2, <2>3, <2>4, <1>3, <1>4, <1>5 DEF Position, Waiting
    <3>3. CASE fs = "OVFLW"
      BY <3>3, <2>3, <1>3, <1>4, <1>5 DEF Position, Dead
    <3> QED BY <3>1, <3>2, <3>3
  <2> QED BY <2>2, <2>3, <2>5
<1>13. Lockstep' BY <1>5, <1>12 DEF Lockstep
<1>14. Clean'
  <2> SUFFICES ASSUME Small', mishaps' = 0
               PROVE  succeeded' = IF sending' = "idle" THEN asked' ELSE AllButLast(asked)'
    BY DEF Clean
  <2>1. ~late BY <1>5 DEF RequestInv, CountInv
  <2>2. fs # "OVFLW" BY <2>1, <1>5, <1>12
  <2>3. sending' # "idle" BY <2>2, <1>4
  <2>4. succeeded = AllButLast(asked) BY <1>1, <1>5, <1>8 DEF RequestInv, Clean
  <2> QED BY <2>3, <2>4, <1>5 DEF AllButLast
<1> QED BY <1>7, <1>8, <1>10, <1>13, <1>14 DEF RequestInv

\* Main gives up, in vain or for a Flow Control frame that is late.
LEMMA TimeoutKeepsRequests ==
  ASSUME RequestInv, MainTimesOut, UNCHANGED block_size
  PROVE  RequestInv'
<1>1. /\ sending = "wait_fc" /\ sending' = "idle" /\ phase' = "header"
      /\ fc_frame_queue = <<>> /\ late' = (late \/ Owes) /\ Goes(~Owes)
      /\ UNCHANGED <<fc_frame_queue, wire, here, got, taken>>
      /\ UNCHANGED <<ecu_rx, results>>
  BY DEF MainTimesOut, Timeout, MainGoesOn
<1>2. /\ UNCHANGED <<e_total, e_buffer, e_seq, e_block, requests>>
      /\ UNCHANGED <<asked, succeeded>>
  BY <1>1 DEF ecu_rx, results
<1>3. phase = "transfer" BY <1>1 DEF RequestInv, CountInv
<1>4. StreamInv' BY <1>1, <1>3, SendingKeepsStream DEF RequestInv
<1>5. SentInv' /\ Sizes(succeeded)' = Sizes(succeeded) /\ (Small' => Small)
  BY <1>1, <1>3, SentStays DEF RequestInv
<1>6. mishaps \in Nat /\ (mishaps = 0 => ~late) BY DEF RequestInv, CountInv
<1>7. mishaps' \in Nat /\ (mishaps' = 0 => mishaps = 0 /\ ~Owes)
  BY <1>1, <1>6, MishapCounted
<1>8. CountInv' BY <1>1, <1>6, <1>7 DEF RequestInv, CountInv
<1>9. ASSUME Small', ~late PROVE Settled /\ ((mishaps > 0 /\ Dead) \/ Owes)
  <2>1. Settled /\ Waiting
    BY <1>1, <1>5, <1>9 DEF RequestInv, Lockstep, Position
  <2>2. (mishaps > 0 /\ Dead) \/ (Together /\ e_block = 0)
    BY <2>1, <1>1 DEF Waiting
  <2>3. Together => e_total > 0 BY <1>1 DEF Together, RequestInv, CountInv
  <2> QED BY <2>1, <2>2, <2>3 DEF Owes
<1>10. Lockstep'
  <2> SUFFICES ASSUME Small', ~late, ~Owes PROVE Settled' /\ Position'
    BY <1>1 DEF Lockstep
  <2>1. Settled /\ Dead BY <1>9
  <2> QED BY <2>1, <1>1, <1>2, <1>5 DEF Settled, WholeMessages, Position, Dead
<1>11. Clean'
  <2> SUFFICES ASSUME Small', mishaps' = 0 PROVE FALSE
    BY DEF Clean
  <2>1. mishaps = 0 /\ ~Owes /\ ~late BY <1>6, <1>7
  <2> QED BY <2>1, <1>9
<1> QED BY <1>4, <1>5, <1>8, <1>10, <1>11 DEF RequestInv

\* The ECU sends a Flow Control frame when main waits for it, or for a transfer main
\* has given up.
LEMMA EcuKeepsRequests ==
  ASSUME RequestInv, NEW fs \in {"CTS", "WAIT", "OVFLW"}, NEW lost \in BOOLEAN,
         EcuFlowControl(fs, lost), UNCHANGED block_size
  PROVE  RequestInv'
<1>1. /\ Owes /\ fc_frame_queue = <<>>
      /\ fc_frame_queue' = IF lost THEN <<>> ELSE << FlowControl(fs, block_size) >>
      /\ fs = "CTS" => /\ e_block' = Granted(block_size)
                       /\ UNCHANGED <<e_total, e_buffer, e_seq>>
      /\ fs = "WAIT" => UNCHANGED <<e_total, e_buffer, e_seq, e_block>>
      /\ fs = "OVFLW" => e_total' = 0
      /\ Goes(~lost /\ fs # "OVFLW")
      /\ UNCHANGED <<stream_vars, sending, size, bytes_sent, seq_num, block_left>>
      /\ UNCHANGED <<requests, results, late>>
  BY DEF EcuFlowControl, NothingMore
<1>2. UNCHANGED <<wire, here, got, phase, taken>> /\ UNCHANGED <<asked, succeeded>>
  BY <1>1 DEF stream_vars, results
<1>3. StreamInv'
  BY <1>2 DEF RequestInv, StreamInv, Aligned, Counted, Phases, Total, Front, Request
<1>4. SentInv' /\ Sizes(succeeded)' = Sizes(succeeded) /\ (Small' => Small)
  BY <1>1, <1>2, SentStays DEF RequestInv
<1>5. mishaps \in Nat /\ (mishaps = 0 => ~late) BY DEF RequestInv, CountInv
<1>6. /\ mishaps' \in Nat /\ (mishaps' = 0 => mishaps = 0 /\ ~lost /\ fs # "OVFLW")
      /\ (lost \/ fs = "OVFLW" => mishaps' > 0)
  BY <1>1, <1>5, MishapCounted
<1>7. CountInv' BY <1>1, <1>2, <1>5, <1>6 DEF RequestInv, CountInv, Request
<1>8. Clean' BY <1>1, <1>2, <1>4, <1>6 DEF RequestInv, Clean, AllButLast
<1>9. Lockstep'
  <2> SUFFICES ASSUME Small', ~late PROVE Settled' /\ Position'
    BY <1>1 DEF Lockstep
  <2>1. Settled /\ Position BY <1>4 DEF RequestInv, Lockstep
  <2>2. Settled' BY <2>1, <1>1, <1>4 DEF Settled, WholeMessages
  <2>3. ~Dead /\ e_block = 0 BY <1>1 DEF Owes, Dead
  <2>4. sending = "wait_fc"
    <3>1. sending # "idle" BY <2>1, <2>3 DEF Position
    <3>2. sending # "block"
      BY <2>1, <2>3 DEF Position, RequestInv, CountInv
    <3> QED BY <3>1, <3>2 DEF RequestInv, CountInv
  <2>5. Together BY <2>1, <2>3, <2>4, <1>1 DEF Position, Waiting
  <2>6. fs # "OVFLW" => Together' BY <2>5, <1>1 DEF Together
  <2>7. Granted(block_size) \in Nat \ {0}
    BY BytesAssumption DEF RequestInv, CountInv, Granted, MAX_CONSECUTIVE_FRAMES_IN_BLOCK
  <2>8. Waiting'
    <3>1. CASE fs = "CTS"
      <4>1. e_block' = Granted(block_size) /\ Dead' BY <3>1, <2>7, <1>1 DEF Dead
      <4>2. CASE lost BY <4>1, <4>2, <1>1, <1>6 DEF Waiting
      <4>3. CASE ~lost BY <4>1, <4>3, <3>1, <2>6, <1>1 DEF Waiting, Granted
      <4> QED BY <4>2, <4>3
    <3>2. CASE fs = "WAIT"
      <4>1. e_block' = 0 /\ Together' BY <3>2, <2>3, <2>6, <1>1
      <4>2. CASE lost BY <4>1, <4>2, <1>1 DEF Waiting
      <4>3. CASE ~lost BY <4>1, <4>3, <3>2, <1>1 DEF Waiting
      <4> QED BY <4>2, <4>3
    <3>3. CASE fs = "OVFLW"
      <4>1. e_total' = 0 /\ mishaps' > 0 BY <3>3, <1>1, <1>6
      <4>2. CASE lost BY <4>1, <4>2, <1>1 DEF Waiting, Dead
      <4>3. CASE ~lost BY <4>1, <4>3, <3>3, <1>1 DEF Waiting
      <4> QED BY <4>2, <4>3
    <3> QED BY <3>1, <3>2, <3>3
  <2> QED BY <2>2, <2>4, <2>8, <1>1 DEF Position
<1> QED BY <1>3, <1>4, <1>7, <1>8, <1>9 DEF RequestInv

\* A consecutive frame is not written: the transfer ends, in the middle for the ECU.
LEMMA AbortKeepsRequests ==
  ASSUME RequestInv, MainContinues(FALSE), UNCHANGED block_size
  PROVE  RequestInv'
<1>1. /\ sending = "block" /\ sending' = "idle" /\ frame' = NoFrame /\ phase' = "header"
      /\ MainReturns /\ EcuTakes(frame') /\ Goes(FALSE)
      /\ UNCHANGED <<wire, here, got, taken, fc_frame_queue, asked, late>>
  BY DEF MainContinues, AbortTransfer, Write, MainGoesOn
<1>2. UNCHANGED succeeded BY <1>1 DEF MainReturns, SendSucceeds
<1>3. UNCHANGED ecu_rx BY <1>1, NothingTaken
<1>4. UNCHANGED <<e_total, e_block, requests>> BY <1>3 DEF ecu_rx
<1>5. phase = "transfer" BY <1>1 DEF RequestInv, CountInv
<1>6. StreamInv' BY <1>1, <1>5, SendingKeepsStream DEF RequestInv
<1>7. SentInv' /\ Sizes(succeeded)' = Sizes(succeeded) /\ (Small' => Small)
  <2>1. UNCHANGED results BY <1>1, <1>2 DEF results
  <2> QED BY <2>1, <1>1, <1>5, SentStays DEF RequestInv
<1>8. mishaps \in Nat BY DEF RequestInv, CountInv
<1>9. mishaps' \in Nat /\ mishaps' > 0 BY <1>1, <1>8, MishapCounted
<1>10. CountInv' BY <1>1, <1>9 DEF RequestInv, CountInv
<1>11. Clean' BY <1>9 DEF Clean
<1>12. Lockstep'
  <2> SUFFICES ASSUME Small', ~late PROVE Settled' /\ Position'
    BY <1>1 DEF Lockstep
  <2>1. Settled /\ fc_frame_queue = <<>> /\ e_block = block_left /\ block_left > 0
    BY <1>1, <1>7 DEF RequestInv, Lockstep, Position, CountInv
  <2> QED BY <2>1, <1>1, <1>4, <1>7 DEF Settled, WholeMessages, Position, Dead
<1> QED BY <1>6, <1>7, <1>10, <1>11, <1>12 DEF RequestInv

\* Each consecutive frame brings the bytes the ECU has next, and the last completes
\* the request for both.
LEMMA ContinuingKeepsRequests ==
  ASSUME RequestInv, MainContinues(TRUE), UNCHANGED block_size
  PROVE  RequestInv'
<1> DEFINE n == Least(7, size - bytes_sent)
           buffer == Extend(e_buffer, bytes_sent, n)
<1>1. /\ sending = "block"
      /\ frame' = ConsFrame(seq_num, bytes_sent, n + 1)
      /\ bytes_sent' = bytes_sent + n /\ seq_num' = NextNibble(seq_num)
      /\ block_left' = block_left - 1
      /\ sending' = CASE bytes_sent' = size -> "idle"
                      [] bytes_sent' < size /\ block_left' = 0 -> "wait_fc"
                      [] OTHER -> "block"
      /\ UNCHANGED <<size, fc_frame_queue>>
      /\ phase' = IF sending' = "idle" THEN "header" ELSE "transfer"
      /\ MainReturns /\ EcuTakes(frame') /\ Goes(TRUE)
      /\ UNCHANGED <<wire, here, got, taken, asked, late>>
  BY DEF MainContinues, SendConsecutiveFrame, MainGoesOn, Write
<1>2. phase = "transfer" BY <1>1 DEF RequestInv, CountInv
<1>3. /\ size \in Nat /\ bytes_sent \in 6 .. size - 1 /\ seq_num \in Nat
      /\ block_left \in Nat \ {0} /\ size = UdsSize(Request) /\ mishaps \in Nat
  BY <1>1 DEF RequestInv, CountInv
<1>4. /\ n \in 1 .. 7 /\ n \in Nat /\ bytes_sent \in Nat
      /\ bytes_sent + n <= size /\ bytes_sent + n \in 6 .. size
  BY <1>3 DEF Least
<1>5. /\ frame'.pci = "CF" /\ frame'.len = seq_num /\ frame'.from = bytes_sent
      /\ frame'.dlc = n + 1 /\ frame' # NoFrame
  BY <1>1 DEF ConsFrame, NoFrame
<1>6. \/ bytes_sent' = size /\ sending' = "idle"
      \/ /\ bytes_sent' \in 6 .. size - 1
         /\ IF block_left' = 0 THEN sending' = "wait_fc" ELSE sending' = "block"
  <2>1. CASE bytes_sent' = size
    <3>1. ~(bytes_sent' < size) BY <2>1, <1>3
    <3> QED BY <3>1, <2>1, <1>1
  <2>2. CASE bytes_sent' # size
    <3>1. bytes_sent' < size /\ bytes_sent' \in 6 .. size - 1 BY <2>2, <1>1, <1>3, <1>4
    <3>2. CASE block_left' = 0 BY <3>1, <3>2, <2>2, <1>1
    <3>3. CASE block_left' # 0 BY <3>1, <3>3, <2>2, <1>1
    <3> QED BY <3>1, <3>2, <3>3
  <2> QED BY <2>1, <2>2
<1>7. /\ bytes_sent' = size => succeeded' = Append(succeeded, Len(taken))
      /\ bytes_sent' # size => succeeded' = succeeded
  <2>1. UdsSize(Request) > 0 BY <1>3
  <2>2. SendSucceeds <=> sending' = "idle" BY <1>5 DEF SendSucceeds
  <2>3. bytes_sent' = size <=> sending' = "idle" BY <1>6, <1>3
  <2> QED BY <2>1, <2>2, <2>3, <1>1 DEF MainReturns
<1> HIDE DEF n
<1>8. StreamInv' BY <1>1, <1>2, SendingKeepsStream DEF RequestInv
<1>9. mishaps' = mishaps BY <1>1, <1>3, MishapCounted
<1>10. seq_num' \in Nat /\ block_left' \in Nat BY <1>1, <1>3 DEF NextNibble
<1>11. UdsSize(Request)' = size BY <1>1, <1>3 DEF UdsSize, Request
<1>12. CountInv'
  <2>1. CASE bytes_sent' = size
    BY <2>1, <1>1, <1>3, <1>6, <1>9 DEF RequestInv, CountInv
  <2>2. CASE bytes_sent' # size
    <3>1. /\ bytes_sent' \in 6 .. size' - 1 /\ size' \in Nat
          /\ IF block_left' = 0 THEN sending' = "wait_fc" ELSE sending' = "block"
      BY <2>2, <1>1, <1>3, <1>6
    <3> QED BY <3>1, <1>1, <1>9, <1>10, <1>11 DEF RequestInv, CountInv
  <2> QED BY <2>1, <2>2
<1>13. /\ SentInv' /\ (Small' => Small)
       /\ bytes_sent' = size =>
            /\ Sizes(succeeded)' = Append(Sizes(succeeded), size)
            /\ Append(AllButLast(asked), Len(taken)) = asked
       /\ bytes_sent' # size => Sizes(succeeded)' = Sizes(succeeded)
  <2>1. CASE bytes_sent' = size
    <3>1. phase' # "send" BY <1>1
    <3> QED BY <3>1, <2>1, <1>1, <1>2, <1>3, <1>7, SentAfterTransfer DEF RequestInv
  <2>2. CASE bytes_sent' # size
    <3>1. UNCHANGED results BY <2>2, <1>1, <1>7 DEF results
    <3>2. phase' # "send" BY <1>1
    <3> QED BY <3>1, <3>2, <2>2, <1>1, <1>2, SentStays DEF RequestInv
  <2> QED BY <2>1, <2>2
<1>14. Clean'
  <2> SUFFICES ASSUME Small', mishaps' = 0
               PROVE  succeeded' = IF sending' = "idle" THEN asked ELSE AllButLast(asked)
    BY <1>1 DEF Clean, AllButLast
  <2>1. succeeded = AllButLast(asked)
    BY <1>1, <1>9, <1>13 DEF RequestInv, Clean
  <2>2. CASE bytes_sent' = size
    <3>1. sending' = "idle" BY <2>2, <1>3, <1>6
    <3> QED BY <3>1, <2>1, <2>2, <1>7, <1>13
  <2>3. CASE bytes_sent' # size
    <3>1. sending' # "idle" BY <2>3, <1>6
    <3> QED BY <3>1, <2>1, <2>3, <1>7
  <2> QED BY <2>2, <2>3
<1>15. ASSUME Small', ~late PROVE Settled' /\ Position'
  <2>1. /\ Settled /\ fc_frame_queue = <<>> /\ e_block = block_left
        /\ e_total = size /\ e_seq = seq_num
        /\ e_buffer = [n |-> bytes_sent, whole |-> TRUE]
    BY <1>1, <1>13, <1>15 DEF RequestInv, Lockstep, Position, Together
  <2>2. buffer = [n |-> bytes_sent + n, whole |-> TRUE] BY <2>1, <1>4, ExtendWhole
  <2>3. n = Least(7, e_total - e_buffer.n) BY <2>1 DEF n
  <2>4. \/ /\ buffer.n = e_total
           /\ requests' = Append(requests, buffer) /\ NothingMore
        \/ /\ buffer.n < e_total
           /\ e_buffer' = buffer /\ e_seq' = NextNibble(e_seq)
           /\ e_block' = e_block - 1
           /\ UNCHANGED <<e_total, requests>>
    <3>1. frame'.dlc > n /\ frame'.len = e_seq /\ e_block > 0
      BY <2>1, <1>3, <1>4, <1>5
    <3> QED BY <3>1, <2>3, <1>1, <1>5, NextFrameTaken
  <2> HIDE DEF buffer
  <2>5. buffer.n = bytes_sent' BY <2>2, <1>1
  <2>6. CASE bytes_sent' = size
    <3>1. requests' = Append(requests, buffer) /\ e_total' = 0
      BY <2>1, <2>4, <2>5, <2>6, <1>3 DEF NothingMore
    <3>2. buffer = [n |-> size, whole |-> TRUE] BY <2>2, <2>6, <1>1
    <3>3. Sizes(succeeded) \in Seq(Nat)
      BY SizesType DEF RequestInv, StreamInv, Aligned, SentInv, Sizes, SizesIn
    <3>4. WholeMessages(Append(Sizes(succeeded), size)) = requests'
      BY <3>1, <3>2, <3>3, <2>1, <1>3, WholeAppend DEF Settled
    <3>5. WholeMessages(Sizes(succeeded))' = WholeMessages(Append(Sizes(succeeded), size))
      BY <2>6, <1>13 DEF WholeMessages
    <3>6. Settled' BY <3>4, <3>5 DEF Settled
    <3>7. sending' = "idle" BY <2>6, <1>6, <1>3
    <3> QED BY <3>1, <3>6, <3>7, <2>1, <1>1 DEF Position, Dead
  <2>7. CASE bytes_sent' # size
    <3>1. /\ e_buffer' = buffer /\ e_seq' = NextNibble(e_seq)
          /\ e_block' = e_block - 1 /\ UNCHANGED <<e_total, requests>>
      BY <2>1, <2>4, <2>5, <2>7
    <3>2. Together' BY <3>1, <2>1, <2>2, <1>1 DEF Together
    <3>3. Settled' BY <3>1, <2>1, <2>7, <1>13 DEF Settled, WholeMessages
    <3>4. e_block' = block_left' BY <3>1, <2>1, <1>1
    <3>5. CASE block_left' = 0
      <4>1. sending' = "wait_fc" BY <3>5, <2>7, <1>6
      <4>2. Waiting' BY <3>2, <3>4, <3>5, <2>1, <1>1 DEF Waiting
      <4> QED BY <4>1, <4>2, <3>3 DEF Position
    <3>6. CASE block_left' # 0
      <4>1. sending' = "block" BY <3>6, <2>7, <1>6
      <4> QED BY <4>1, <3>2, <3>3, <3>4, <2>1, <1>1 DEF Position
    <3> QED BY <3>5, <3>6
  <2> QED BY <2>6, <2>7
<1>16. Lockstep' BY <1>1, <1>15 DEF Lockstep
<1> QED BY <1>8, <1>12, <1>13, <1>14, <1>16 DEF RequestInv

LEMMA RequestStep == RequestInv /\ [BytesNext]_bytes_vars => RequestInv'
<1> SUFFICES ASSUME RequestInv, [BytesNext]_bytes_vars PROVE RequestInv'
  OBVIOUS
<1>1. ASSUME Requests PROVE RequestInv'
  <2>1. UNCHANGED block_size BY <1>1 DEF Requests
  <2>2. ASSUME NEW ok \in BOOLEAN, MainSends(ok) PROVE RequestInv'
    <3>1. CASE SendSingleFrame(UdsSize(Request), ok)
      BY <3>1, <2>1, <2>2, SingleKeepsRequests
    <3>2. CASE SendFirstFrame(UdsSize(Request), ok)
      BY <3>2, <2>1, <2>2, FirstKeepsRequests
    <3> QED BY <3>1, <3>2, <2>2 DEF MainSends
  <2>3. CASE Stream BY <2>1, <2>3, StreamKeepsRequests
  <2>4. CASE MainTakesFlowControl BY <2>1, <2>4, FlowControlKeepsRequests
  <2>5. CASE MainTimesOut BY <2>1, <2>5, TimeoutKeepsRequests
  <2>6. ASSUME NEW ok \in BOOLEAN, MainContinues(ok) PROVE RequestInv'
    <3>1. CASE ok
      <4>1. MainContinues(TRUE) BY <3>1, <2>6
      <4> QED BY <4>1, <2>1, ContinuingKeepsRequests
    <3>2. CASE ~ok
      <4>1. MainContinues(FALSE) BY <3>2, <2>6
      <4> QED BY <4>1, <2>1, AbortKeepsRequests
    <3> QED BY <3>1, <3>2
  <2>7. ASSUME NEW fs \in {"CTS", "WAIT", "OVFLW"}, NEW lost \in BOOLEAN,
               EcuFlowControl(fs, lost)
        PROVE  RequestInv'
    BY <2>1, <2>7, EcuKeepsRequests
  <2> QED BY <1>1, <2>2, <2>3, <2>4, <2>5, <2>6, <2>7 DEF Requests
<1>2. ASSUME UNCHANGED <<stream_vars, send_vars, block_size, ecu_rx, results, faults>>
      PROVE  RequestInv'
  <2>1. UNCHANGED <<wire, here, got, phase, taken>> BY <1>2 DEF stream_vars
  <2>2. StreamInv'
    BY <2>1 DEF RequestInv, StreamInv, Aligned, Counted, Phases, Total, Front, Request
  <2>3. SentInv' /\ Sizes(succeeded)' = Sizes(succeeded) /\ (Small' => Small)
    BY <1>2, <2>1, SentStays DEF RequestInv
  <2>4. CountInv'
    BY <1>2, <2>1 DEF RequestInv, CountInv, send_vars, faults, Request
  <2>5. Lockstep' /\ Clean' BY <1>2, <2>3, LockstepStays DEF RequestInv
  <2> QED BY <2>2, <2>3, <2>4, <2>5 DEF RequestInv
<1>3. CASE Responses BY <1>2, <1>3 DEF Responses
<1>4. CASE UNCHANGED bytes_vars BY <1>2, <1>4 DEF bytes_vars
<1> QED BY <1>1, <1>3, <1>4 DEF BytesNext

LEMMA RequestAlways == BytesSpec => []RequestInv
BY RequestStarts, RequestStep, PTL DEF BytesSpec

\* Main takes the tester's messages one by one and whole, wherever TCP cuts the stream
\* but in a header: the loop that reads the payload loses no byte (uds_gateway.cpp:232-237).
\* A header that comes in pieces is what it does not stand: the first read() drops the
\* piece (:220), and InStep says nothing of the session from there.
THEOREM MessagesInStep == BytesSpec => []InStep
<1>1. RequestInv => InStep
  <2> SUFFICES ASSUME RequestInv PROVE taken = SubSeq(wire, 1, Len(taken))
    BY DEF InStep
  <2>1. /\ wire \in Seq(Message) /\ taken \in Seq(Message) /\ Len(taken) <= Len(wire)
        /\ \A i \in 1 .. Len(taken) : taken[i] = wire[i]
    BY DEF RequestInv, StreamInv, Aligned
  <2> QED BY <2>1
<1> QED BY <1>1, RequestAlways, PTL

\* Main sends every request it takes once and in order.  Of the requests of up to 4095
\* bytes, as long as main gives up waiting for no Flow Control frame still to come, the ECU
\* has those for which isotp_send returned true, with every byte in its place, and no
\* other: whatever blocks it grants or refuses, however often it asks to wait, and
\* whichever write fails.  Without a mishap isotp_send returns true for all of them.
THEOREM RequestsWhole == BytesSpec => []RequestWhole
<1>1. RequestInv => RequestWhole
  <2> SUFFICES ASSUME RequestInv PROVE RequestWhole
    OBVIOUS
  <2>1. SentOnce BY DEF RequestInv, SentInv
  <2>2. Small /\ ~late => requests = WholeMessages(Sizes(succeeded))
    BY DEF RequestInv, Lockstep, Settled
  <2>3. Small /\ mishaps = 0 =>
          \/ succeeded = asked
          \/ phase = "transfer" /\ succeeded = AllButLast(asked)
    BY DEF RequestInv, Clean, CountInv
  <2> QED BY <2>1, <2>2, <2>3 DEF RequestWhole
<1> QED BY <1>1, RequestAlways, PTL

-----------------------------------------------------------------------------
(* Responses reach the forwarder whole *)

\* With no runt, the forwarder has the bytes the ECU has sent of its response.
Quiet == receiving = "idle" /\ responses = WholeMessages(answers)

MidAnswer ==
  /\ t_size \in Nat /\ 8 <= t_size /\ t_size <= 4095
  /\ t_sent \in Nat /\ 6 <= t_sent /\ t_sent < t_size
  /\ answers # <<>> /\ t_size = answers[Len(answers)]
  /\ receiving = "cfs" /\ total_size = t_size /\ expected_seq_num = t_seq
  /\ uds_rx_buffer = [n |-> t_sent, whole |-> TRUE]
  /\ responses = WholeMessages(AllButLast(answers))

ResponseInv ==
  /\ answers \in Seq(Nat) /\ runts \in Nat
  /\ runts = 0 => IF t_size = 0 THEN Quiet ELSE MidAnswer

LEMMA ResponseStarts == BytesInit => ResponseInv
<1> SUFFICES ASSUME BytesInit PROVE ResponseInv
  OBVIOUS
<1>1. /\ answers = <<>> /\ runts = 0 /\ t_size = 0 /\ receiving = "idle"
      /\ responses = <<>>
  BY DEF BytesInit, IsoTpInit
<1>2. WholeMessages(<<>>) = <<>> BY DEF WholeMessages
<1> QED BY <1>1, <1>2 DEF ResponseInv, Quiet

\* A single frame's length is the response's, whatever the padding; a first frame
\* has six bytes of it.
LEMMA SendingKeepsResponses ==
  ASSUME ResponseInv, NEW n \in Nat, n \in ResponseSizes, NEW padded \in BOOLEAN,
         EcuSends(n, padded)
  PROVE  ResponseInv'
<1>1. /\ t_size = 0 /\ receiving = "idle" /\ answers' = Append(answers, n)
      /\ UNCHANGED runts
  BY DEF EcuSends
<1>2. n \in 1 .. 4095 BY BytesAssumption
<1>3. answers \in Seq(Nat) /\ answers' \in Seq(Nat)
  BY <1>1, <1>2 DEF ResponseInv
<1>4. Extend(Empty, 0, n) = [n |-> n, whole |-> TRUE] BY <1>2, EmptyExtended
<1>5. CASE n <= 7
  <2> DEFINE f == [SingleFrame(n) EXCEPT !.dlc = IF padded THEN 8 ELSE @]
  <2>1. Receive(f) /\ UNCHANGED t_size BY <1>5 DEF EcuSends
  <2>2. f.pci = "SF" /\ f.len = n BY DEF SingleFrame
  <2> HIDE DEF f
  <2>3. HandleSingleFrame(f)
    BY <2>1, <2>2, <1>1 DEF Receive, HandleFirstFrame, FirstFrameTooShort,
                            HandleConsecutiveFrame, Unexpected, Stray
  <2>4. /\ responses' = Append(responses, [n |-> n, whole |-> TRUE])
        /\ receiving' = "idle"
    <3>1. f.len \in 1 .. 7 BY <2>2, <1>2, <1>5
    <3>2. /\ responses' = Append(responses, Extend(Empty, 0, f.len))
          /\ receiving' = "idle"
      BY <2>3, <3>1, <1>1 DEF HandleSingleFrame
    <3> QED BY <3>2, <2>2, <1>4
  <2>5. ASSUME runts = 0 PROVE Quiet'
    <3>1. responses = WholeMessages(answers) BY <2>5, <1>1 DEF ResponseInv, Quiet
    <3>2. responses' = WholeMessages(Append(answers, n))
      BY <3>1, <2>4, <1>3, WholeAppend
    <3>3. WholeMessages(answers)' = WholeMessages(Append(answers, n))
      BY <1>1 DEF WholeMessages
    <3> QED BY <3>2, <3>3, <2>4 DEF Quiet
  <2> QED BY <2>1, <2>5, <1>1, <1>3 DEF ResponseInv
<1>6. CASE n > 7
  <2> DEFINE f == FirstFrame(n, 8)
  <2>1. Receive(f) /\ t_size' = n /\ t_sent' = 6 /\ t_seq' = 1
    BY <1>2, <1>6 DEF EcuSends
  <2>2. f.pci = "FF" /\ f.len = n /\ f.from = 0 /\ f.dlc = 8 BY DEF FirstFrame
  <2> HIDE DEF f
  <2>3. HandleFirstFrame(f)
    BY <2>1, <2>2, <1>1 DEF Receive, HandleSingleFrame, FirstFrameTooShort,
                            HandleConsecutiveFrame, Unexpected, Stray
  <2>4. Extend(Empty, 0, 6) = [n |-> 6, whole |-> TRUE] BY EmptyExtended
  <2>5. GoOn(n, [n |-> 6, whole |-> TRUE], 1)
    <3>1. f.dlc - 2 = 6 BY <2>2
    <3> QED BY <3>1, <2>2, <2>3, <2>4 DEF HandleFirstFrame
  <2>6. /\ receiving' = "cfs" /\ total_size' = n /\ expected_seq_num' = 1
        /\ uds_rx_buffer' = [n |-> 6, whole |-> TRUE] /\ UNCHANGED responses
    BY <2>5, <1>2, <1>6 DEF GoOn, Locals
  <2>7. ASSUME runts = 0 PROVE MidAnswer'
    <3> DEFINE t == Append(answers, n)
    <3>1. t # <<>> /\ t[Len(t)] = n
      <4>1. Len(t) = Len(answers) + 1 /\ t[Len(answers) + 1] = n /\ Len(answers) \in Nat
        BY <1>2, <1>3
      <4>2. t # <<>> BY <4>1
      <4> QED BY <4>1, <4>2
    <3>2. responses = WholeMessages(answers) BY <2>7, <1>1 DEF ResponseInv, Quiet
    <3>3. AllButLast(t) = answers BY <1>3, WholeAppend
    <3>4. responses' = WholeMessages(AllButLast(t)) BY <3>2, <3>3, <2>6
    <3>5. WholeMessages(AllButLast(answers))' = WholeMessages(AllButLast(t))
      BY <1>1 DEF WholeMessages, AllButLast
    <3> QED BY <3>1, <3>4, <3>5, <2>1, <2>6, <1>1, <1>2, <1>6 DEF MidAnswer
  <2> QED BY <2>1, <2>7, <1>1, <1>2, <1>3, <1>6 DEF ResponseInv
<1> QED BY <1>2, <1>5, <1>6

\* Up to the size of the greatest message, 16 bits are no bound.
LEMMA FitsInWord ==
  ASSUME NEW k \in Nat, k <= 4095
  PROVE  k % 65536 = k
OBVIOUS

\* The forwarder copies what is missing, and never the padding.
LEMMA ContinuingKeepsResponses ==
  ASSUME ResponseInv, NEW padded \in BOOLEAN, EcuContinues(padded)
  PROVE  ResponseInv'
<1> DEFINE n == Least(7, t_size - t_sent)
           f == ConsFrame(t_seq, t_sent, IF padded THEN 8 ELSE n + 1)
<1>1. /\ t_size > 0 /\ Receive(f) /\ UNCHANGED <<answers, runts>>
      /\ IF t_sent + n = t_size
         THEN t_size' = 0 /\ t_sent' = 0 /\ t_seq' = 0
         ELSE t_size' = t_size /\ t_sent' = t_sent + n /\ t_seq' = NextNibble(t_seq)
  BY DEF EcuContinues
<1>2. /\ f.pci = "CF" /\ f.len = t_seq /\ f.from = t_sent
      /\ f.dlc = IF padded THEN 8 ELSE n + 1
  BY DEF ConsFrame
<1> HIDE DEF f
<1>3. ASSUME runts = 0 PROVE IF t_size' = 0 THEN Quiet' ELSE MidAnswer'
  <2> MidAnswer BY <1>1, <1>3 DEF ResponseInv
  <2>0. /\ t_size \in Nat /\ t_sent \in Nat /\ t_sent < t_size /\ t_size <= 4095
        /\ t_size >= 8 /\ t_sent >= 6
    BY DEF MidAnswer
  <2>1. /\ answers # <<>> /\ t_size = answers[Len(answers)]
        /\ receiving = "cfs" /\ total_size = t_size /\ expected_seq_num = t_seq
        /\ uds_rx_buffer = [n |-> t_sent, whole |-> TRUE]
        /\ responses = WholeMessages(AllButLast(answers))
    BY DEF MidAnswer
  <2>2. /\ n \in Nat /\ 1 <= n /\ n <= 7 /\ t_sent + n <= t_size
        /\ n = IF 7 < t_size - t_sent THEN 7 ELSE t_size - t_sent
    BY <2>0 DEF Least
  <2>3. BytesToCopy(f) = n
    <3> HIDE DEF n
    <3>1. (t_size - t_sent) % 65536 = t_size - t_sent
      <4>1. t_size - t_sent \in Nat /\ t_size - t_sent <= 4095 BY <2>0
      <4> QED BY <4>1, FitsInWord
    <3>2. (f.dlc - 1) % 65536 = IF padded THEN 7 ELSE n
      <4>1. CASE padded
        <5>1. f.dlc - 1 = 7 /\ 7 \in Nat /\ 7 <= 4095 BY <4>1, <1>2
        <5> QED BY <4>1, <5>1, FitsInWord
      <4>2. CASE ~padded
        <5>1. f.dlc - 1 = n /\ n \in Nat /\ n <= 4095 BY <4>2, <1>2, <2>2
        <5> QED BY <4>2, <5>1, FitsInWord
      <4> QED BY <4>1, <4>2
    <3>3. BytesToCopy(f) = Least(t_size - t_sent, IF padded THEN 7 ELSE n)
      <4>1. total_size = t_size /\ uds_rx_buffer.n = t_sent BY <2>1
      <4> QED BY <4>1, <3>1, <3>2 DEF BytesToCopy
    <3> QED BY <3>3, <2>0, <2>2 DEF Least
  <2> HIDE DEF n
  <2>4. HandleConsecutiveFrame(f)
    BY <2>1, <1>1, <1>2 DEF Receive, HandleSingleFrame, HandleFirstFrame,
                            FirstFrameTooShort, Unexpected, Stray
  <2>5. GoOn(t_size, [n |-> t_sent + n, whole |-> TRUE], NextNibble(t_seq))
    BY <2>0, <2>1, <2>2, <2>3, <2>4, <1>2, ExtendWhole DEF HandleConsecutiveFrame
  <2>6. CASE t_sent + n = t_size
    <3>1. /\ receiving' = "idle" /\ t_size' = 0
          /\ responses' = Append(responses, [n |-> t_size, whole |-> TRUE])
      <4>1. GoOn(t_size, [n |-> t_size, whole |-> TRUE], NextNibble(t_seq))
        BY <2>5, <2>6
      <4>2. ~([n |-> t_size, whole |-> TRUE].n < t_size) BY <2>0
      <4>3. /\ receiving' = "idle"
            /\ responses' = Append(responses, [n |-> t_size, whole |-> TRUE])
        BY <4>1, <4>2 DEF GoOn
      <4> QED BY <4>3, <2>6, <1>1
    <3>2. responses' = WholeMessages(answers)
      BY <3>1, <2>1, WholeLast DEF ResponseInv
    <3> QED BY <3>1, <3>2, <1>1 DEF Quiet
  <2>7. CASE t_sent + n < t_size
    <3>1. /\ t_size' = t_size /\ t_sent' = t_sent + n /\ t_seq' = NextNibble(t_seq)
          /\ receiving' = "cfs" /\ total_size' = t_size /\ UNCHANGED responses
          /\ uds_rx_buffer' = [n |-> t_sent + n, whole |-> TRUE]
          /\ expected_seq_num' = NextNibble(t_seq)
      BY <2>0, <2>1, <2>2, <2>5, <2>7, <1>1 DEF GoOn, Locals
    <3> QED BY <3>1, <2>0, <2>1, <2>2, <2>7, <1>1 DEF MidAnswer
  <2> QED BY <2>0, <2>2, <2>6, <2>7
<1> QED BY <1>1, <1>3 DEF ResponseInv

LEMMA ResponseStep == ResponseInv /\ [BytesNext]_bytes_vars => ResponseInv'
<1> SUFFICES ASSUME ResponseInv, [BytesNext]_bytes_vars PROVE ResponseInv'
  OBVIOUS
<1>1. ASSUME UNCHANGED <<receive_vars, ecu_tx, runts>> PROVE ResponseInv'
  BY <1>1 DEF ResponseInv, Quiet, MidAnswer, receive_vars, ecu_tx
<1>2. ASSUME Responses PROVE ResponseInv'
  <2>1. ASSUME NEW padded \in BOOLEAN, EcuContinues(padded) PROVE ResponseInv'
    BY <2>1, ContinuingKeepsResponses
  <2>2. ASSUME NEW padded \in BOOLEAN, NEW n \in ResponseSizes, EcuSends(n, padded)
        PROVE  ResponseInv'
    <3>1. n \in Nat BY BytesAssumption
    <3> QED BY <2>2, <3>1, SendingKeepsResponses
  <2>3. CASE Runt
    <3>1. runts' = runts + 1 /\ UNCHANGED answers BY <2>3 DEF Runt, ecu_tx
    <3> QED BY <3>1 DEF ResponseInv
  <2>4. CASE ForwarderTimesOut
    <3>1. t_size = 0 /\ receiving = "cfs" /\ UNCHANGED <<answers, runts>>
      BY <2>4 DEF ForwarderTimesOut, CfTimeout, ecu_tx
    <3>2. runts # 0 BY <3>1 DEF ResponseInv, Quiet
    <3> QED BY <3>1, <3>2 DEF ResponseInv
  <2> QED BY <1>2, <2>1, <2>2, <2>3, <2>4 DEF Responses
<1>3. CASE Requests BY <1>1, <1>3 DEF Requests
<1>4. CASE UNCHANGED bytes_vars BY <1>1, <1>4 DEF bytes_vars
<1> QED BY <1>2, <1>3, <1>4 DEF BytesNext

\* Every response of 1 to 4095 bytes is put together with its own bytes and none of the
\* padding, as long as no runt comes between: isotp_handle_multi_frame's uint16_t
\* arithmetic on what is missing never goes wrong for an ECU that keeps to ISO-TP.
THEOREM ResponsesWhole == BytesSpec => []ResponseWhole
<1>1. ResponseInv => ResponseWhole
  BY DEF ResponseInv, Quiet, MidAnswer, ResponseWhole
<1>2. BytesSpec => []ResponseInv
  BY ResponseStarts, ResponseStep, PTL DEF BytesSpec
<1> QED BY <1>1, <1>2, PTL

=============================================================================
