------------------------ MODULE CommandServiceProofs ------------------------
(***************************************************************************)
(* Proofs about CommandService: its answers come in order.                 *)
(***************************************************************************)
EXTENDS CommandService, TLAPS

Request == [id : Nat, len : Nat]
Command == [id : Nat, dlc : Nat]

TypeInv ==
  /\ pending \in Seq(Request) /\ tried \in BOOLEAN /\ received \in Nat
  /\ commands \in Seq(Command) /\ responses \in Seq(Request)

\* The frame tried belongs to the oldest request, which is not empty.
TriedInv == tried => pending # <<>> /\ pending[1].len >= 1

\* The ids still to come are above those that went by.
OrderInv ==
  /\ Increasing(pending)
  /\ \A p \in DOMAIN pending : pending[p].id <= received
  /\ \A r \in DOMAIN responses : responses[r].id <= received
  /\ \A c \in DOMAIN commands : commands[c].id <= received
  /\ \A r \in DOMAIN responses, p \in DOMAIN pending : responses[r].id < pending[p].id
  /\ \A c \in DOMAIN commands, p \in DOMAIN pending :
       \/ commands[c].id < pending[p].id
       \/ tried /\ p = 1 /\ commands[c].id = pending[p].id

ServiceInv == TypeInv /\ TriedInv /\ OrderInv /\ AnsweredInOrder

\* What is there after an element goes last.
LEMMA AppendFacts ==
  ASSUME NEW S, NEW s \in Seq(S), NEW x \in S
  PROVE  /\ Append(s, x) \in Seq(S)
         /\ Len(Append(s, x)) = Len(s) + 1
         /\ DOMAIN s = 1 .. Len(s) /\ DOMAIN Append(s, x) = 1 .. Len(s) + 1
         /\ \A i \in 1 .. Len(s) : Append(s, x)[i] = s[i]
         /\ Append(s, x)[Len(s) + 1] = x
OBVIOUS

\* What is left of a sequence that loses its head.
LEMMA TailFacts ==
  ASSUME NEW S, NEW s \in Seq(S), s # <<>>
  PROVE  /\ Head(s) = s[1] /\ s[1] \in S /\ Len(s) \in Nat \ {0}
         /\ Tail(s) \in Seq(S)
         /\ Len(Tail(s)) = Len(s) - 1
         /\ DOMAIN s = 1 .. Len(s) /\ DOMAIN Tail(s) = 1 .. Len(s) - 1
         /\ \A i \in 1 .. Len(s) - 1 : Tail(s)[i] = s[i + 1]
OBVIOUS

\* The ids and lengths in the logs are numbers.
LEMMA LogTypes ==
  ASSUME TypeInv
  PROVE  /\ \A i \in DOMAIN pending : pending[i].id \in Nat /\ pending[i].len \in Nat
         /\ \A i \in DOMAIN responses : responses[i].id \in Nat
         /\ \A i \in DOMAIN commands : commands[i].id \in Nat
<1>1. \A i \in DOMAIN pending : pending[i] \in Request
  BY DEF TypeInv
<1>2. \A i \in DOMAIN responses : responses[i] \in Request
  BY DEF TypeInv
<1>3. \A i \in DOMAIN commands : commands[i] \in Command
  BY DEF TypeInv
<1> QED BY <1>1, <1>2, <1>3 DEF Request, Command

\* A service that has just started owes nothing.
LEMMA ServiceInit == Init => ServiceInv
<1> SUFFICES ASSUME Init PROVE ServiceInv
  OBVIOUS
<1>1. /\ pending = <<>> /\ tried = FALSE /\ received = 0
      /\ commands = <<>> /\ responses = <<>>
  BY DEF Init
<1>2. /\ DOMAIN pending = {} /\ DOMAIN commands = {} /\ DOMAIN responses = {}
  BY <1>1
<1>3. TypeInv
  <2>1. <<>> \in Seq(Request) OBVIOUS
  <2>2. <<>> \in Seq(Command) OBVIOUS
  <2>3. tried \in BOOLEAN BY <1>1
  <2>4. received \in Nat BY <1>1
  <2>5. pending \in Seq(Request) /\ responses \in Seq(Request) BY <1>1, <2>1
  <2>6. commands \in Seq(Command) BY <1>1, <2>2
  <2> QED BY <2>3, <2>4, <2>5, <2>6 DEF TypeInv
<1>4. TriedInv BY <1>1 DEF TriedInv
<1>5. OrderInv
  <2>1. Increasing(pending) BY <1>2 DEF Increasing
  <2> QED BY <1>2, <2>1, Zenon DEF OrderInv
<1>6. AnsweredInOrder BY <1>2 DEF AnsweredInOrder, Increasing
<1> QED BY <1>3, <1>4, <1>5, <1>6 DEF ServiceInv

\* A request that arrives goes last, with an id above all others.
LEMMA ArriveKeeps ==
  ASSUME ServiceInv, NEW len \in Nat, Arrive(len)
  PROVE  ServiceInv'
<1> DEFINE r == [id |-> received + 1, len |-> len]
<1>1. r \in Request /\ received + 1 \in Nat
  BY DEF ServiceInv, TypeInv, Request
<1>2. /\ pending' = Append(pending, r) /\ received' = received + 1
      /\ UNCHANGED <<tried, commands, responses>>
  BY DEF Arrive
<1>3. /\ Len(pending') = Len(pending) + 1 /\ Len(pending) \in Nat
      /\ DOMAIN pending = 1 .. Len(pending) /\ DOMAIN pending' = 1 .. Len(pending) + 1
      /\ \A i \in 1 .. Len(pending) : pending'[i] = pending[i]
      /\ pending'[Len(pending) + 1] = r /\ pending' \in Seq(Request)
  BY <1>1, <1>2, AppendFacts DEF ServiceInv, TypeInv
<1> HIDE DEF r
<1>4. r.id = received + 1 BY DEF r
<1>5. TypeInv'
  BY <1>1, <1>2, <1>3 DEF ServiceInv, TypeInv
<1>6. TriedInv'
  BY <1>2, <1>3 DEF ServiceInv, TriedInv, TypeInv
<1>7. OrderInv'
  <2>1. \A p \in DOMAIN pending : pending[p].id \in Nat /\ pending[p].id <= received
    BY LogTypes DEF ServiceInv, OrderInv
  <2>2. \A i \in DOMAIN responses : responses[i].id \in Nat /\ responses[i].id <= received
    BY LogTypes DEF ServiceInv, OrderInv
  <2>3. \A i \in DOMAIN commands : commands[i].id \in Nat /\ commands[i].id <= received
    BY LogTypes DEF ServiceInv, OrderInv
  <2>4. Increasing(pending)'
    BY <1>2, <1>3, <1>4, <2>1 DEF ServiceInv, TypeInv, OrderInv, Increasing
  <2>5. \A p \in DOMAIN pending' : pending'[p].id <= received'
    BY <1>2, <1>3, <1>4, <2>1 DEF ServiceInv, TypeInv
  <2>6. \A i \in DOMAIN responses, p \in DOMAIN pending' :
          responses[i].id < pending'[p].id
    BY <1>2, <1>3, <1>4, <2>2 DEF ServiceInv, TypeInv, OrderInv
  <2>7. \A i \in DOMAIN commands, p \in DOMAIN pending' :
          \/ commands[i].id < pending'[p].id
          \/ tried /\ p = 1 /\ commands[i].id = pending'[p].id
    BY <1>2, <1>3, <1>4, <2>3 DEF ServiceInv, TypeInv, OrderInv
  <2>8. /\ \A i \in DOMAIN responses : responses[i].id <= received'
        /\ \A i \in DOMAIN commands : commands[i].id <= received'
    BY <1>2, <2>2, <2>3 DEF ServiceInv, TypeInv
  <2> QED BY <1>2, <2>4, <2>5, <2>6, <2>7, <2>8 DEF OrderInv
<1>8. AnsweredInOrder'
  <2>1. tried => Head(pending') = Head(pending)
    BY <1>2, <1>3 DEF ServiceInv, TypeInv, TriedInv
  <2> QED BY <1>2, <2>1 DEF ServiceInv, AnsweredInOrder, Increasing
<1> QED BY <1>5, <1>6, <1>7, <1>8 DEF ServiceInv

\* A sequence that loses its head keeps the order of the rest.
LEMMA TailOrder ==
  ASSUME TypeInv, OrderInv, pending # <<>>, pending' = Tail(pending)
  PROVE  /\ Increasing(pending)'
         /\ pending' \in Seq(Request) /\ Head(pending) = pending[1]
         /\ \A p \in DOMAIN pending' :
              p + 1 \in DOMAIN pending /\ pending'[p] = pending[p + 1]
                /\ pending[1].id < pending'[p].id
<1>1. /\ pending[1] = Head(pending) /\ Len(pending) \in Nat \ {0}
      /\ pending' \in Seq(Request)
      /\ DOMAIN pending = 1 .. Len(pending) /\ DOMAIN pending' = 1 .. Len(pending) - 1
      /\ \A i \in 1 .. Len(pending) - 1 : pending'[i] = pending[i + 1]
  BY TailFacts DEF TypeInv
<1>2. \A p \in DOMAIN pending' :
         p + 1 \in DOMAIN pending /\ pending'[p] = pending[p + 1] /\ 1 < p + 1
  BY <1>1
<1>3. Increasing(pending) BY DEF OrderInv
<1>4. Increasing(pending)'
  BY <1>1, <1>2, <1>3 DEF Increasing
<1> QED BY <1>1, <1>2, <1>3, <1>4 DEF Increasing

\* An empty request goes away.
LEMMA DropKeeps ==
  ASSUME ServiceInv, Drop
  PROVE  ServiceInv'
<1>1. /\ pending # <<>> /\ Head(pending).len = 0 /\ pending' = Tail(pending)
      /\ UNCHANGED <<tried, received, commands, responses>>
  BY DEF Drop
<1>2. /\ Increasing(pending)' /\ pending' \in Seq(Request)
      /\ Head(pending) = pending[1]
      /\ \A p \in DOMAIN pending' :
           p + 1 \in DOMAIN pending /\ pending'[p] = pending[p + 1]
             /\ pending[1].id < pending'[p].id
  BY <1>1, TailOrder DEF ServiceInv
<1>3. tried = FALSE
  BY <1>1, <1>2 DEF ServiceInv, TypeInv, TriedInv
<1>4. TypeInv' BY <1>1, <1>2 DEF ServiceInv, TypeInv
<1>5. TriedInv' BY <1>1, <1>3 DEF TriedInv
<1>6. OrderInv'
  <2>1. \A p \in DOMAIN pending' : pending'[p].id <= received
    BY <1>2 DEF ServiceInv, OrderInv
  <2>2. \A r \in DOMAIN responses, p \in DOMAIN pending' :
          responses[r].id < pending'[p].id
    BY <1>2 DEF ServiceInv, OrderInv
  <2>3. \A c \in DOMAIN commands, p \in DOMAIN pending' :
          commands[c].id < pending'[p].id
    BY <1>2, <1>3 DEF ServiceInv, OrderInv
  <2> QED BY <1>1, <1>2, <2>1, <2>2, <2>3 DEF ServiceInv, OrderInv
<1>7. AnsweredInOrder'
  BY <1>1, <1>3 DEF ServiceInv, AnsweredInOrder, Increasing
<1> QED BY <1>4, <1>5, <1>6, <1>7 DEF ServiceInv

\* The oldest request's frame is tried: on the bus it is the last.
LEMMA TryKeeps ==
  ASSUME ServiceInv, NEW ok \in BOOLEAN, Try(ok)
  PROVE  ServiceInv'
<1> DEFINE f == Frame(Head(pending))
<1>1. /\ pending # <<>> /\ Head(pending).len >= 1 /\ tried = FALSE /\ tried' = TRUE
      /\ UNCHANGED <<pending, received, responses>>
  BY DEF Try, ServiceInv, TypeInv
<1>2. commands' = IF ok THEN Append(commands, f) ELSE commands
  BY DEF Try
<1>3. /\ Head(pending) = pending[1] /\ pending[1] \in Request /\ 1 \in DOMAIN pending
  BY <1>1, TailFacts DEF ServiceInv, TypeInv
<1>4. f \in Command /\ f.id = pending[1].id
  BY <1>3 DEF Frame, Command, Request
<1> HIDE DEF f
<1>5. ok => /\ commands' \in Seq(Command)
            /\ DOMAIN commands = 1 .. Len(commands) /\ Len(commands) \in Nat
            /\ DOMAIN commands' = 1 .. Len(commands) + 1
            /\ \A i \in 1 .. Len(commands) : commands'[i] = commands[i]
            /\ commands'[Len(commands) + 1] = f
  BY <1>2, <1>4, AppendFacts DEF ServiceInv, TypeInv
<1>6. \A c \in DOMAIN commands' :
         \/ c \in DOMAIN commands /\ commands'[c] = commands[c]
         \/ c \notin DOMAIN commands /\ commands'[c].id = pending[1].id
  BY <1>2, <1>4, <1>5
<1>7. \A c \in DOMAIN commands, p \in DOMAIN pending : commands[c].id < pending[p].id
  BY <1>1 DEF ServiceInv, OrderInv
<1>8. TypeInv'
  BY <1>1, <1>2, <1>5 DEF ServiceInv, TypeInv
<1>9. TriedInv'
  BY <1>1, <1>3 DEF TriedInv
<1>10. \A p \in DOMAIN pending : p # 1 => pending[1].id < pending[p].id
  <2>1. \A p \in DOMAIN pending : p \in Nat /\ p >= 1
    BY DEF ServiceInv, TypeInv
  <2> QED BY <1>3, <2>1 DEF ServiceInv, OrderInv, Increasing
<1>11. OrderInv'
  <2>1. \A c \in DOMAIN commands' : commands'[c].id <= received
    BY <1>3, <1>6 DEF ServiceInv, OrderInv
  <2>2. \A c \in DOMAIN commands', p \in DOMAIN pending :
          \/ commands'[c].id < pending[p].id
          \/ p = 1 /\ commands'[c].id = pending[p].id
    BY <1>6, <1>7, <1>10
  <2> QED BY <1>1, <2>1, <2>2 DEF ServiceInv, OrderInv, Increasing
<1>12. Increasing(commands)'
  <2>1. CASE ok
    BY <1>3, <1>4, <1>5, <1>7, <2>1 DEF ServiceInv, AnsweredInOrder, Increasing
  <2>2. CASE ~ok
    BY <1>2, <2>2 DEF ServiceInv, AnsweredInOrder, Increasing
  <2> QED BY <2>1, <2>2
<1>13. \A c \in DOMAIN commands' :
          \/ \E j \in DOMAIN responses : responses[j].id = commands'[c].id
          \/ Head(pending).id = commands'[c].id
  BY <1>1, <1>3, <1>6 DEF ServiceInv, AnsweredInOrder
<1> QED BY <1>1, <1>8, <1>9, <1>11, <1>12, <1>13
        DEF ServiceInv, AnsweredInOrder, Increasing

\* The oldest request is answered, after all that were before it.
LEMMA AnswerKeeps ==
  ASSUME ServiceInv, Answer
  PROVE  ServiceInv'
<1>1. /\ tried = TRUE /\ tried' = FALSE /\ pending' = Tail(pending)
      /\ responses' = Append(responses, Head(pending))
      /\ UNCHANGED <<received, commands>>
  BY DEF Answer, ServiceInv, TypeInv
<1>2. pending # <<>> /\ pending[1].len >= 1
  BY <1>1 DEF ServiceInv, TriedInv
<1>3. /\ Increasing(pending)' /\ pending' \in Seq(Request)
      /\ Head(pending) = pending[1]
      /\ \A p \in DOMAIN pending' :
           p + 1 \in DOMAIN pending /\ pending'[p] = pending[p + 1]
             /\ pending[1].id < pending'[p].id
  BY <1>1, <1>2, TailOrder DEF ServiceInv
<1>4. pending[1] \in Request /\ 1 \in DOMAIN pending
  BY <1>2, TailFacts DEF ServiceInv, TypeInv
<1>5. /\ responses' \in Seq(Request)
      /\ DOMAIN responses = 1 .. Len(responses) /\ Len(responses) \in Nat
      /\ DOMAIN responses' = 1 .. Len(responses) + 1
      /\ \A i \in 1 .. Len(responses) : responses'[i] = responses[i]
      /\ responses'[Len(responses) + 1] = pending[1]
  BY <1>1, <1>3, <1>4, AppendFacts DEF ServiceInv, TypeInv
<1>6. \A r \in DOMAIN responses' :
         \/ r \in DOMAIN responses /\ responses'[r] = responses[r]
         \/ r \notin DOMAIN responses /\ responses'[r] = pending[1]
  BY <1>5
<1>7. \A r \in DOMAIN responses : responses[r].id < pending[1].id
  BY <1>4 DEF ServiceInv, OrderInv
<1>8. TypeInv'
  BY <1>1, <1>3, <1>5 DEF ServiceInv, TypeInv
<1>9. TriedInv'
  BY <1>1 DEF TriedInv
<1>10. OrderInv'
  <2>1. \A p \in DOMAIN pending' : pending'[p].id <= received
    BY <1>3 DEF ServiceInv, OrderInv
  <2>2. \A r \in DOMAIN responses' : responses'[r].id <= received
    BY <1>4, <1>6 DEF ServiceInv, OrderInv
  <2>3. \A r \in DOMAIN responses', p \in DOMAIN pending' :
          responses'[r].id < pending'[p].id
    BY <1>3, <1>6 DEF ServiceInv, OrderInv
  <2>4. \A c \in DOMAIN commands, p \in DOMAIN pending' :
          commands[c].id < pending'[p].id
    <3> TAKE c \in DOMAIN commands, p \in DOMAIN pending'
    <3>1. p + 1 \in DOMAIN pending /\ pending'[p] = pending[p + 1] /\ p + 1 # 1
      BY <1>3, <1>2, TailFacts, <1>1 DEF ServiceInv, TypeInv
    <3> QED BY <3>1 DEF ServiceInv, OrderInv
  <2> QED BY <1>1, <1>3, <2>1, <2>2, <2>3, <2>4 DEF ServiceInv, OrderInv
<1>11. Increasing(responses)'
  BY <1>4, <1>5, <1>7 DEF ServiceInv, AnsweredInOrder, Increasing
<1>12. \A r \in DOMAIN responses' : responses'[r].len >= 1
  BY <1>2, <1>6 DEF ServiceInv, AnsweredInOrder
<1>13. \A c \in DOMAIN commands :
          \E j \in DOMAIN responses' : responses'[j].id = commands[c].id
  <2> TAKE c \in DOMAIN commands
  <2>1. CASE Head(pending).id = commands[c].id
    <3>1. Len(responses) + 1 \in DOMAIN responses' BY <1>5
    <3> QED BY <1>3, <1>5, <2>1, <3>1
  <2>2. CASE \E j \in DOMAIN responses : responses[j].id = commands[c].id
    BY <1>5, <2>2
  <2> QED BY <2>1, <2>2 DEF ServiceInv, AnsweredInOrder
<1> QED BY <1>1, <1>8, <1>9, <1>10, <1>11, <1>12, <1>13
        DEF ServiceInv, AnsweredInOrder, Increasing

\* Commands are carried out and answered in the order they came, whatever the
\* requests' lengths, however many there are and whatever frames are not sent.
THEOREM ServiceInOrder ==
  ASSUME RequestLengths \subseteq Nat
  PROVE  Spec => []AnsweredInOrder
<1>1. ServiceInv /\ [Next]_vars => ServiceInv'
  <2> SUFFICES ASSUME ServiceInv, [Next]_vars PROVE ServiceInv'
    OBVIOUS
  <2>1. ASSUME NEW len \in RequestLengths, Arrive(len) PROVE ServiceInv'
    BY <2>1, ArriveKeeps
  <2>2. CASE Drop BY <2>2, DropKeeps
  <2>3. ASSUME NEW ok \in BOOLEAN, Try(ok) PROVE ServiceInv'
    BY <2>3, TryKeeps
  <2>4. CASE Answer BY <2>4, AnswerKeeps
  <2>5. CASE UNCHANGED vars
    BY <2>5 DEF vars, ServiceInv, TypeInv, TriedInv, OrderInv, AnsweredInOrder,
                Increasing
  <2> QED BY <2>1, <2>2, <2>3, <2>4, <2>5 DEF Next
<1>2. ServiceInv => AnsweredInOrder
  BY DEF ServiceInv
<1> QED BY ServiceInit, <1>1, <1>2, PTL DEF Spec

=============================================================================
