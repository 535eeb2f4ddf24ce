--------------------------- MODULE ReceiveProofs ----------------------------
(***************************************************************************)
(* Proofs about Receive for any sizes and any bounds: no byte is lost,     *)
(* doubled or reordered, bytes are read only when the screen is up to      *)
(* date, and the loop does not stop listening, nor wait with bytes in the  *)
(* queue that it does not know of.                                         *)
(***************************************************************************)
EXTENDS Receive, SequenceTheorems, TLAPS

\* The bytes parsed and those in the queue, by their numbers.
Ordered ==
  /\ que \in Seq(Nat) /\ parsed \in Seq(Nat) /\ arrived \in Nat
  /\ BufferIO = <<>>
  /\ Len(que) <= QueMax
  /\ Len(parsed) + Len(que) = arrived
  /\ \A i \in 1..Len(parsed) : parsed[i] = i
  /\ \A i \in 1..Len(que) : que[i] = Len(parsed) + i

Counters ==
  /\ len \in 0..OneShot /\ failures \in Nat /\ inputs \in Nat
  /\ pc \in {"wait", "fetch", "select", "messages", "stopped", "hung"}

\* The screen's event is signalled as long as the last Update drew nothing;
\* and when a read is under way, the screen is up to date.
Drawn ==
  /\ complete \/ screen
  /\ pc = "fetch" => complete

\* Read asks for bytes that are there.
Asked == pc = "fetch" => len <= Len(que)

\* Bytes that this call of Read will not bring, or has not brought, are
\* known of, or the driver has recorded that they came.
Noted ==
  /\ pc = "select" /\ que # <<>> => left \/ occurred
  /\ pc = "fetch" /\ Len(que) # len => left \/ occurred

Control == Flags /\ Drawn /\ Listening /\ NoStrand /\ Noted

IInv == Ordered /\ Counters /\ Asked /\ Control

-----------------------------------------------------------------------------
\* Ordered speaks of the bytes only.
LEMMA OrderedKept == Ordered /\ UNCHANGED <<que, arrived, parsed, BufferIO>> => Ordered'
BY DEF Ordered

\* WaitingMessages starts with the invariant: its first call is Select.
LEMMA InitInv == Init => IInv
<1> SUFFICES ASSUME Init PROVE IInv
  OBVIOUS
<1> USE ConstantsAssumption
<1>1. Ordered
  <2>1. <<>> \in Seq(Nat) /\ Len(<<>>) = 0
    BY EmptySeq
  <2>2. que = <<>> /\ parsed = <<>> /\ BufferIO = <<>> /\ arrived = 0
    BY DEF Init
  <2> QED
    BY <2>1, <2>2 DEF Ordered
<1>2. Counters /\ Asked
  BY DEF Init, Counters, Asked
<1>3. Control
  BY Zenon DEF Init, Control, Flags, Drawn, Listening, NoStrand, Noted
<1> QED
  BY <1>1, <1>2, <1>3 DEF IInv

\* A byte that arrives is the last in the queue, and is recorded or ends the
\* wait.
LEMMA ArriveInv == IInv /\ Arrive => IInv'
<1> SUFFICES ASSUME IInv, Arrive PROVE IInv'
  OBVIOUS
<1> USE ConstantsAssumption
<1>1. que \in Seq(Nat) /\ arrived \in Nat /\ que' = Append(que, arrived + 1) /\ arrived' = arrived + 1
  BY DEF Arrive, IInv, Ordered
<1>2. /\ que' \in Seq(Nat) /\ Len(que') = Len(que) + 1 /\ que'[Len(que) + 1] = arrived + 1
      /\ \A i \in 1..Len(que) : que'[i] = que[i]
  BY <1>1, AppendProperties
<1>3. UNCHANGED loopVars
  BY DEF Arrive
<1>4. Len(que) \in Nat
  BY <1>1, LenProperties
<1>5. Ordered'
  <2>1. Len(que) < QueMax
    BY DEF Arrive
  <2>2. UNCHANGED <<parsed, BufferIO>>
    BY <1>3 DEF loopVars
  <2>3. Len(parsed) \in Nat
    BY LenProperties DEF IInv, Ordered
  <2>4. ASSUME NEW i \in 1..Len(que')
        PROVE  que'[i] = Len(parsed) + i
    <3>1. CASE i \in 1..Len(que)
      BY <3>1, <1>2 DEF IInv, Ordered
    <3>2. CASE i = Len(que) + 1
      <4>1. Len(parsed) + Len(que) = arrived
        BY DEF IInv, Ordered
      <4> QED
        BY <3>2, <1>1, <1>2, <1>4, <2>3, <4>1
    <3> QED
      BY <3>1, <3>2, <1>2, <1>4
  <2>5. Len(que') <= QueMax /\ Len(parsed) + Len(que') = arrived'
    BY <1>1, <1>2, <1>4, <2>1, <2>3 DEF IInv, Ordered
  <2> QED
    BY <1>1, <1>2, <2>2, <2>4, <2>5 DEF IInv, Ordered
<1>6. Counters'
  BY <1>3 DEF loopVars, IInv, Counters, Arrive
<1>7. Asked'
  <2>1. len \in 0..OneShot
    BY DEF IInv, Counters
  <2> QED
    BY <1>2, <1>3, <1>4, <2>1 DEF loopVars, IInv, Asked
<1>8. Report /\ UNCHANGED error
  BY DEF Arrive
<1>9. Control'
  BY <1>3, <1>8, Zenon DEF loopVars, IInv, Control, Flags, Drawn, Listening, NoStrand, Noted, Report
<1> QED
  BY <1>5, <1>6, <1>7, <1>9 DEF IInv

\* What is neither a byte nor a read leaves the bytes as they are.
LEMMA BytesKept ==
  ASSUME Ordered, Asked, pc' # "fetch" \/ pc' = pc,
         UNCHANGED <<que, arrived, parsed, BufferIO, len>>
  PROVE  Ordered' /\ Asked'
<1>1. Ordered'
  BY OrderedKept, Zenon
<1>2. Asked'
  BY DEF Asked
<1> QED
  BY <1>1, <1>2

\* An error of the line is reported like a byte.
LEMMA LineErrorInv == IInv /\ LineError => IInv'
<1> SUFFICES ASSUME IInv, LineError PROVE IInv'
  OBVIOUS
<1>1. Ordered' /\ Asked'
  BY BytesKept, Zenon DEF LineError, loopVars, IInv
<1>2. Counters'
  BY DEF LineError, loopVars, IInv, Counters
<1>3. Report /\ error' = TRUE /\ UNCHANGED loopVars /\ UNCHANGED que
  BY DEF LineError
<1>4. Control'
  BY <1>3, Zenon DEF loopVars, IInv, Control, Flags, Drawn, Listening, NoStrand, Noted, Report
<1> QED
  BY <1>1, <1>2, <1>4 DEF IInv

\* Serving a module or a transmission, or a message that ends the wait.
LEMMA ServedInv ==
  IInv /\ (ExecuteModule \/ WriteFlush \/ MessageArrives \/ EventOccurs) => IInv'
<1> SUFFICES ASSUME IInv, ExecuteModule \/ WriteFlush \/ MessageArrives \/ EventOccurs
             PROVE  IInv'
  OBVIOUS
<1> USE DEF ExecuteModule, WriteFlush, MessageArrives, EventOccurs, driverVars,
            ServesModule, ServesWrite
<1>1. UNCHANGED <<que, arrived, error, occurred, waiting, readEvent, len, left,
                  BufferIO, complete, parsed, screen, ready, refused, failures>>
  BY Zenon
<1>2. /\ inputs' = inputs \/ inputs' = inputs + 1
      /\ pc' = pc \/ (pc = "wait" /\ pc' = "messages")
  BY Zenon
<1>3. module' \in BOOLEAN /\ write' \in BOOLEAN
  BY Zenon DEF IInv, Control, Flags
<1> USE DEF IInv
<1>4. Ordered' /\ Asked'
  <2>1. pc' # "fetch" \/ pc' = pc
    BY <1>2
  <2> QED
    BY <1>1, <2>1, BytesKept, Zenon
<1>5. Counters'
  BY <1>1, <1>2 DEF Counters
<1>6. CASE pc' = pc
  <2>1. Control'
    BY <1>1, <1>3, <1>6, Zenon
    DEF Control, Flags, Drawn, Listening, NoStrand, Noted
  <2> QED
    BY <1>4, <1>5, <2>1, Zenon
<1>7. CASE pc = "wait" /\ pc' = "messages"
  <2>1. pc \notin {"fetch", "select", "stopped"} /\ pc' \notin {"fetch", "select"}
    BY <1>7
  <2>2. Control'
    BY <1>1, <1>3, <2>1, Zenon
    DEF Control, Flags, Drawn, Listening, NoStrand, Noted
  <2> QED
    BY <1>4, <1>5, <2>2, Zenon
<1> QED
  BY <1>2, <1>6, <1>7

\* Dispatching the messages of the window touches no byte and no wait.
LEMMA MessagesInv == IInv /\ Messages => IInv'
<1> SUFFICES ASSUME IInv, Messages PROVE IInv'
  OBVIOUS
<1>1. /\ UNCHANGED <<que, arrived, error, occurred, waiting, readEvent, len,
                      left, BufferIO, complete, parsed, module, write,
                      refused, failures>>
      /\ pc = "messages"
  BY DEF Messages, driverVars
<1>2. /\ pc' \in {"messages", "hung", "stopped", "wait"}
      /\ inputs' = inputs \/ inputs' = inputs + 1
  BY <1>1 DEF Messages, Key, ResetKey, Resize, Quit, NoMessage
<1>3. screen' \in BOOLEAN /\ ready' \in BOOLEAN /\ (screen => screen')
  BY <1>1, Zenon DEF Messages, Key, ResetKey, Resize, Quit, NoMessage, IInv, Control, Flags
<1>4. Ordered' /\ Asked'
  <2>1. pc' # "fetch"
    BY <1>2
  <2> QED
    BY <1>1, <2>1, BytesKept, Zenon DEF IInv
<1>5. Counters'
  BY <1>1, <1>2 DEF IInv, Counters
<1>6. pc' \notin {"fetch", "select"} /\ pc \notin {"fetch", "select", "stopped"}
  BY <1>1, <1>2
<1>7. Control'
  BY <1>1, <1>3, <1>6, Zenon DEF IInv, Control, Flags, Drawn, Listening, NoStrand, Noted
<1> QED
  BY <1>4, <1>5, <1>7 DEF IInv

\* There is nothing in BufferIO that Update, or a read that brought nothing,
\* could parse.
LEMMA NothingToParse ==
  ASSUME BufferIO = <<>>, Parse(BufferIO)
  PROVE  UNCHANGED <<BufferIO, parsed, screen>>
BY DEF Parse

\* EVENT_SCREEN: a drawn screen makes bUpdateComplete TRUE, and without
\* buffers its event stays signalled, so nothing is read.
LEMMA UpdateInv == IInv /\ Update => IInv'
<1> SUFFICES ASSUME IInv, Update PROVE IInv'
  OBVIOUS
<1>1. BufferIO = <<>>
  BY DEF IInv, Ordered
<1>2. /\ UNCHANGED <<que, arrived, error, occurred, waiting, readEvent, len,
                      left, BufferIO, parsed, module, write, ready, refused,
                      failures, inputs>>
      /\ pc = "wait" /\ pc' = "messages" /\ complete' = ready /\ screen
      /\ IF ready THEN screen' = FALSE ELSE UNCHANGED screen
  BY <1>1, Zenon DEF Update, driverVars, ServesScreen
<1>3. Ordered' /\ Asked'
  BY <1>2, BytesKept, Zenon DEF IInv
<1>4. Counters'
  BY <1>2 DEF IInv, Counters
<1>5. Control'
  BY <1>2, Zenon DEF IInv, Control, Flags, Drawn, Listening, NoStrand, Noted
<1> QED
  BY <1>3, <1>4, <1>5 DEF IInv

\* A Read that fails brings nothing and leaves nothing to parse.
LEMMA NothingReadKeeps ==
  ASSUME BufferIO = <<>>, NothingRead
  PROVE  /\ UNCHANGED <<BufferIO, parsed, screen>>
         /\ pc' = "select" /\ left' = (que # <<>>)
BY NothingToParse, Zenon DEF NothingRead

\* EVENT_READ, first half: Read asks the driver how much there is.
LEMMA ClearCommErrorInv == IInv /\ ClearCommError => IInv'
<1> SUFFICES ASSUME IInv, ClearCommError PROVE IInv'
  OBVIOUS
<1>1. BufferIO = <<>> /\ que \in Seq(Nat)
  BY DEF IInv, Ordered
<1>2. /\ UNCHANGED <<que, arrived, occurred, waiting, readEvent, complete,
                      ready, module, write, refused, inputs>>
      /\ pc = "wait" /\ readEvent /\ ~screen
  BY Zenon DEF ClearCommError, ServesRead
<1>3. CASE NothingRead /\ UNCHANGED len /\ error' \in {FALSE, error}
           /\ failures' \in {failures, failures + 1}
  <2>1. /\ UNCHANGED <<BufferIO, parsed, screen>>
        /\ pc' = "select" /\ left' = (que # <<>>)
    BY <1>1, <1>3, NothingReadKeeps, Zenon
  <2>2. Ordered' /\ Asked'
    BY <1>2, <1>3, <2>1, BytesKept, Zenon DEF IInv
  <2>3. Counters'
    BY <1>2, <1>3, <2>1 DEF IInv, Counters
  <2>4. Control'
    BY <1>2, <1>3, <2>1, Zenon DEF IInv, Control, Flags, Drawn, Listening, NoStrand, Noted
  <2> QED
    BY <2>2, <2>3, <2>4 DEF IInv
<1>4. CASE /\ pc' = "fetch" /\ len' = Lesser(OneShot, Len(que))
           /\ left' = (len' < Len(que))
           /\ UNCHANGED <<BufferIO, parsed, screen, error, failures>>
  <2>1. Len(que) \in Nat
    BY <1>1, LenProperties
  <2>2. len' \in 0..OneShot /\ len' <= Len(que)
    BY <1>4, <2>1, ConstantsAssumption DEF Lesser
  <2>3. Ordered'
    BY <1>2, <1>4, OrderedKept, Zenon DEF IInv
  <2>4. Asked'
    BY <1>2, <2>2 DEF Asked
  <2>5. Counters'
    BY <1>2, <1>4, <2>2 DEF IInv, Counters
  <2>6. Len(que) # len' => len' < Len(que)
    BY <2>1, <2>2
  <2>7. left' \in BOOLEAN
    BY <1>4
  <2>8. pc' # "select"
    BY <1>4
  <2>9. complete
    BY <1>2, Zenon DEF IInv, Control, Drawn
  <2>10. Control'
    BY <1>2, <1>4, <2>6, <2>7, <2>8, <2>9, Zenon DEF IInv, Control, Flags, Drawn, Listening, NoStrand, Noted
  <2> QED
    BY <2>3, <2>4, <2>5, <2>10 DEF IInv
<1> QED
  BY <1>3, <1>4, Zenon DEF ClearCommError

\* Select: it completes a wait at once or leaves it pending, never both.
LEMMA SelectInv == IInv /\ Select => IInv'
<1> SUFFICES ASSUME IInv, Select PROVE IInv'
  OBVIOUS
<1>1. /\ UNCHANGED <<que, arrived, len, left, BufferIO, complete, parsed,
                      screen, ready, module, write, inputs>>
      /\ pc = "select" /\ pc' = "messages"
  BY Zenon DEF Select
<1>2. Ordered' /\ Asked'
  BY <1>1, BytesKept, Zenon DEF IInv
<1>3. failures' = failures \/ failures' = failures + 1
  BY Zenon DEF Select
<1>4. Counters'
  BY <1>1, <1>3 DEF IInv, Counters
<1>5. pc' \notin {"fetch", "select", "stopped"} /\ pc # "stopped"
  BY <1>1
<1>6. Drawn' /\ Noted'
  BY <1>1, <1>5, Zenon DEF IInv, Control, Drawn, Noted
<1>7. ~waiting
  BY <1>1, Zenon DEF IInv, Control, Listening
<1>8. ASSUME /\ occurred /\ occurred' = FALSE /\ readEvent' = TRUE
             /\ error' \in {FALSE, error}
             /\ UNCHANGED <<waiting, failures, refused>>
      PROVE  Control'
  BY <1>1, <1>5, <1>6, <1>7, <1>8, Zenon DEF IInv, Control, Flags, Listening, NoStrand
<1>9. ASSUME /\ ~occurred /\ waiting' = TRUE /\ readEvent' = FALSE
             /\ UNCHANGED <<occurred, error, failures, refused>>
      PROVE  Control'
  BY <1>1, <1>5, <1>6, <1>9, Zenon DEF IInv, Control, Flags, Listening, NoStrand, Noted
<1>10. ASSUME /\ readEvent' \in {FALSE, readEvent} /\ refused' = ~readEvent'
              /\ UNCHANGED <<occurred, error, waiting>>
      PROVE  Control'
  BY <1>1, <1>5, <1>6, <1>7, <1>10, Zenon DEF IInv, Control, Flags, Listening, NoStrand
<1>11. Control'
  BY <1>8, <1>9, <1>10, Zenon DEF Select
<1> QED
  BY <1>2, <1>4, <1>11 DEF IInv

\* The first bytes of the queue, and the others.
LEMMA QueueSplit ==
  ASSUME Ordered, len \in Nat, len <= Len(que)
  PROVE  /\ SubSeq(que, 1, len) \in Seq(Nat)
         /\ Len(SubSeq(que, 1, len)) = len
         /\ \A i \in 1..len : SubSeq(que, 1, len)[i] = que[i]
         /\ SubSeq(que, len + 1, Len(que)) \in Seq(Nat)
         /\ Len(SubSeq(que, len + 1, Len(que))) = Len(que) - len
         /\ \A i \in 1..(Len(que) - len) :
              SubSeq(que, len + 1, Len(que))[i] = que[len + i]
<1>1. que \in Seq(Nat) /\ Len(que) \in Nat
  BY LenProperties DEF Ordered
<1>2. \A i \in 1..Len(que) : que[i] \in Nat
  BY <1>1, ElementOfSeq
<1>3. /\ SubSeq(que, 1, len) \in Seq(Nat)
      /\ Len(SubSeq(que, 1, len)) = IF 1 <= len THEN len - 1 + 1 ELSE 0
      /\ \A i \in 1..(len - 1 + 1) : SubSeq(que, 1, len)[i] = que[1 + i - 1]
  <2>1. \A i \in 1..len : que[i] \in Nat
    BY <1>1, <1>2
  <2> QED
    BY <2>1, <1>1, SubSeqProperties
<1>4. /\ SubSeq(que, len + 1, Len(que)) \in Seq(Nat)
      /\ Len(SubSeq(que, len + 1, Len(que))) =
           IF len + 1 <= Len(que) THEN Len(que) - (len + 1) + 1 ELSE 0
      /\ \A i \in 1..(Len(que) - (len + 1) + 1) :
           SubSeq(que, len + 1, Len(que))[i] = que[(len + 1) + i - 1]
  <2>1. \A i \in (len + 1)..Len(que) : que[i] \in Nat
    BY <1>1, <1>2
  <2> QED
    BY <2>1, <1>1, SubSeqProperties
<1>5. len - 1 + 1 = len /\ Len(que) - (len + 1) + 1 = Len(que) - len
  BY <1>1
<1>6. ASSUME NEW i \in 1..len PROVE SubSeq(que, 1, len)[i] = que[i]
  <2>1. 1 + i - 1 = i /\ i \in 1..(len - 1 + 1)
    OBVIOUS
  <2> QED
    BY <2>1, <1>3, Zenon
<1>7. ASSUME NEW i \in 1..(Len(que) - len)
      PROVE  SubSeq(que, len + 1, Len(que))[i] = que[len + i]
  <2>1. (len + 1) + i - 1 = len + i /\ i \in 1..(Len(que) - (len + 1) + 1)
    BY <1>1
  <2> QED
    BY <2>1, <1>4, Zenon
<1>8. Len(SubSeq(que, 1, len)) = len
  BY <1>3
<1>9. Len(SubSeq(que, len + 1, Len(que))) = Len(que) - len
  BY <1>1, <1>4
<1> QED
  BY <1>3, <1>4, <1>6, <1>7, <1>8, <1>9, Zenon

\* With nothing in BufferIO and the screen complete, what is read is parsed.
LEMMA ReadIsParsed ==
  ASSUME BufferIO = <<>>, complete, NEW b \in Seq(Nat), b # <<>>, Buffered(b)
  PROVE  parsed' = parsed \o b /\ BufferIO' = <<>> /\ screen' = TRUE
<1>1. BufferIO \o b = b
  BY ConcatEmptySeq
<1>2. Parse(b)
  BY <1>1, Zenon DEF Buffered
<1> QED
  BY <1>2, Zenon DEF Parse

\* The bytes read go from the front of the queue to the end of what is
\* parsed.
LEMMA BytesMoved ==
  ASSUME Ordered, len \in Nat, len <= Len(que), UNCHANGED arrived,
         que' = SubSeq(que, len + 1, Len(que)),
         parsed' = parsed \o SubSeq(que, 1, len), BufferIO' = <<>>
  PROVE  Ordered'
<1> DEFINE b == SubSeq(que, 1, len)
<1>1. /\ b \in Seq(Nat) /\ Len(b) = len /\ \A i \in 1..len : b[i] = que[i]
      /\ que' \in Seq(Nat) /\ Len(que') = Len(que) - len
      /\ \A i \in 1..(Len(que) - len) : que'[i] = que[len + i]
  BY QueueSplit
<1>2. parsed' = parsed \o b
  OBVIOUS
<1> HIDE DEF b
<1>3. /\ parsed' \in Seq(Nat) /\ Len(parsed') = Len(parsed) + len
      /\ \A i \in 1..(Len(parsed) + len) :
           parsed'[i] = IF i <= Len(parsed) THEN parsed[i] ELSE b[i - Len(parsed)]
  BY <1>1, <1>2, ConcatProperties DEF Ordered
<1>4. Len(parsed) \in Nat /\ Len(que) \in Nat
  BY LenProperties DEF Ordered
<1>5. ASSUME NEW i \in 1..Len(parsed') PROVE parsed'[i] = i
  <2>1. CASE i <= Len(parsed)
    BY <2>1, <1>3, <1>4 DEF Ordered
  <2>2. CASE ~(i <= Len(parsed))
    <3>1. i - Len(parsed) \in 1..len /\ i - Len(parsed) \in 1..Len(que)
      BY <2>2, <1>3, <1>4
    <3>2. parsed'[i] = que[i - Len(parsed)]
      BY <2>2, <3>1, <1>1, <1>3, Zenon
    <3>3. que[i - Len(parsed)] = Len(parsed) + (i - Len(parsed))
      BY <3>1 DEF Ordered
    <3>4. Len(parsed) + (i - Len(parsed)) = i
      BY <1>4
    <3> QED
      BY <3>2, <3>3, <3>4, Zenon
  <2> QED
    BY <2>1, <2>2
<1>6. ASSUME NEW i \in 1..Len(que') PROVE que'[i] = Len(parsed') + i
  <2>1. len + i \in 1..Len(que) /\ i \in 1..(Len(que) - len)
    BY <1>1, <1>4
  <2>2. que'[i] = que[len + i]
    BY <1>1, <2>1, Zenon
  <2>3. que[len + i] = Len(parsed) + (len + i)
    BY <2>1 DEF Ordered
  <2>4. Len(parsed') = Len(parsed) + len
    BY <1>3, Zenon
  <2>5. Len(parsed) + (len + i) = (Len(parsed) + len) + i
    BY <1>4
  <2> QED
    BY <2>2, <2>3, <2>4, <2>5, Zenon
<1>7. Len(que') <= QueMax /\ Len(parsed') + Len(que') = arrived'
  <2>1. Len(parsed') = Len(parsed) + len /\ Len(que') = Len(que) - len
    BY <1>1, <1>3, Zenon
  <2>2. Len(que) <= QueMax /\ Len(parsed) + Len(que) = arrived /\ QueMax \in Nat
    BY ConstantsAssumption DEF Ordered
  <2>3. Len(que) - len <= QueMax /\ (Len(parsed) + len) + (Len(que) - len) = arrived
    BY <1>4, <2>2
  <2> QED
    BY <2>1, <2>3, Zenon
<1>8. arrived' \in Nat
  BY DEF Ordered
<1> QED
  BY <1>1, <1>3, <1>5, <1>6, <1>7, <1>8, Zenon DEF Ordered

\* EVENT_READ, second half: the bytes go to the parser, or the call fails.
LEMMA ReadFileInv == IInv /\ ReadFile => IInv'
<1> SUFFICES ASSUME IInv, ReadFile PROVE IInv'
  OBVIOUS
<1>1. BufferIO = <<>> /\ que \in Seq(Nat) /\ Len(que) \in Nat
  BY LenProperties DEF IInv, Ordered
<1>2. /\ UNCHANGED <<arrived, occurred, waiting, readEvent, len, complete,
                     ready, module, write, refused, inputs>>
      /\ pc = "fetch"
  BY Zenon DEF ReadFile
<1>3. complete /\ len \in Nat /\ len <= Len(que)
  <2>1. complete
    BY <1>2, Zenon DEF IInv, Control, Drawn
  <2>2. len \in Nat /\ len <= Len(que)
    BY <1>2, ConstantsAssumption DEF IInv, Counters, Asked
  <2> QED
    BY <2>1, <2>2
<1>4. CASE /\ que' = SubSeq(que, len + 1, Len(que))
           /\ Buffered(SubSeq(que, 1, len))
           /\ pc' = "select" /\ UNCHANGED <<left, error, failures>>
  <2>1. /\ SubSeq(que, 1, len) \in Seq(Nat) /\ Len(SubSeq(que, 1, len)) = len
        /\ que' \in Seq(Nat) /\ Len(que') = Len(que) - len
    BY <1>3, <1>4, QueueSplit DEF IInv
  <2>2. /\ parsed' = parsed \o SubSeq(que, 1, len) /\ BufferIO' = <<>>
        /\ screen' \in {TRUE, screen}
    <3>1. CASE SubSeq(que, 1, len) # <<>>
      BY <3>1, <2>1, <1>1, <1>3, <1>4, ReadIsParsed, Zenon
    <3>2. CASE SubSeq(que, 1, len) = <<>>
      <4>1. BufferIO \o SubSeq(que, 1, len) = <<>> /\ parsed \o <<>> = parsed
        BY <3>2, <1>1, ConcatEmptySeq DEF IInv, Ordered
      <4>2. Parse(<<>>)
        BY <4>1, <1>3, <1>4, Zenon DEF Buffered
      <4> QED
        BY <4>1, <4>2, <3>2, <1>1, Zenon DEF Parse
    <3> QED
      BY <3>1, <3>2
  <2>3. Ordered'
    BY <1>2, <1>3, <1>4, <2>2, BytesMoved, Zenon DEF IInv
  <2>4. Asked'
    BY <1>4 DEF Asked
  <2>5. Counters'
    BY <1>2, <1>4 DEF IInv, Counters
  <2>6. que' # <<>> => Len(que) # len
    BY <2>1, <1>1, <1>3, EmptySeq
  <2>7. pc' # "fetch" /\ pc # "select" /\ pc # "stopped"
    BY <1>2, <1>4
  <2>8. Control'
    BY <1>2, <1>3, <1>4, <2>2, <2>6, <2>7, Zenon
    DEF IInv, Control, Flags, Drawn, Listening, NoStrand, Noted
  <2> QED
    BY <2>3, <2>4, <2>5, <2>8 DEF IInv
<1>5. CASE /\ failures' = failures + 1
           /\ error' = FALSE /\ NothingRead /\ UNCHANGED que
  <2>1. /\ UNCHANGED <<BufferIO, parsed, screen>>
        /\ pc' = "select" /\ left' = (que # <<>>)
    BY <1>1, <1>5, NothingReadKeeps, Zenon
  <2>2. Ordered' /\ Asked'
    BY <1>2, <1>5, <2>1, BytesKept, Zenon DEF IInv
  <2>3. Counters'
    BY <1>2, <1>5, <2>1 DEF IInv, Counters
  <2>4. pc' # "fetch"
    BY <2>1
  <2>5. Control'
    BY <1>2, <1>3, <1>5, <2>1, <2>4, Zenon
    DEF IInv, Control, Flags, Drawn, Listening, NoStrand, Noted
  <2> QED
    BY <2>2, <2>3, <2>5 DEF IInv
<1> QED
  BY <1>4, <1>5, Zenon DEF ReadFile

\* What is not changed keeps the invariant.
LEMMA StutterInv == IInv /\ UNCHANGED vars => IInv'
<1> SUFFICES ASSUME IInv, UNCHANGED vars PROVE IInv'
  OBVIOUS
<1>1. Ordered' /\ Asked'
  BY BytesKept, Zenon DEF IInv, vars, driverVars, loopVars
<1>2. Counters'
  BY DEF IInv, Counters, vars, driverVars, loopVars
<1>3. Control'
  BY Zenon DEF IInv, Control, Flags, Drawn, Listening, NoStrand, Noted,
               vars, driverVars, loopVars
<1> QED
  BY <1>1, <1>2, <1>3 DEF IInv

\* The inductive invariant holds in every state of the main loop.
LEMMA Invariance == Spec => []IInv
<1>1. IInv /\ [Next]_vars => IInv'
  <2> SUFFICES ASSUME IInv, [Next]_vars PROVE IInv'
    OBVIOUS
  <2>1. CASE Next
    <3>1. CASE Stopped
      BY <3>1, StutterInv, Zenon DEF Stopped
    <3> QED
      BY <2>1, <3>1, ArriveInv, LineErrorInv, ServedInv, MessagesInv, UpdateInv,
         ClearCommErrorInv, SelectInv, ReadFileInv, Zenon DEF Next, Step, Serve
  <2>2. CASE UNCHANGED vars
    BY <2>2, StutterInv
  <2> QED
    BY <2>1, <2>2
<1> QED
  BY <1>1, InitInv, PTL DEF Spec

\* Sizes stay in their ranges: the driver's queue, BufferIO and the buffer
\* of WaitingMessages hold what the code puts there.
THEOREM ReceiveTypeCorrect == Spec => []TypeOK
<1>1. IInv => TypeOK
  <2> SUFFICES ASSUME IInv PROVE TypeOK
    OBVIOUS
  <2>1. <<>> \in Seq(Nat) /\ Len(<<>>) = 0
    BY EmptySeq
  <2>2. BufferIO \in Seq(Nat) /\ Len(BufferIO) < 3 * OneShot
    BY <2>1, ConstantsAssumption DEF IInv, Ordered
  <2>3. Ranges
    BY <2>2 DEF IInv, Ordered, Counters, Ranges
  <2>4. Flags
    BY DEF IInv, Control
  <2> QED
    BY <2>3, <2>4 DEF TypeOK
<1> QED
  BY <1>1, Invariance, PTL

\* What the parser got, what is in BufferIO and what is in the driver's queue
\* are all the bytes that arrived, in order: Read and WaitingMessages lose,
\* double and reorder none, whatever the driver refuses.
THEOREM BytesInOrder == Spec => []InOrder
<1>1. IInv => InOrder
  <2> SUFFICES ASSUME Ordered PROVE InOrder
    BY DEF IInv
  <2>1. parsed \in Seq(Nat) /\ que \in Seq(Nat) /\ Len(parsed) \in Nat /\ Len(que) \in Nat
    BY LenProperties DEF Ordered
  <2>2. parsed \o BufferIO = parsed
    BY <2>1, ConcatEmptySeq DEF Ordered
  <2>3. /\ parsed \o que \in Seq(Nat)
        /\ Len(parsed \o que) = Len(parsed) + Len(que)
        /\ \A i \in 1..(Len(parsed) + Len(que)) :
             (parsed \o que)[i] = IF i <= Len(parsed) THEN parsed[i] ELSE que[i - Len(parsed)]
    BY <2>1, ConcatProperties
  <2>4. Len(parsed) + Len(que) = arrived /\ arrived \in Nat
    BY DEF Ordered
  <2>5. ASSUME NEW i \in 1..arrived PROVE (parsed \o que)[i] = i
    <3>1. CASE i <= Len(parsed)
      BY <3>1, <2>1, <2>3, <2>4 DEF Ordered
    <3>2. CASE ~(i <= Len(parsed))
      <4>1. i - Len(parsed) \in 1..Len(que)
        BY <3>2, <2>1, <2>4
      <4>2. que[i - Len(parsed)] = Len(parsed) + (i - Len(parsed))
        BY <4>1 DEF Ordered
      <4>3. Len(parsed) + (i - Len(parsed)) = i
        BY <2>1
      <4> QED
        BY <3>2, <4>2, <4>3, <2>3, <2>4, Zenon
    <3> QED
      BY <3>1, <3>2
  <2>6. parsed \o que = [i \in 1..arrived |-> (parsed \o que)[i]]
    <3>1. parsed \o que \in [1..Len(parsed \o que) -> Nat]
      BY <2>3, LenProperties
    <3>2. Len(parsed \o que) = arrived
      BY <2>3, <2>4
    <3> QED
      BY <3>1, <3>2
  <2> QED
    BY <2>2, <2>5, <2>6, Zenon DEF InOrder
<1> QED
  BY <1>1, Invariance, PTL

\* The screen's event comes before that of reading: bytes are read only when
\* the screen is up to date, and BufferIO is empty between two events.
THEOREM ReadsWhenDrawn == Spec => []ReadWhenDrawn
<1>1. IInv => ReadWhenDrawn
  BY Zenon DEF IInv, Ordered, Control, Drawn, ReadWhenDrawn
<1> QED
  BY <1>1, Invariance, PTL

\* Unless the driver refuses it, a wait for the line is pending, completed,
\* or about to be started, and never started twice.
THEOREM KeepsListening == Spec => []Listening
<1>1. IInv => Listening
  BY DEF IInv, Control
<1> QED
  BY <1>1, Invariance, PTL

\* Bytes that arrive between Read and Select are not forgotten.
THEOREM NothingStranded == Spec => []NoStrand
<1>1. IInv => NoStrand
  BY DEF IInv, Control
<1> QED
  BY <1>1, Invariance, PTL

-----------------------------------------------------------------------------
(* What follows for the loop as a whole.                                   *)

\* The loop waits with bytes in the driver's queue only if the event of
\* reading is signalled, if the last Read left them, or if Select gave up.
KnowsOfBytes == pc = "wait" /\ que # <<>> => readEvent \/ left \/ refused

THEOREM RestsKnowingly == Spec => []KnowsOfBytes
<1>1. IInv => KnowsOfBytes
  BY Zenon DEF IInv, Control, Listening, NoStrand, KnowsOfBytes
<1> QED
  BY <1>1, Invariance, PTL

\* The parser is given bytes by one step only: by the Read that brings them,
\* with the screen up to date, and exactly those.  WaitingMessages' branches
\* that keep bytes in BufferIO, parse them before they overflow it, and parse
\* them after the screen was drawn are never taken with a byte in them.
ParsedAtOnce ==
  [][parsed' # parsed =>
       pc = "fetch" /\ complete /\ parsed' = parsed \o SubSeq(que, 1, len)]_vars

THEOREM BytesParsedAtOnce == Spec => ParsedAtOnce
<1>1. ASSUME IInv, Next, parsed' # parsed
      PROVE  pc = "fetch" /\ complete /\ parsed' = parsed \o SubSeq(que, 1, len)
  <2>1. BufferIO = <<>> /\ (pc = "fetch" => complete)
    BY <1>1, Zenon DEF IInv, Ordered, Control, Drawn
  <2>2. NothingRead => UNCHANGED parsed
    BY <2>1, NothingToParse DEF NothingRead
  <2>3. ~Update
    BY <1>1, <2>1, Zenon DEF Update
  <2>4. ~ClearCommError
    BY <1>1, <2>2, Zenon DEF ClearCommError
  <2>5. ReadFile
    BY <1>1, <2>3, <2>4, Zenon
       DEF Next, Step, Serve, ExecuteModule, WriteFlush, Select, Messages, Arrive,
           LineError, MessageArrives, EventOccurs, Stopped, loopVars, vars
  <2>6. pc = "fetch" /\ Buffered(SubSeq(que, 1, len))
    BY <1>1, <2>2, <2>5, Zenon DEF ReadFile
  <2>7. Len(SubSeq(que, 1, len)) = len /\ len \in Nat /\ len < 3 * OneShot
        /\ SubSeq(que, 1, len) \in Seq(Nat)
    <3>1. len \in 0..OneShot /\ len <= Len(que) /\ que \in Seq(Nat) /\ Len(que) \in Nat
      BY <1>1, <2>6, LenProperties DEF IInv, Ordered, Counters, Asked
    <3>2. len \in Nat /\ len < 3 * OneShot
      BY <3>1, ConstantsAssumption
    <3> QED
      BY <3>1, <3>2
  <2>8. Parse(BufferIO \o SubSeq(que, 1, len))
    BY <2>1, <2>6, ReadIsParsed, Zenon DEF Buffered
  <2>9. BufferIO \o SubSeq(que, 1, len) = SubSeq(que, 1, len)
    BY <2>1, <2>7, ConcatEmptySeq
  <2> QED
    BY <1>1, <2>1, <2>6, <2>8, <2>9 DEF Parse
<1>2. IInv /\ [Next]_vars =>
        [parsed' # parsed =>
           pc = "fetch" /\ complete /\ parsed' = parsed \o SubSeq(que, 1, len)]_vars
  BY <1>1
<1> QED
  BY <1>2, Invariance, PTL DEF Spec, ParsedAtOnce
=============================================================================
