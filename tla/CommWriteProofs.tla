-------------------------- MODULE CommWriteProofs ---------------------------
(***************************************************************************)
(* Proofs about CommWrite for any buffer size and any bounds: the buffer   *)
(* is what was not sent, it never stalls, and the line implements          *)
(* ByteStream.                                                             *)
(***************************************************************************)
EXTENDS CommWrite, SequenceTheorems, TLAPS

\* m_WriteStatus and the event say together what is being sent.
StatusInv ==
  /\ ~status => buf = <<>>
  /\ status => io = "pending" \/ event \/ io = "refused"
  /\ io = "pending" => ~event
  /\ io = "done" /\ event => sent <= Len(buf)

\* The bytes that left the buffer, and those of the transmission it has yet
\* to account for.
Base == accepted - Len(buf)
Confirmed == IF io = "pending" \/ (io = "done" /\ event) THEN Base + sent ELSE Base

\* What is confirmed is on the line; it is the last on the line unless a
\* transmission failed after some of its bytes went out.
WireInv ==
  /\ io = "failed" => again
  /\ Confirmed <= Stream!Latest
  /\ ~again => Confirmed = Stream!Latest

IInv == TypeOK /\ BufferIsUnsent /\ StatusInv /\ WireInv

-----------------------------------------------------------------------------
\* The lesser of two numbers is one of them and exceeds neither.
LEMMA LesserBounds ==
  ASSUME NEW a \in Nat, NEW b \in Nat
  PROVE  Lesser(a, b) \in Nat /\ Lesser(a, b) <= a /\ Lesser(a, b) <= b
BY DEF Lesser

\* add_bytes puts new bytes, numbered on, behind those in the buffer.
LEMMA BytesAdded ==
  ASSUME NEW n \in Nat, buf \in Seq(Nat), accepted \in Nat
  PROVE  /\ AddBytes(n) \in Seq(Nat)
         /\ Len(AddBytes(n)) = Len(buf) + n
         /\ \A i \in 1..(Len(buf) + n) :
              AddBytes(n)[i] = IF i <= Len(buf) THEN buf[i]
                                                ELSE accepted + (i - Len(buf))
<1> DEFINE new == [i \in 1..n |-> accepted + i]
<1>1. new \in [1..n -> Nat]
  OBVIOUS
<1>2. new \in Seq(Nat)
  BY <1>1, SeqDef
<1>3. Len(new) = n
  BY <1>2, <1>1
<1>4. \A i \in 1..n : new[i] = accepted + i
  OBVIOUS
<1>5. AddBytes(n) = buf \o new
  BY DEF AddBytes
<1> HIDE DEF new
<1>6. /\ buf \o new \in Seq(Nat)
      /\ Len(buf \o new) = Len(buf) + n
      /\ \A i \in 1..(Len(buf) + n) :
           (buf \o new)[i] = IF i <= Len(buf) THEN buf[i] ELSE new[i - Len(buf)]
  BY <1>2, <1>3, ConcatProperties
<1>7. ASSUME NEW i \in 1..(Len(buf) + n), ~(i <= Len(buf))
      PROVE  new[i - Len(buf)] = accepted + (i - Len(buf))
  <2>1. i - Len(buf) \in 1..n
    BY <1>7, LenProperties
  <2> QED
    BY <2>1, <1>4
<1> QED
  BY <1>5, <1>6, <1>7

\* memmove drops the bytes that went out.
LEMMA FrontDropped ==
  ASSUME NEW b \in Seq(Nat), NEW d \in Nat, d <= Len(b)
  PROVE  /\ SubSeq(b, d + 1, Len(b)) \in Seq(Nat)
         /\ Len(SubSeq(b, d + 1, Len(b))) = Len(b) - d
         /\ \A i \in 1..(Len(b) - d) : SubSeq(b, d + 1, Len(b))[i] = b[i + d]
<1>1. Len(b) \in Nat /\ \A i \in (d + 1)..Len(b) : b[i] \in Nat
  BY ElementOfSeq, LenProperties
<1>2. /\ SubSeq(b, d + 1, Len(b)) \in Seq(Nat)
      /\ Len(SubSeq(b, d + 1, Len(b))) = IF d + 1 <= Len(b) THEN Len(b) - (d + 1) + 1 ELSE 0
      /\ \A i \in 1..(Len(b) - (d + 1) + 1) :
           SubSeq(b, d + 1, Len(b))[i] = b[(d + 1) + i - 1]
  BY <1>1, SubSeqProperties
<1>3. Len(SubSeq(b, d + 1, Len(b))) = Len(b) - d
  BY <1>1, <1>2
<1>4. ASSUME NEW i \in 1..(Len(b) - d)
      PROVE  SubSeq(b, d + 1, Len(b))[i] = b[i + d]
  <2>1. i \in 1..(Len(b) - (d + 1) + 1) /\ i \in Nat
    BY <1>1
  <2>2. SubSeq(b, d + 1, Len(b))[i] = b[(d + 1) + i - 1]
    BY <2>1, <1>2, Zenon
  <2>3. (d + 1) + i - 1 = i + d
    BY <2>1
  <2> QED
    BY <2>2, <2>3, Zenon
<1> QED
  BY <1>2, <1>3, <1>4, Zenon

\* A byte that goes out is the latest on the line.
LEMMA LastAppended ==
  ASSUME NEW w \in Seq(Nat), NEW x \in Nat
  PROVE  /\ Append(w, x) \in Seq(Nat) /\ Append(w, x) # <<>>
         /\ Append(w, x)[Len(Append(w, x))] = x
OBVIOUS

\* The latest byte of a line is a number.
LEMMA LatestType == wire \in Seq(Nat) => Stream!Latest \in Nat
<1> SUFFICES ASSUME wire \in Seq(Nat), wire # <<>> PROVE wire[Len(wire)] \in Nat
  BY DEF Stream!Latest
<1>1. Len(wire) \in Nat \ {0}
  BY EmptySeq
<1> QED
  BY <1>1, ElementOfSeq

-----------------------------------------------------------------------------
(* Init and each action keep the invariant and are a step, or no step, of  *)
(* ByteStream.                                                             *)

StreamStep == [Stream!Next]_Stream!streamVars

\* Init satisfies the invariant and is an initial state of ByteStream.
LEMMA InitHolds == Init => IInv /\ Stream!Init
<1> SUFFICES ASSUME Init PROVE IInv /\ Stream!Init
  OBVIOUS
<1> USE ConstantsAssumption DEF Init
<1>1. buf = <<>> /\ wire = <<>> /\ Len(buf) = 0 /\ <<>> \in Seq(Nat)
  BY EmptySeq
<1>2. TypeOK
  <2>1. 0 \in 0..MaxStream /\ 0 \in 0..MaxFail /\ 0 <= WriteMax
    OBVIOUS
  <2>2. buf \in Seq(Nat) /\ wire \in Seq(Nat) /\ Len(buf) <= WriteMax
    BY <1>1, <2>1
  <2>3. open \in BOOLEAN /\ status \in BOOLEAN /\ event \in BOOLEAN /\ again \in BOOLEAN
    OBVIOUS
  <2> QED
    BY <2>1, <2>2, <2>3 DEF TypeOK
<1>3. BufferIsUnsent
  BY <1>1 DEF BufferIsUnsent
<1>4. StatusInv
  BY <1>1 DEF StatusInv
<1>5. WireInv
  <2>1. Stream!Latest = 0
    BY <1>1 DEF Stream!Latest
  <2>2. Base = 0
    <3>1. accepted = 0 /\ Len(buf) = 0 /\ 0 - 0 = 0
      BY <1>1
    <3> QED
      BY <3>1, Zenon DEF Base
  <2>3. Confirmed = 0
    BY <2>2 DEF Confirmed
  <2> QED
    BY <2>1, <2>2, <2>3 DEF WireInv
<1>6. Stream!Init
  BY DEF Stream!Init
<1> QED
  BY <1>2, <1>3, <1>4, <1>5, <1>6 DEF IInv

\* Starting a transmission, or failing to, over a buffer in order: the part
\* of the step that Write and WriteFlush share.
LEMMA SendKeeps ==
  ASSUME IInv, send_bytes, low' = 0, buf' \in Seq(Nat), Len(buf') <= accepted',
         wire' = wire, again' = again,
         accepted' - Len(buf') = Confirmed,
         accepted' \in Nat
  PROVE  /\ status' = TRUE /\ event' \in BOOLEAN /\ failures' \in 0..MaxFail
         /\ io' \in {"pending", "refused"} /\ size' \in Nat /\ sent' \in Nat
         /\ StatusInv' /\ WireInv'
         /\ io' = "pending" => sent' <= size' /\ size' <= Len(buf')
<1> USE ConstantsAssumption DEF IInv, TypeOK, send_bytes
<1>1. Len(buf') \in Nat /\ Len(buf) \in Nat
  BY LenProperties
<1>2. sent' = 0 /\ status' = TRUE /\ io' \in {"pending", "refused"}
  OBVIOUS
<1>3. event' \in BOOLEAN /\ failures' \in 0..MaxFail
  <2>1. event' \in {FALSE, event}
    OBVIOUS
  <2>2. failures' = failures \/ (failures < MaxFail /\ failures' = failures + 1)
    OBVIOUS
  <2>3. failures' \in 0..MaxFail
    BY <2>2
  <2>4. event' \in BOOLEAN
    BY <2>1, Zenon
  <2> QED
    BY <2>3, <2>4
<1>4. size' \in Nat /\ (io' = "pending" => sent' <= size' /\ size' <= Len(buf'))
  <2>1. (io' = "pending" /\ size' = Len(buf') - low') \/ (io' = "refused" /\ size' = 0)
    OBVIOUS
  <2>2. Len(buf') - low' = Len(buf')
    BY <1>1
  <2>3. size' \in Nat
    BY <2>1, <2>2, <1>1
  <2> QED
    BY <2>1, <2>2, <2>3, <1>1, <1>2
<1>5. StatusInv'
  BY DEF StatusInv
<1>6. Stream!Latest' = Stream!Latest
  BY DEF Stream!Latest
<1>7. Base' = Confirmed /\ Confirmed' = Confirmed
  BY <1>1, <1>2 DEF Confirmed, Base
<1>8. WireInv'
  BY <1>2, <1>6, <1>7 DEF WireInv
<1> QED
  BY <1>2, <1>3, <1>4, <1>5, <1>8

\* Write: the new bytes are numbered on, and nothing is started while a
\* transmission runs.
LEMMA WriteStep ==
  ASSUME IInv, NEW len \in 1..MaxWrite, Write(len)
  PROVE  IInv' /\ StreamStep
<1> DEFINE n == Lesser(len, WriteMax - Len(buf))
<1> USE ConstantsAssumption
<1>1. /\ buf \in Seq(Nat) /\ Len(buf) \in Nat /\ accepted \in Nat /\ len \in Nat
      /\ WriteMax - Len(buf) \in Nat
  BY LenProperties DEF IInv, TypeOK
<1>2. n \in Nat /\ n <= len /\ Len(buf) + n <= WriteMax
  <2>1. n \in Nat /\ n <= len /\ n <= WriteMax - Len(buf)
    BY <1>1, LesserBounds
  <2> HIDE DEF n
  <2> QED
    BY <2>1, <1>1
<1>3. /\ buf' = AddBytes(n) /\ accepted' = accepted + n
      /\ lost' = (lost \/ n < len) /\ accepted + len <= MaxStream
      /\ UNCHANGED <<open, low, wire, again>>
      /\ IF status THEN UNCHANGED <<status, event, io, size, sent, failures>>
                   ELSE send_bytes
  BY DEF Write
<1> HIDE DEF n
<1>4. /\ buf' \in Seq(Nat) /\ Len(buf') = Len(buf) + n
      /\ \A i \in 1..(Len(buf) + n) :
           buf'[i] = IF i <= Len(buf) THEN buf[i] ELSE accepted + (i - Len(buf))
  BY <1>1, <1>2, <1>3, BytesAdded
<1>5. accepted' \in 0..MaxStream /\ accepted' - Len(buf') = accepted - Len(buf)
  BY <1>1, <1>2, <1>3, <1>4
<1>6. \A i \in 1..Len(buf') : buf'[i] = accepted' - Len(buf') + i
  <2> TAKE i \in 1..Len(buf')
  <2>1. CASE i <= Len(buf)
    <3>1. i \in 1..Len(buf)
      BY <1>1, <1>4, <2>1
    <3>2. buf[i] = accepted - Len(buf) + i
      BY <3>1 DEF IInv, BufferIsUnsent
    <3> QED
      BY <2>1, <3>2, <1>4, <1>5
  <2>2. CASE ~(i <= Len(buf))
    <3>1. buf'[i] = accepted + (i - Len(buf))
      BY <2>2, <1>4
    <3> QED
      BY <3>1, <1>1, <1>2, <1>3, <1>4
  <2> QED
    BY <2>1, <2>2
<1>7. low' = 0 /\ Len(buf) <= accepted /\ Len(buf') <= accepted' /\ Len(buf') <= WriteMax
  BY <1>1, <1>2, <1>3, <1>4 DEF IInv, BufferIsUnsent
<1>8. TypeOK' /\ BufferIsUnsent' /\ StatusInv' /\ WireInv'
  <2>1. CASE status
    <3>1. UNCHANGED <<open, low, wire, again, status, event, io, size, sent, failures>>
      BY <2>1, <1>3
    <3>2. TypeOK'
      BY <3>1, <1>3, <1>4, <1>5, <1>7 DEF IInv, TypeOK
    <3>3. BufferIsUnsent'
      BY <3>1, <1>1, <1>2, <1>4, <1>6, <1>7 DEF IInv, BufferIsUnsent, TypeOK
    <3>4. StatusInv'
      BY <2>1, <3>1, <1>1, <1>2, <1>4 DEF IInv, StatusInv, TypeOK
    <3>5. Confirmed' = Confirmed /\ Stream!Latest' = Stream!Latest
      BY <3>1, <1>5 DEF Confirmed, Base, Stream!Latest
    <3>6. WireInv'
      BY <3>1, <3>5 DEF IInv, WireInv
    <3> QED
      BY <3>2, <3>3, <3>4, <3>6
  <2>2. CASE ~status
    <3>1. send_bytes
      BY <2>2, <1>3
    <3>2. Len(buf) = 0
      BY <2>2, EmptySeq DEF IInv, StatusInv
    <3>3. io # "pending" /\ (io = "done" /\ event => sent = 0)
      BY <2>2, <3>2 DEF IInv, StatusInv, BufferIsUnsent, TypeOK
    <3>4. accepted' - Len(buf') = Confirmed
      BY <3>3, <1>1, <1>5 DEF Confirmed, Base
    <3>5. wire' = wire /\ again' = again /\ accepted' \in Nat
      BY <1>3, <1>5
    <3>6. /\ status' = TRUE /\ event' \in BOOLEAN /\ failures' \in 0..MaxFail
          /\ io' \in {"pending", "refused"} /\ size' \in Nat /\ sent' \in Nat
          /\ StatusInv' /\ WireInv'
          /\ io' = "pending" => sent' <= size' /\ size' <= Len(buf')
      BY <3>1, <3>4, <3>5, <1>4, <1>7, SendKeeps
    <3>7. TypeOK'
      BY <3>6, <1>3, <1>4, <1>5, <1>7 DEF IInv, TypeOK
    <3>8. BufferIsUnsent'
      BY <3>6, <1>6, <1>7 DEF BufferIsUnsent
    <3> QED
      BY <3>6, <3>7, <3>8
  <2> QED
    BY <2>1, <2>2
<1>9. StreamStep
  <2>1. CASE n = 0
    BY <2>1, <1>1, <1>3 DEF StreamStep, Stream!streamVars
  <2>2. CASE n # 0
    BY <2>2, <1>1, <1>2, <1>3 DEF StreamStep, Stream!Next, Stream!Accept
  <2> QED
    BY <2>1, <2>2
<1> QED
  BY <1>8, <1>9 DEF IInv

\* WriteFlush: what went out leaves the buffer, and nothing else.
LEMMA WriteFlushStep ==
  ASSUME IInv, WriteFlush
  PROVE  IInv' /\ StreamStep
<1> USE ConstantsAssumption
<1>1. /\ buf \in Seq(Nat) /\ Len(buf) \in Nat /\ accepted \in Nat /\ sent \in Nat
      /\ Len(buf) <= accepted /\ low = 0 /\ event
  BY LenProperties DEF IInv, TypeOK, BufferIsUnsent, WriteFlush
<1>2. io # "pending"
  BY <1>1 DEF IInv, StatusInv
<1>3. Completed \in Nat /\ Completed <= Len(buf)
  BY <1>1 DEF Completed, IInv, StatusInv
<1>4. low + Completed = Completed /\ Confirmed = Base + Completed
  BY <1>1, <1>2, <1>3 DEF Confirmed, Completed, Base
<1>5. /\ buf' = SubSeq(buf, Completed + 1, Len(buf)) /\ low' = 0
      /\ UNCHANGED <<open, accepted, lost, wire, again>>
      /\ IF Len(buf) > Completed
         THEN send_bytes
         ELSE /\ status' = FALSE /\ event' = FALSE
              /\ UNCHANGED <<io, size, sent, failures>>
  BY <1>4 DEF WriteFlush
<1>6. /\ buf' \in Seq(Nat) /\ Len(buf') = Len(buf) - Completed
      /\ \A i \in 1..(Len(buf) - Completed) : buf'[i] = buf[i + Completed]
  BY <1>1, <1>3, <1>5, FrontDropped
<1>7. Len(buf') \in Nat /\ Len(buf') <= accepted' /\ accepted' - Len(buf') = Confirmed
  <2>1. accepted' = accepted
    BY <1>5
  <2>2. Len(buf') \in Nat /\ Len(buf') <= accepted'
    BY <2>1, <1>1, <1>3, <1>6
  <2>3. accepted' - Len(buf') = Base + Completed
    BY <2>1, <1>1, <1>3, <1>6 DEF Base
  <2> QED
    BY <2>2, <2>3, <1>4
<1>8. \A i \in 1..Len(buf') : buf'[i] = accepted' - Len(buf') + i
  <2> TAKE i \in 1..Len(buf')
  <2>1. i \in 1..(Len(buf) - Completed) /\ i + Completed \in 1..Len(buf)
    BY <1>1, <1>3, <1>6
  <2>2. buf'[i] = buf[i + Completed]
    BY <2>1, <1>6
  <2>3. buf[i + Completed] = accepted - Len(buf) + (i + Completed)
    BY <2>1 DEF IInv, BufferIsUnsent
  <2>4. accepted - Len(buf) + (i + Completed) = accepted' - Len(buf') + i
    <3>1. i \in Nat /\ accepted' = accepted /\ Len(buf') = Len(buf) - Completed
      BY <2>1, <1>3, <1>5, <1>6
    <3> HIDE DEF Completed
    <3> QED
      BY <3>1, <1>1, <1>3
  <2> QED
    BY <2>2, <2>3, <2>4, Zenon
<1>9. Len(buf') <= WriteMax /\ accepted' \in 0..MaxStream
  BY <1>1, <1>3, <1>5, <1>6 DEF IInv, TypeOK
<1>10. TypeOK' /\ BufferIsUnsent' /\ StatusInv' /\ WireInv'
  <2>1. CASE Len(buf) > Completed
    <3>1. send_bytes
      BY <2>1, <1>5
    <3>2. /\ status' = TRUE /\ event' \in BOOLEAN /\ failures' \in 0..MaxFail
          /\ io' \in {"pending", "refused"} /\ size' \in Nat /\ sent' \in Nat
          /\ StatusInv' /\ WireInv'
          /\ io' = "pending" => sent' <= size' /\ size' <= Len(buf')
      BY <3>1, <1>1, <1>5, <1>6, <1>7, SendKeeps
    <3>3. TypeOK'
      BY <3>2, <1>5, <1>6, <1>9 DEF IInv, TypeOK
    <3>4. BufferIsUnsent'
      BY <3>2, <1>5, <1>7, <1>8 DEF BufferIsUnsent
    <3> QED
      BY <3>2, <3>3, <3>4
  <2>2. CASE ~(Len(buf) > Completed)
    <3>1. status' = FALSE /\ event' = FALSE /\ UNCHANGED <<io, size, sent, failures>>
      BY <2>2, <1>5
    <3>2. Len(buf') = 0
      BY <2>2, <1>1, <1>3, <1>6
    <3>3. buf' = <<>>
      BY <3>2, <1>6, EmptySeq
    <3>4. TypeOK'
      BY <3>1, <1>5, <1>6, <1>9 DEF IInv, TypeOK
    <3>5. BufferIsUnsent'
      BY <3>1, <1>2, <1>5, <1>7, <1>8 DEF BufferIsUnsent
    <3>6. StatusInv'
      BY <3>1, <3>3, <1>2 DEF StatusInv
    <3>7. Confirmed' = Confirmed /\ Stream!Latest' = Stream!Latest
      BY <3>1, <1>2, <1>5, <1>7 DEF Confirmed, Base, Stream!Latest
    <3>8. WireInv'
      BY <3>1, <3>7, <1>5 DEF IInv, WireInv
    <3> QED
      BY <3>4, <3>5, <3>6, <3>8
  <2> QED
    BY <2>1, <2>2
<1>11. StreamStep
  BY <1>5 DEF StreamStep, Stream!streamVars
<1> QED
  BY <1>10, <1>11 DEF IInv
\* Transmit: the byte after the confirmed ones goes out.
LEMMA TransmitStep ==
  ASSUME IInv, Transmit
  PROVE  IInv' /\ StreamStep
<1> DEFINE b == Base + sent + 1
<1> USE ConstantsAssumption
<1>1. /\ buf \in Seq(Nat) /\ Len(buf) \in Nat /\ accepted \in Nat /\ sent \in Nat
      /\ size \in Nat /\ wire \in Seq(Nat) /\ Len(buf) <= accepted /\ low = 0
      /\ io = "pending" /\ sent < size /\ size <= Len(buf)
  BY LenProperties DEF IInv, TypeOK, BufferIsUnsent, Transmit
<1>2. b \in Nat /\ b \in 1..accepted /\ sent + 1 \in 1..Len(buf)
  BY <1>1 DEF Base
<1>3. buf[low + sent + 1] = b
  <2>1. low + sent + 1 = sent + 1
    BY <1>1
  <2>2. buf[sent + 1] = accepted - Len(buf) + (sent + 1)
    BY <1>2 DEF IInv, BufferIsUnsent
  <2>3. accepted - Len(buf) + (sent + 1) = b
    BY <1>1 DEF Base
  <2> QED
    BY <2>1, <2>2, <2>3
<1>4. /\ wire' = Append(wire, b) /\ sent' = sent + 1 /\ again' = FALSE
      /\ UNCHANGED <<open, buf, low, status, event, io, size, accepted, lost, failures>>
  BY <1>3 DEF Transmit
<1>5. Confirmed = Base + sent /\ Confirmed' = b
  <2>1. Confirmed = Base + sent
    BY <1>1 DEF Confirmed
  <2>2. Base' = Base /\ Confirmed' = Base' + sent'
    BY <1>1, <1>4 DEF Confirmed, Base
  <2> QED
    BY <2>1, <2>2, <1>1, <1>4 DEF Base
<1> HIDE DEF b
<1>6. wire' \in Seq(Nat) /\ Stream!Latest' = b
  <2>1. /\ Append(wire, b) \in Seq(Nat) /\ Append(wire, b) # <<>>
        /\ Append(wire, b)[Len(Append(wire, b))] = b
    BY <1>1, <1>2, LastAppended
  <2>2. wire' = Append(wire, b)
    BY <1>4
  <2>3. wire' \in Seq(Nat) /\ wire' # <<>> /\ wire'[Len(wire')] = b
    BY <2>1, <2>2, Zenon
  <2> QED
    BY <2>3, Zenon DEF Stream!Latest
<1>7. TypeOK'
  <2>1. sent' \in Nat /\ wire' \in Seq(Nat) /\ again' \in BOOLEAN
    <3>1. sent' \in Nat
      BY <1>1, <1>4
    <3>2. again' \in BOOLEAN
      BY <1>4, Zenon
    <3> QED
      BY <3>1, <3>2, <1>6
  <2>2. UNCHANGED <<open, buf, low, status, event, io, size, accepted, lost, failures>>
    BY <1>4
  <2> QED
    BY <2>1, <2>2, Zenon DEF IInv, TypeOK
<1>8. BufferIsUnsent'
  <2>1. sent' <= size'
    BY <1>1, <1>4
  <2> QED
    BY <2>1, <1>4 DEF IInv, BufferIsUnsent
<1>9. StatusInv'
  BY <1>1, <1>4 DEF IInv, StatusInv
<1>10. WireInv'
  BY <1>1, <1>2, <1>4, <1>5, <1>6 DEF WireInv
<1>11. StreamStep
  <2>1. Stream!Latest \in Nat
    BY <1>1, LatestType
  <2>2. b = Confirmed + 1 /\ Confirmed \in Nat
    BY <1>1, <1>5 DEF b, Base
  <2>3. IF again THEN b <= Stream!Latest + 1 ELSE b = Stream!Latest + 1
    BY <2>1, <2>2 DEF IInv, WireInv, TypeOK
  <2>4. Stream!Send
    BY <2>3, <1>2, <1>4 DEF Stream!Send
  <2> QED
    BY <2>4 DEF StreamStep, Stream!Next
<1> QED
  BY <1>7, <1>8, <1>9, <1>10, <1>11 DEF IInv

\* Complete and Abort signal the end; Close stops everything.
LEMMA EndStep ==
  ASSUME IInv, Complete \/ Abort \/ Close
  PROVE  IInv' /\ StreamStep
<1> USE ConstantsAssumption
<1>1. UNCHANGED <<buf, low, accepted, lost, wire, size, sent>> /\ Stream!Latest' = Stream!Latest
  BY DEF Complete, Abort, Close, driverVars, Stream!Latest
<1>2. Base' = Base
  BY <1>1 DEF Base
<1>3. Base \in Nat /\ sent \in Nat /\ Stream!Latest \in Nat /\ Len(buf) \in Nat
  BY LenProperties, LatestType DEF Base, IInv, TypeOK, BufferIsUnsent
<1>4. CASE Complete
  <2>1. io = "pending" /\ io' = "done" /\ event' /\ status' = status /\ status
    BY <1>4 DEF Complete, IInv, BufferIsUnsent
  <2>2. TypeOK'
    BY <1>1, <1>4 DEF Complete, IInv, TypeOK
  <2>3. BufferIsUnsent'
    BY <1>1, <2>1 DEF IInv, BufferIsUnsent
  <2>4. sent' <= Len(buf')
    BY <1>1, <2>1, <1>3 DEF IInv, BufferIsUnsent, TypeOK
  <2>5. StatusInv'
    BY <2>1, <2>4 DEF StatusInv
  <2>6. Confirmed' = Confirmed /\ again' = again
    BY <1>1, <1>2, <2>1, <1>4 DEF Confirmed, Complete
  <2>7. WireInv'
    BY <2>1, <2>6, <1>1 DEF IInv, WireInv
  <2>8. StreamStep
    BY <1>1, <2>6 DEF StreamStep, Stream!streamVars
  <2> QED
    BY <2>2, <2>3, <2>5, <2>7, <2>8 DEF IInv
<1>5. CASE Abort
  <2>1. /\ io = "pending" /\ io' = "failed" /\ event' = TRUE /\ again' = TRUE
        /\ status' = status /\ status /\ failures' = failures + 1 /\ failures < MaxFail
        /\ open' = open
    BY <1>5 DEF Abort, IInv, BufferIsUnsent
  <2>2. TypeOK'
    BY <1>1, <2>1 DEF IInv, TypeOK
  <2>3. BufferIsUnsent'
    BY <1>1, <2>1 DEF IInv, BufferIsUnsent
  <2>4. StatusInv'
    BY <2>1 DEF StatusInv
  <2>5. Confirmed' = Base /\ Confirmed = Base + sent
    BY <1>2, <2>1 DEF Confirmed
  <2>6. WireInv'
    BY <2>1, <2>5, <1>1, <1>3 DEF IInv, WireInv
  <2>7. StreamStep
    BY <1>1, <2>1 DEF StreamStep, Stream!Next, Stream!Fail
  <2> QED
    BY <2>2, <2>3, <2>4, <2>6, <2>7 DEF IInv
<1>6. CASE Close
  <2>1. open' = FALSE /\ UNCHANGED <<status, event, io, again, failures>>
    BY <1>6 DEF Close, driverVars
  <2>2. TypeOK' /\ BufferIsUnsent' /\ StatusInv'
    BY <1>1, <2>1 DEF IInv, TypeOK, BufferIsUnsent, StatusInv
  <2>3. Confirmed' = Confirmed
    BY <1>1, <1>2, <2>1 DEF Confirmed
  <2>4. WireInv'
    BY <2>1, <2>3, <1>1 DEF IInv, WireInv
  <2>5. StreamStep
    BY <1>1, <2>1 DEF StreamStep, Stream!streamVars
  <2> QED
    BY <2>2, <2>4, <2>5 DEF IInv
<1> QED
  BY <1>4, <1>5, <1>6

\* Every step keeps the invariant and maps to a step of ByteStream or none.
LEMMA NextStep == IInv /\ [Next]_vars => IInv' /\ StreamStep
<1> SUFFICES ASSUME IInv, [Next]_vars PROVE IInv' /\ StreamStep
  OBVIOUS
<1>1. ASSUME NEW len \in 1..MaxWrite, Write(len) PROVE IInv' /\ StreamStep
  BY <1>1, WriteStep
<1>2. CASE WriteFlush
  BY <1>2, WriteFlushStep
<1>3. CASE Transmit
  BY <1>3, TransmitStep
<1>4. CASE Complete \/ Abort \/ Close
  BY <1>4, EndStep
<1>5. CASE UNCHANGED vars
  <2>1. UNCHANGED <<open, buf, low, status, event, accepted, lost, io, size, sent,
                    wire, again, failures>>
    BY <1>5 DEF vars, driverVars
  <2> QED
    BY <2>1 DEF IInv, TypeOK, BufferIsUnsent, StatusInv, WireInv, Confirmed, Base,
                Stream!Latest, StreamStep, Stream!streamVars
<1> QED
  BY <1>1, <1>2, <1>3, <1>4, <1>5 DEF Next

-----------------------------------------------------------------------------
\* The invariant holds throughout.
THEOREM Invariance == Spec => []IInv
<1>1. Init => IInv
  BY InitHolds
<1>2. IInv /\ [Next]_vars => IInv'
  BY NextStep
<1> QED
  BY <1>1, <1>2, PTL DEF Spec

\* The buffer and every transmission stay within m_WriteMax.
THEOREM TypeCorrect == Spec => []TypeOK
<1>1. IInv => TypeOK
  BY DEF IInv
<1> QED
  BY <1>1, Invariance, PTL

\* The buffer holds exactly the accepted bytes not confirmed as sent.
THEOREM BufferCorrect == Spec => []BufferIsUnsent
<1>1. IInv => BufferIsUnsent
  BY DEF IInv
<1> QED
  BY <1>1, Invariance, PTL

\* Bytes never wait without a transmission or a signalled event, unless
\* WriteFile refused to start one.
THEOREM NeverStalls == Spec => []NoStall
<1>1. IInv => NoStall
  BY DEF IInv, StatusInv, NoStall
<1> QED
  BY <1>1, Invariance, PTL

\* The bytes of Write go out in order, none skipped, each once unless the
\* driver reports a failure.
THEOREM StreamCorrect == Spec => ImplementsByteStream
<1>1. Init => IInv /\ Stream!Init
  BY InitHolds
<1>2. IInv /\ [Next]_vars => [Stream!Next]_Stream!streamVars
  BY NextStep DEF StreamStep
<1> QED
  BY <1>1, <1>2, Invariance, PTL DEF Spec, ImplementsByteStream, Stream!Spec

-----------------------------------------------------------------------------
(* What ByteStream says of the bytes on the line, for the sender as a      *)
(* whole: no accepted byte is lost between the buffer and the line.        *)

OnLine(b)   == \E i \in 1..Len(wire) : wire[i] = b
InBuffer(b) == \E i \in 1..Len(buf) : buf[i] = b

\* No byte before the latest one is missing on the line, and without a
\* failure there are no others.
LineInv ==
  /\ \A b \in 1..Stream!Latest : OnLine(b)
  /\ failures = 0 => ~again /\ \A i \in 1..Len(wire) : wire[i] = i

\* Without a failure the latest byte is the number of those that went out.
LEMMA LatestIsCount ==
  ASSUME TypeOK, \A i \in 1..Len(wire) : wire[i] = i
  PROVE  Stream!Latest = Len(wire)
<1>1. CASE wire = <<>>
  BY <1>1 DEF Stream!Latest
<1>2. CASE wire # <<>>
  <2>1. Len(wire) \in 1..Len(wire)
    BY <1>2, EmptySeq DEF TypeOK
  <2> QED
    BY <1>2, <2>1 DEF Stream!Latest
<1> QED
  BY <1>1, <1>2

\* A byte that goes out next, or again, leaves no gap on the line.
LEMMA SendCovers ==
  ASSUME TypeOK, LineInv, Stream!Send,
         failures' \in Nat, failures' = 0 => failures = 0
  PROVE  LineInv'
<1>1. PICK b \in 1..accepted :
        /\ IF again THEN b <= Stream!Latest + 1 ELSE b = Stream!Latest + 1
        /\ wire' = Append(wire, b)
        /\ again' = FALSE
  BY DEF Stream!Send
<1>2. /\ b \in Nat /\ b <= Stream!Latest + 1 /\ wire \in Seq(Nat)
      /\ Len(wire) \in Nat /\ Stream!Latest \in Nat
  <2>1. wire \in Seq(Nat) /\ Stream!Latest \in Nat /\ accepted \in Nat
    BY LatestType, ConstantsAssumption DEF TypeOK
  <2> QED
    BY <1>1, <2>1, LenProperties
<1>3. /\ wire' \in Seq(Nat) /\ Len(wire') = Len(wire) + 1
      /\ wire'[Len(wire) + 1] = b
      /\ \A i \in 1..Len(wire) : wire'[i] = wire[i]
  BY <1>1, <1>2, AppendProperties
<1>4. Stream!Latest' = b
  <2>1. wire' # <<>> /\ wire'[Len(wire')] = b
    BY <1>1, <1>2, LastAppended
  <2> QED
    BY <2>1 DEF Stream!Latest
<1>5. ASSUME NEW c \in 1..b PROVE OnLine(c)'
  <2>1. CASE c = b
    <3>1. Len(wire) + 1 \in 1..Len(wire')
      BY <1>2, <1>3
    <3> QED
      BY <1>3, <2>1, <3>1 DEF OnLine
  <2>2. CASE c # b
    <3>1. c \in 1..Stream!Latest
      BY <1>2, <2>2
    <3>2. PICK i \in 1..Len(wire) : wire[i] = c
      BY <3>1 DEF LineInv, OnLine
    <3>3. i \in 1..Len(wire') /\ wire'[i] = c
      BY <1>2, <1>3, <3>2
    <3> QED
      BY <3>3 DEF OnLine
  <2> QED
    BY <2>1, <2>2
<1>6. ASSUME failures' = 0, NEW i \in 1..Len(wire') PROVE wire'[i] = i
  <2>1. ~again /\ \A j \in 1..Len(wire) : wire[j] = j
    BY <1>6 DEF LineInv
  <2>2. b = Len(wire) + 1
    BY <1>1, <2>1, LatestIsCount
  <2>3. CASE i \in 1..Len(wire)
    BY <1>3, <2>1, <2>3
  <2>4. CASE i = Len(wire) + 1
    BY <1>3, <2>2, <2>4
  <2> QED
    BY <1>2, <1>3, <2>3, <2>4
<1> QED
  BY <1>1, <1>4, <1>5, <1>6 DEF LineInv

\* A failure is counted, and only a failure makes the sender send again.
LEMMA FailuresCount ==
  ASSUME TypeOK, [Next]_vars
  PROVE  /\ failures' = 0 => failures = 0
         /\ failures' = 0 /\ again' => again
<1>0. failures \in Nat
  BY ConstantsAssumption DEF TypeOK
<1>1. ASSUME NEW len \in 1..MaxWrite, Write(len)
      PROVE  again' = again /\ (failures' = failures \/ failures' = failures + 1)
  <2>1. again' = again
    BY <1>1 DEF Write
  <2>2. failures' = failures \/ send_bytes
    BY <1>1 DEF Write
  <2> QED
    BY <2>1, <2>2 DEF send_bytes
<1>2. ASSUME WriteFlush
      PROVE  again' = again /\ (failures' = failures \/ failures' = failures + 1)
  <2>1. again' = again
    BY <1>2 DEF WriteFlush
  <2>2. failures' = failures \/ send_bytes
    BY <1>2 DEF WriteFlush
  <2> QED
    BY <2>1, <2>2 DEF send_bytes
<1>3. CASE Transmit \/ Complete \/ Abort \/ Close \/ UNCHANGED vars
  BY <1>0, <1>3 DEF Transmit, Complete, Abort, Close, vars, driverVars
<1> QED
  BY <1>0, <1>1, <1>2, <1>3 DEF Next

\* What is on the line follows from the steps of ByteStream.
LEMMA LineStep == IInv /\ LineInv /\ [Next]_vars => LineInv'
<1> SUFFICES ASSUME IInv, LineInv, [Next]_vars PROVE LineInv'
  OBVIOUS
<1>1. IInv' /\ StreamStep /\ TypeOK /\ TypeOK'
  BY NextStep DEF IInv
<1>2. /\ failures' \in Nat
      /\ failures' = 0 => failures = 0
      /\ failures' = 0 /\ again' => again
  BY <1>1, FailuresCount, ConstantsAssumption DEF TypeOK
<1>3. CASE Stream!Send
  BY <1>1, <1>2, <1>3, SendCovers
<1>4. CASE UNCHANGED wire
  BY <1>2, <1>4 DEF LineInv, OnLine, Stream!Latest
<1> QED
  BY <1>1, <1>3, <1>4 DEF StreamStep, Stream!Next, Stream!Accept, Stream!Fail, Stream!streamVars

\* An accepted byte is on the line or in the buffer.
NothingLost == \A b \in 1..accepted : OnLine(b) \/ InBuffer(b)

\* Without a failure of the driver the line carries the accepted bytes, each
\* once, in the order in which Write took them.
OnceInOrder == failures = 0 => \A i \in 1..Len(wire) : wire[i] = i

\* A byte that did not go out yet will be looked at again: a transmission runs,
\* or its end is signalled, or WriteFile refused.
UnsentMoves ==
  \A b \in 1..accepted : OnLine(b) \/ io = "pending" \/ event \/ io = "refused"

LEMMA BufferOrLine == IInv /\ LineInv => NothingLost
<1> SUFFICES ASSUME IInv, LineInv, NEW b \in 1..accepted, ~OnLine(b)
             PROVE  InBuffer(b)
  BY DEF NothingLost
<1>1. /\ accepted \in Nat /\ buf \in Seq(Nat) /\ Len(buf) \in Nat /\ sent \in Nat
      /\ Stream!Latest \in Nat /\ Len(buf) <= accepted
  BY LatestType, LenProperties, ConstantsAssumption DEF IInv, TypeOK, BufferIsUnsent
<1>2. Base <= Stream!Latest
  BY <1>1 DEF IInv, WireInv, Confirmed, Base
<1>3. ~(b <= Stream!Latest)
  BY <1>1 DEF LineInv
<1>4. b - Base \in 1..Len(buf) /\ b \in Nat
  BY <1>1, <1>2, <1>3 DEF Base
<1>5. buf[b - Base] = accepted - Len(buf) + (b - Base)
  BY <1>4 DEF IInv, BufferIsUnsent
<1>6. buf[b - Base] = b
  BY <1>1, <1>4, <1>5 DEF Base
<1> QED
  BY <1>4, <1>6 DEF InBuffer

\* No byte that Write took is lost, however transmissions end: it is on the
\* line or in the buffer, where the next transmission begins; and as long as
\* the driver reports no failure, the line carries the bytes once, in order.
THEOREM LineCorrect == Spec => [](NothingLost /\ OnceInOrder /\ UnsentMoves)
<1>1. Init => LineInv
  <2> SUFFICES ASSUME Init PROVE LineInv
    OBVIOUS
  <2>1. wire = <<>> /\ Len(wire) = 0 /\ ~again
    BY EmptySeq DEF Init
  <2>2. Stream!Latest = 0
    BY <2>1 DEF Stream!Latest
  <2> QED
    BY <2>1, <2>2 DEF LineInv
<1>2. IInv /\ LineInv /\ [Next]_vars => LineInv'
  BY LineStep
<1>3. IInv /\ LineInv => NothingLost /\ OnceInOrder /\ UnsentMoves
  <2> SUFFICES ASSUME IInv, LineInv PROVE NothingLost /\ OnceInOrder /\ UnsentMoves
    OBVIOUS
  <2>1. NothingLost
    BY BufferOrLine
  <2>2. OnceInOrder
    BY DEF LineInv, OnceInOrder
  <2>3. ASSUME NEW b \in 1..accepted, ~OnLine(b)
        PROVE  io = "pending" \/ event \/ io = "refused"
    <3>1. PICK i \in 1..Len(buf) : buf[i] = b
      BY <2>1, <2>3 DEF NothingLost, InBuffer
    <3>2. buf # <<>>
      BY <3>1, EmptySeq DEF IInv, TypeOK
    <3> QED
      BY <3>2 DEF IInv, StatusInv
  <2> QED
    BY <2>1, <2>2, <2>3 DEF UnsentMoves
<1> QED
  BY <1>1, <1>2, <1>3, Invariance, PTL DEF Spec
=============================================================================
