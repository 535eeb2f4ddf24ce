----------------------------- MODULE CommWrite ------------------------------
(***************************************************************************)
(* The sending side of Comm (comm.cpp): one buffer of WriteMax bytes, one  *)
(* overlapped WriteFile at a time.  Write appends to the buffer and, if no *)
(* transmission runs, starts one; the event of the OVERLAPPED structure    *)
(* makes the main loop call WriteFlush when the transmission is over,      *)
(* which drops what went out and starts the next one.                      *)
(*                                                                         *)
(* All of Comm runs in the main thread; what runs beside it is the serial  *)
(* driver, which takes the bytes of a transmission out of m_WriteBuffer    *)
(* one by one while the main thread appends to it.  The driver is external *)
(* and modelled as the code relies on it.                                  *)
(***************************************************************************)
EXTENDS Naturals, Sequences

CONSTANTS WriteMax,  \* size of m_WriteBuffer (10000)
          MaxWrite,  \* bound: bytes of one Write call
          MaxStream, \* bound: bytes accepted in all
          MaxFail    \* bound: operations the driver fails or refuses

ASSUME ConstantsAssumption ==
  WriteMax \in Nat \ {0} /\ MaxWrite \in Nat /\ MaxStream \in Nat /\ MaxFail \in Nat

VARIABLES open,     \* m_fOpen
          buf,      \* m_WriteBuffer[0 .. m_WriteHigh-1]
          low,      \* m_WriteLow
          status,   \* m_WriteStatus: a transmission was started
          event,    \* m_wOver.hEvent, manual-reset
          io,       \* the transmission: "pending", "done", "failed", or
                    \* "refused" by WriteFile itself
          size,     \* bytes asked of it
          sent,     \* bytes of it that went out
          accepted, \* bytes Write took, in all
          lost,     \* Write left out bytes it was given
          wire,     \* what went out on the line
          again,    \* a transmission failed and nothing went out since
          failures  \* operations failed or refused so far

driverVars == <<io, size, sent, wire, again, failures>>
vars == <<open, buf, low, status, event, accepted, lost, driverVars>>

\* Open: the event starts signalled, over an OVERLAPPED structure of zeros
\* that reads as a finished transmission of no bytes.
Init ==
  /\ open = TRUE /\ buf = <<>> /\ low = 0 /\ status = FALSE /\ event = TRUE
  /\ io = "done" /\ size = 0 /\ sent = 0 /\ accepted = 0 /\ lost = FALSE
  /\ wire = <<>> /\ again = FALSE /\ failures = 0

-----------------------------------------------------------------------------
\* send_bytes: WriteFile on buf from position low resets the event and
\* starts, or refuses.  A refusal happens before or after the event is reset.
send_bytes ==
  /\ status' = TRUE
  /\ sent' = 0
  /\ \/ /\ io' = "pending" /\ size' = Len(buf') - low'
        /\ event' = FALSE
        /\ UNCHANGED failures
     \/ /\ failures < MaxFail /\ failures' = failures + 1
        /\ io' = "refused" /\ size' = 0
        /\ event' \in {FALSE, event}

Lesser(a, b) == IF a < b THEN a ELSE b

\* add_bytes stores a byte while m_WriteHigh < m_WriteMax.  The bytes carry
\* their rank among all accepted bytes.
AddBytes(n) == buf \o [i \in 1..n |-> accepted + i]

\* Mutated: every Write starts a transmission.
WriteAlways(len) ==
  LET n == Lesser(len, WriteMax - Len(buf)) IN
  /\ open /\ accepted + len <= MaxStream
  /\ buf' = AddBytes(n)
  /\ accepted' = accepted + n /\ lost' = (lost \/ n < len)
  /\ UNCHANGED <<open, low, wire, again>>
  /\ send_bytes

Write(len) ==
  LET n == Lesser(len, WriteMax - Len(buf)) IN
  /\ open /\ accepted + len <= MaxStream
  /\ buf' = AddBytes(n)
  /\ accepted' = accepted + n /\ lost' = (lost \/ n < len)
  /\ UNCHANGED <<open, low, wire, again>>
  /\ IF status THEN UNCHANGED <<status, event, io, size, sent, failures>>
               ELSE send_bytes

\* Mutated: what was asked for is taken as sent.
CompletedAsked == IF io = "done" THEN size ELSE 0

\* GetOverlappedResult gives the bytes of a finished transmission, none of a
\* failed one.
Completed == IF io = "done" THEN sent ELSE 0

\* Mutated: the move to the front loses the end of the buffer.
WriteFlushFront ==
  LET done == low + Completed IN
  /\ open /\ event
  /\ buf' = SubSeq(buf, 1, Len(buf) - done)
  /\ low' = 0
  /\ UNCHANGED <<open, accepted, lost, wire, again>>
  /\ IF Len(buf) > done
     THEN send_bytes
     ELSE /\ status' = FALSE /\ event' = FALSE
          /\ UNCHANGED <<io, size, sent, failures>>

\* Mutated: m_WriteStatus stays set when nothing is left to send.
WriteFlushBusy ==
  LET done == low + Completed IN
  /\ open /\ event
  /\ buf' = SubSeq(buf, done + 1, Len(buf))
  /\ low' = 0
  /\ UNCHANGED <<open, accepted, lost, wire, again>>
  /\ IF Len(buf) > done
     THEN send_bytes
     ELSE event' = FALSE /\ UNCHANGED <<status, io, size, sent, failures>>

\* What is left moves to the front of the buffer and is sent next.
WriteFlush ==
  LET done == low + Completed IN
  /\ open /\ event
  /\ buf' = SubSeq(buf, done + 1, Len(buf))
  /\ low' = 0
  /\ UNCHANGED <<open, accepted, lost, wire, again>>
  /\ IF Len(buf) > done
     THEN send_bytes
     ELSE /\ status' = FALSE /\ event' = FALSE
          /\ UNCHANGED <<io, size, sent, failures>>

Close ==
  /\ open /\ open' = FALSE
  /\ UNCHANGED <<buf, low, status, event, accepted, lost, driverVars>>

-----------------------------------------------------------------------------
(* The driver.                                                             *)

Transmit ==
  /\ open /\ io = "pending" /\ sent < size
  /\ wire' = Append(wire, buf[low + sent + 1])
  /\ sent' = sent + 1 /\ again' = FALSE
  /\ UNCHANGED <<open, buf, low, status, event, io, size, accepted, lost,
                 failures>>

\* All bytes went out, or WriteTotalTimeoutConstant passed before.
Complete ==
  /\ open /\ io = "pending"
  /\ io' = "done" /\ event' = TRUE
  /\ UNCHANGED <<open, buf, low, status, size, sent, accepted, lost, wire,
                 again, failures>>

Abort ==
  /\ open /\ io = "pending" /\ failures < MaxFail
  /\ io' = "failed" /\ event' = TRUE /\ again' = TRUE
  /\ failures' = failures + 1
  /\ UNCHANGED <<open, buf, low, status, size, sent, accepted, lost, wire>>

-----------------------------------------------------------------------------
Next == \/ \E len \in 1..MaxWrite : Write(len)
        \/ WriteFlush \/ Close \/ Transmit \/ Complete \/ Abort

(***************************************************************************)
(* The main loop calls WriteFlush while the event is set, and a pending    *)
(* transmission ends.  It may end by the timeout with nothing sent, but    *)
(* not for ever: the other side does not hold the line for good.           *)
(***************************************************************************)
Fairness == WF_vars(WriteFlush) /\ WF_vars(Complete) /\ SF_vars(Transmit)

Spec == Init /\ [][Next]_vars /\ Fairness

-----------------------------------------------------------------------------
\* The buffer and every transmission stay within WriteMax bytes.
TypeOK ==
  /\ open \in BOOLEAN /\ status \in BOOLEAN /\ event \in BOOLEAN
  /\ again \in BOOLEAN
  /\ io \in {"pending", "done", "failed", "refused"}
  /\ buf \in Seq(Nat) /\ wire \in Seq(Nat)
  /\ Len(buf) <= WriteMax
  /\ low \in Nat /\ size \in Nat /\ sent \in Nat
  /\ accepted \in 0..MaxStream /\ lost \in BOOLEAN
  /\ failures \in 0..MaxFail

(***************************************************************************)
(* The buffer holds the accepted bytes that are not confirmed as sent, all *)
(* of them, in order, whatever Write appended while the driver was reading *)
(* it; a transmission that runs covers a first part of it.                 *)
(***************************************************************************)
BufferIsUnsent ==
  /\ low = 0
  /\ Len(buf) <= accepted
  /\ \A i \in 1..Len(buf) : buf[i] = accepted - Len(buf) + i
  /\ io = "pending" => status /\ sent <= size /\ size <= Len(buf)

(***************************************************************************)
(* While bytes wait, a transmission runs, or its end is signalled to the   *)
(* main loop, so that WriteFlush will be called.  The exception is a       *)
(* WriteFile that refuses after it reset the event: m_WriteStatus is set   *)
(* although nothing was started, and no later Write starts anything.       *)
(***************************************************************************)
NoStall == buf # <<>> => io = "pending" \/ event \/ io = "refused"

\* The bytes of Write go out in order, none skipped, and each once unless
\* the driver reports a failure.
Stream == INSTANCE ByteStream
ImplementsByteStream == Stream!Spec

\* Every byte accepted goes out, unless the port is closed before, or
\* WriteFile refused to start a transmission.
EveryByteSent ==
  \A n \in 1..MaxStream :
    accepted >= n ~> \/ \E i \in 1..Len(wire) : wire[i] = n
                     \/ ~open \/ (io = "refused" /\ ~event)

\* What the comment in Comm::Write says of a full buffer, "FIXED add flush if
\* full": Write makes room, and no byte it is given is left out.
WriteKeepsAll == ~lost
=============================================================================
