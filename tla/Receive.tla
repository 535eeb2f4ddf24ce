------------------------------ MODULE Receive -------------------------------
(***************************************************************************)
(* The main loop of the program, WaitingMessages (gdopt.cpp), and the      *)
(* receiving side of Comm (comm.cpp).  The loop waits for one of four      *)
(* events or for a message of the window and calls what serves it.  Bytes  *)
(* go from the driver's queue through BufferIO to the parser.              *)
(*                                                                         *)
(* The serial driver runs beside the loop.  It records what happens on the *)
(* line and tells it to one WaitCommEvent, by the event in m_Event; it is  *)
(* external and modelled as the code relies on it.  So is the order in     *)
(* which MsgWaitForMultipleObjects looks at the events.                    *)
(*                                                                         *)
(* WriteFlush is in CommWrite, ExecuteModule in ModuleBase, the parser in  *)
(* Parser; here they only are served.  COM_file is left out.               *)
(***************************************************************************)
EXTENDS Naturals, Sequences

CONSTANTS OneShot,   \* MAX_READ_ONE_SHOT (1024)
          QueMax,    \* size of the driver's queue, COM_rxsize (8192)
          MaxBytes,  \* bound: bytes that arrive
          MaxFail,   \* bound: line errors and calls the driver refuses
          MaxInput   \* bound: key presses, resizes, and events of modules
                     \* and of transmissions

ASSUME ConstantsAssumption ==
  /\ OneShot \in Nat \ {0} /\ QueMax \in Nat
  /\ MaxBytes \in Nat /\ MaxFail \in Nat /\ MaxInput \in Nat

VARIABLES que,       \* the driver's queue; bytes are numbered as they arrive
          arrived,   \* bytes arrived so far
          error,     \* an error of the line that ClearCommError will report
          occurred,  \* a byte or an error since the last wait was completed
          waiting,   \* a WaitCommEvent is pending
          readEvent, \* m_Event.hEvent, manual-reset
          pc,        \* where the loop is
          len,       \* how many bytes Read asks for
          left,      \* the last Read returned without all it could have read
          BufferIO,  \* BufferIO[0 .. BufferIOSize-1]
          complete,  \* bUpdateComplete
          parsed,    \* the bytes the parser got
          screen,    \* m_DirtyEvent, manual-reset
          ready,     \* m_bInit: the console has its buffers
          module,    \* the event of the modules
          write,     \* the event of a finished transmission
          refused,   \* Select gave up and receiving has stopped
          failures,  \* line errors and refused calls so far
          inputs     \* key presses and other events so far

driverVars == <<que, arrived, error, occurred, waiting, readEvent, failures>>
loopVars == <<pc, len, left, BufferIO, complete, parsed, screen, ready,
              module, write, refused, inputs>>
vars == <<driverVars, loopVars>>

\* Bytes may arrive before the first Select, while the modules start.  The
\* transmission event is created signalled.
Init ==
  /\ que = <<>> /\ arrived = 0 /\ error = FALSE /\ occurred = FALSE
  /\ waiting = FALSE /\ readEvent = FALSE /\ failures = 0
  /\ pc = "select" /\ len = 0 /\ left = FALSE
  /\ BufferIO = <<>> /\ complete = TRUE /\ parsed = <<>>
  /\ screen = TRUE /\ ready = TRUE /\ module = FALSE /\ write = TRUE
  /\ refused = FALSE /\ inputs = 0

-----------------------------------------------------------------------------
(* The driver.                                                             *)

\* Something happened: a pending wait is completed, else it is recorded.
Report ==
  IF waiting THEN waiting' = FALSE /\ readEvent' = TRUE /\ UNCHANGED occurred
             ELSE occurred' = TRUE /\ UNCHANGED <<waiting, readEvent>>

Arrive ==
  /\ arrived < MaxBytes /\ Len(que) < QueMax
  /\ arrived' = arrived + 1 /\ que' = Append(que, arrived')
  /\ Report
  /\ UNCHANGED <<error, failures, loopVars>>

LineError ==
  /\ failures < MaxFail /\ failures' = failures + 1
  /\ error' = TRUE
  /\ Report
  /\ UNCHANGED <<que, arrived, loopVars>>

-----------------------------------------------------------------------------
(* The loop.  It waits at "wait", with the events in the order of their    *)
(* numbers: modules, screen, read, write, and messages last.               *)

ServesModule == pc = "wait" /\ module
ServesScreen == pc = "wait" /\ ~module /\ screen
ServesWrite  == pc = "wait" /\ ~module /\ ~screen /\ ~readEvent /\ write

\* Mutated: reading comes before the screen.
ServesReadFirst == pc = "wait" /\ ~module /\ readEvent

ServesRead == pc = "wait" /\ ~module /\ ~screen /\ readEvent

ExecuteModule ==
  /\ ServesModule
  /\ module' = FALSE /\ pc' = "messages"
  /\ UNCHANGED <<driverVars, len, left, BufferIO, complete, parsed, screen,
                 ready, write, refused, inputs>>

\* Mutated: Select is called after this event, too.
WriteFlushSelect ==
  /\ ServesWrite
  /\ write' = FALSE /\ pc' = "select"
  /\ UNCHANGED <<driverVars, len, left, BufferIO, complete, parsed, screen,
                 ready, module, refused, inputs>>

WriteFlush ==
  /\ ServesWrite
  /\ write' = FALSE /\ pc' = "messages"
  /\ UNCHANGED <<driverVars, len, left, BufferIO, complete, parsed, screen,
                 ready, module, refused, inputs>>

\* Mutated: BufferIOSize is not reset.
ParseAgain(bytes) ==
  IF bytes = <<>> THEN UNCHANGED <<parsed, screen>> /\ BufferIO' = bytes
  ELSE parsed' = parsed \o bytes /\ screen' = TRUE /\ BufferIO' = bytes

\* CPP_Parser and Flush, which marks the screen.
Parse(bytes) ==
  IF bytes = <<>> THEN UNCHANGED <<parsed, screen>> /\ BufferIO' = bytes
  ELSE parsed' = parsed \o bytes /\ screen' = TRUE /\ BufferIO' = <<>>

\* Mutated: the event is not reset.
UpdateKeeps ==
  /\ ServesScreen
  /\ pc' = "messages" /\ complete' = ready
  /\ IF ready /\ BufferIO # <<>> THEN Parse(BufferIO)
     ELSE UNCHANGED <<BufferIO, parsed, screen>>
  /\ UNCHANGED <<driverVars, len, left, ready, module, write, refused,
                 inputs>>

\* Update returns 1 when it drew the screen, and 0, with its event still
\* signalled, when the console has no buffers.
Update ==
  /\ ServesScreen
  /\ pc' = "messages" /\ complete' = ready
  /\ IF ready
     THEN IF BufferIO = <<>>
          THEN screen' = FALSE /\ UNCHANGED <<BufferIO, parsed>>
          ELSE Parse(BufferIO)
     ELSE UNCHANGED <<BufferIO, parsed, screen>>
  /\ UNCHANGED <<driverVars, len, left, ready, module, write, refused,
                 inputs>>

\* Read returned no bytes: those in BufferIO are parsed if the screen is
\* complete.
NothingRead ==
  /\ pc' = "select" /\ left' = (que # <<>>)
  /\ IF complete THEN Parse(BufferIO)
     ELSE UNCHANGED <<BufferIO, parsed, screen>>

Lesser(a, b) == IF a < b THEN a ELSE b

\* Read asks the driver, which forgets the error it reports; the call fails,
\* there is an error or no byte, or there are bytes.
ClearCommError ==
  /\ ServesRead
  /\ \/ /\ failures < MaxFail /\ failures' = failures + 1
        /\ NothingRead /\ UNCHANGED <<len, error>>
     \/ /\ error \/ que = <<>>
        /\ error' = FALSE /\ NothingRead /\ UNCHANGED <<len, failures>>
     \/ /\ ~error /\ que # <<>> /\ pc' = "fetch"
        /\ len' = Lesser(OneShot, Len(que)) /\ left' = (len' < Len(que))
        /\ UNCHANGED <<BufferIO, parsed, screen, error, failures>>
  /\ UNCHANGED <<que, arrived, occurred, waiting, readEvent, complete, ready,
                 module, write, refused, inputs>>

\* What Read brought goes to BufferIO, which is parsed before if that would
\* fill it, and afterwards if the screen is complete.
Buffered(bytes) ==
  IF Len(BufferIO) + Len(bytes) >= 3 * OneShot
  THEN IF complete
       THEN Parse(BufferIO \o bytes)
       ELSE parsed' = parsed \o BufferIO /\ screen' = TRUE /\ BufferIO' = bytes
  ELSE IF complete
       THEN Parse(BufferIO \o bytes)
       ELSE BufferIO' = BufferIO \o bytes /\ UNCHANGED <<parsed, screen>>

ReadFile ==
  /\ pc = "fetch"
  /\ \/ /\ que' = SubSeq(que, len + 1, Len(que))
        /\ Buffered(SubSeq(que, 1, len))
        /\ pc' = "select" /\ UNCHANGED <<left, error, failures>>
     \/ /\ failures < MaxFail /\ failures' = failures + 1
        /\ error' = FALSE /\ NothingRead /\ UNCHANGED que
  /\ UNCHANGED <<arrived, occurred, waiting, readEvent, len, complete,
                 ready, module, write, refused, inputs>>

\* Mutated: the mask is set again, which forgets what occurred.
SelectForgetting ==
  /\ pc = "select" /\ pc' = "messages"
  /\ waiting' = TRUE /\ readEvent' = FALSE /\ occurred' = FALSE
  /\ UNCHANGED <<error, failures, refused>>
  /\ UNCHANGED <<que, arrived, len, left, BufferIO, complete, parsed,
                 screen, ready, module, write, inputs>>

\* WaitCommEvent is completed at once by what occurred since the last one,
\* else it is pending.  If the driver refuses it ten times, before or after
\* it resets the event, there is none.  Of an error it tells at once it is
\* asked at once, else Read will ask.
Select ==
  /\ pc = "select" /\ pc' = "messages"
  /\ \/ /\ occurred /\ occurred' = FALSE /\ readEvent' = TRUE
        /\ error' \in {FALSE, error}
        /\ UNCHANGED <<waiting, failures, refused>>
     \/ /\ ~occurred /\ waiting' = TRUE /\ readEvent' = FALSE
        /\ UNCHANGED <<occurred, error, failures, refused>>
     \/ /\ failures < MaxFail /\ failures' = failures + 1
        /\ readEvent' \in {FALSE, readEvent} /\ refused' = ~readEvent'
        /\ UNCHANGED <<occurred, error, waiting>>
  /\ UNCHANGED <<que, arrived, len, left, BufferIO, complete, parsed,
                 screen, ready, module, write, inputs>>

-----------------------------------------------------------------------------
(* Messages of the window are dispatched after each event.                 *)

\* A key may change the screen; another window message changes nothing here.
Key ==
  /\ inputs < MaxInput /\ inputs' = inputs + 1
  /\ screen' \in {screen, TRUE}
  /\ UNCHANGED <<pc, ready>>

\* The reset key prints a message and calls Update until it has drawn it.
ResetKey ==
  /\ inputs < MaxInput /\ inputs' = inputs + 1
  /\ screen' = TRUE /\ UNCHANGED ready
  /\ pc' = IF ready THEN pc ELSE "hung"

\* ChangeSize gives the buffers up and makes new ones, if it can; then the
\* screen is drawn anew.
Resize ==
  /\ inputs < MaxInput /\ inputs' = inputs + 1
  /\ ready' \in BOOLEAN
  /\ screen' = (screen \/ ready')
  /\ UNCHANGED pc

Quit == pc' = "stopped" /\ UNCHANGED <<inputs, screen, ready>>

NoMessage == pc' = "wait" /\ UNCHANGED <<inputs, screen, ready>>

Messages ==
  /\ pc = "messages"
  /\ Key \/ ResetKey \/ Resize \/ Quit \/ NoMessage
  /\ UNCHANGED <<driverVars, len, left, BufferIO, complete, parsed, module,
                 write, refused>>

\* A message ends the wait when no event does.
MessageArrives ==
  /\ pc = "wait" /\ ~module /\ ~screen /\ ~readEvent /\ ~write
  /\ pc' = "messages"
  /\ UNCHANGED <<driverVars, len, left, BufferIO, complete, parsed, screen,
                 ready, module, write, refused, inputs>>

\* A module has output, or a transmission has ended.
EventOccurs ==
  /\ inputs < MaxInput /\ inputs' = inputs + 1
  /\ \/ module' = TRUE /\ UNCHANGED write
     \/ write' = TRUE /\ UNCHANGED module
  /\ UNCHANGED <<driverVars, pc, len, left, BufferIO, complete, parsed,
                 screen, ready, refused>>

Serve == ExecuteModule \/ Update \/ ClearCommError \/ WriteFlush
Step == Serve \/ ReadFile \/ Select \/ Messages

Stopped == pc \in {"stopped", "hung"} /\ UNCHANGED vars

Next == Step \/ Arrive \/ LineError \/ MessageArrives \/ EventOccurs \/ Stopped

\* The main thread runs; nothing is assumed of the line and of the user.
Spec == Init /\ [][Next]_vars /\ WF_vars(Step)

-----------------------------------------------------------------------------
Ranges ==
  /\ que \in Seq(Nat) /\ Len(que) <= QueMax /\ arrived \in Nat
  /\ BufferIO \in Seq(Nat) /\ Len(BufferIO) < 3 * OneShot
  /\ parsed \in Seq(Nat) /\ len \in 0..OneShot
  /\ failures \in Nat /\ inputs \in Nat
  /\ pc \in {"wait", "fetch", "select", "messages", "stopped", "hung"}

Flags ==
  /\ error \in BOOLEAN /\ occurred \in BOOLEAN /\ waiting \in BOOLEAN
  /\ readEvent \in BOOLEAN /\ left \in BOOLEAN /\ complete \in BOOLEAN
  /\ screen \in BOOLEAN /\ ready \in BOOLEAN /\ module \in BOOLEAN
  /\ write \in BOOLEAN /\ refused \in BOOLEAN

\* BufferIO is never full, and Read asks for no more than its caller's buffer
\* holds.
TypeOK == Ranges /\ Flags

\* The parser gets the bytes of the line in order, each once: what it got,
\* what is in BufferIO and what is in the queue are all that arrived.
InOrder ==
  parsed \o BufferIO \o que = [i \in 1..arrived |-> i]

\* Bytes are read only when the screen is up to date, since its event comes
\* first; so they are parsed at once and none is kept in BufferIO.
ReadWhenDrawn ==
  /\ BufferIO = <<>>
  /\ pc = "fetch" => complete

\* The loop listens: a wait is pending or its event signalled, or Select is
\* about to be called, and then no wait is pending that it would repeat.
Listening ==
  /\ waiting \/ readEvent \/ pc \in {"fetch", "select", "stopped"} \/ refused
  /\ waiting => ~readEvent /\ ~occurred /\ pc \notin {"fetch", "select"}

\* No byte that arrives between Read and Select is forgotten: when the loop
\* waits with bytes in the queue, the last Read left them there, because
\* they were too many, or for an error.
NoStrand == waiting /\ que # <<>> => left

\* Bytes reach the parser, but for those that Read left, while the console
\* has no buffers, after Select gave up, or when the program ends.
BytesReachParser ==
  que # <<>> ~> (que = <<>> \/ left \/ ~ready \/ refused \/ pc = "stopped")

\* The end of a transmission is served, behind everything else, unless the
\* console has no buffers: its event then keeps the loop busy.
WriteServed == write ~> (~write \/ ~ready \/ pc = "stopped")
=============================================================================
