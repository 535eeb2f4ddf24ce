------------------------------ MODULE Messages ------------------------------
(***************************************************************************)
(* CMessages (messages.cpp), the banners the modules' messages are shown   *)
(* in: a list of small windows over the console, and a thread that takes   *)
(* out, once a second, those whose time is over.  The main thread puts     *)
(* banners in, clears them, and ends the thread when the program ends.     *)
(* Both only try the lock, m_BannerShared.                                 *)
(*                                                                         *)
(* The windows belong to the main thread.  When the other thread closes    *)
(* one, SendMessage makes it wait until the main thread looks at its       *)
(* messages; its DestroyWindow has no effect.                              *)
(*                                                                         *)
(* Banners are numbered as they are made, which is their order in the      *)
(* list, so the list is the set of their numbers; 0 is its head.  Which    *)
(* banners a new one overlaps is left open.  The limit on their number is  *)
(* left out: the program gives none.                                       *)
(***************************************************************************)
EXTENDS Naturals

CONSTANTS MaxLines,   \* bound: lines of a message
          MaxInserts  \* bound: messages

ASSUME ConstantsAssumption == MaxLines \in Nat /\ MaxInserts \in Nat

VARIABLES list,     \* m_MessageList
          made,     \* banners made so far
          hWnd,     \* banners whose window could be made
          windows,  \* windows on the screen
          expired,  \* banners whose ttl is over
          shared,   \* m_BannerShared is set: nobody holds the lock
          main,     \* where the main thread is
          lines,    \* lines of the message it still has to put in
          inserts,  \* messages so far
          thread,   \* where the thread of the banners is
          ptr,      \* the banner Poll has come to
          closing,  \* the banner Poll closes
          hExit     \* m_hExit, manual-reset

bannerVars == <<list, made, hWnd, windows>>
mainVars   == <<main, lines, inserts, hExit>>
threadVars == <<thread, ptr, closing>>
vars == <<bannerVars, expired, shared, mainVars, threadVars>>

Init ==
  /\ list = {} /\ made = 0 /\ hWnd = {} /\ windows = {} /\ expired = {}
  /\ shared = TRUE
  /\ main = "loop" /\ lines = 0 /\ inserts = 0 /\ hExit = FALSE
  /\ thread = "wait" /\ ptr = 0 /\ closing = 0

-----------------------------------------------------------------------------
(* The main thread.                                                        *)

\* Mutated: the lock is not looked at.
InsertUnlocked(n) ==
  /\ main = "loop" /\ inserts < MaxInserts /\ inserts' = inserts + 1
  /\ main' = "insert" /\ lines' = n /\ shared' = FALSE
  /\ UNCHANGED <<bannerVars, expired, threadVars, hExit>>

\* A message is lost when Poll holds the lock.  What a module says when a
\* command begins or ends is no line.
Insert(n) ==
  /\ main = "loop" /\ inserts < MaxInserts /\ inserts' = inserts + 1
  /\ IF shared THEN main' = "insert" /\ lines' = n /\ shared' = FALSE
               ELSE UNCHANGED <<main, lines, shared>>
  /\ UNCHANGED <<bannerVars, expired, threadVars, hExit>>

\* Every line is a banner of its own; its window replaces those it overlaps.
\* Without a window it is in the list nevertheless.
InsertLine ==
  /\ main = "insert" /\ lines > 0 /\ lines' = lines - 1
  /\ made' = made + 1
  /\ \/ \E overlapped \in SUBSET list :
          /\ list' = (list \ overlapped) \cup {made'}
          /\ windows' = (windows \ overlapped) \cup {made'}
          /\ hWnd' = hWnd \cup {made'}
     \/ list' = list \cup {made'} /\ UNCHANGED <<windows, hWnd>>
  /\ UNCHANGED <<expired, shared, main, inserts, threadVars, hExit>>

InsertEnd ==
  /\ main = "insert" /\ lines = 0
  /\ main' = "loop" /\ shared' = TRUE
  /\ UNCHANGED <<bannerVars, expired, lines, inserts, threadVars, hExit>>

\* Mutated: the windows stay.
ClearListOnly ==
  IF shared THEN list' = {} /\ UNCHANGED windows
            ELSE UNCHANGED <<list, windows>>

Clear ==
  IF shared THEN list' = {} /\ windows' = windows \ list
            ELSE UNCHANGED <<list, windows>>

\* Four keys, or one of its own, clear the banners.
KeyClear ==
  /\ main = "loop" /\ Clear
  /\ UNCHANGED <<made, hWnd, expired, shared, mainVars, threadVars>>

\* The main thread looks at its messages, and MyFunc closes the window.
MyFunc ==
  /\ main = "loop" /\ thread = "sending"
  /\ windows' = windows \ {closing}
  /\ thread' = "poll" /\ closing' = 0
  /\ UNCHANGED <<list, made, hWnd, expired, shared, mainVars, ptr>>

\* The loop ends, and the console, the line and the modules are closed.
Quit ==
  /\ main = "loop" /\ main' = "closing"
  /\ UNCHANGED <<bannerVars, expired, shared, lines, inserts, hExit,
                 threadVars>>

\* Mutated: the thread is not told to end.
DestructorWaits ==
  /\ main = "closing" /\ main' = "join"
  /\ UNCHANGED <<bannerVars, expired, shared, lines, inserts, threadVars,
                 hExit>>

\* The destructor tells the thread to end, and waits for it.
Destructor ==
  /\ main = "closing" /\ main' = "join" /\ hExit' = TRUE
  /\ UNCHANGED <<bannerVars, expired, shared, lines, inserts, threadVars>>

Joined ==
  /\ main = "join" /\ thread = "ended"
  /\ main' = "done" /\ Clear
  /\ UNCHANGED <<made, hWnd, expired, shared, lines, inserts, hExit,
                 threadVars>>

-----------------------------------------------------------------------------
(* The thread of the banners.                                              *)

\* The least number beyond b, or the head.
Following(b) ==
  IF \E c \in list : c > b
  THEN CHOOSE c \in list : c > b /\ \A d \in list : d > b => c <= d
  ELSE 0

Poll ==
  /\ thread = "wait" /\ ~hExit /\ shared
  /\ thread' = "poll" /\ shared' = FALSE /\ ptr' = Following(0)
  /\ UNCHANGED <<bannerVars, expired, mainVars, closing>>

\* Mutated: the first banner that may stay ends it.
PollKeepEnds ==
  /\ thread = "poll" /\ ptr # 0 /\ ptr \notin expired
  /\ ptr' = 0
  /\ UNCHANGED <<bannerVars, expired, shared, mainVars, thread, closing>>

PollKeep ==
  /\ thread = "poll" /\ ptr # 0 /\ ptr \notin expired
  /\ ptr' = Following(ptr)
  /\ UNCHANGED <<bannerVars, expired, shared, mainVars, thread, closing>>

\* A banner is out of the list before its window is closed.
PollRemove ==
  /\ thread = "poll" /\ ptr # 0 /\ ptr \in expired
  /\ list' = list \ {ptr} /\ ptr' = Following(ptr)
  /\ IF ptr \in hWnd THEN thread' = "sending" /\ closing' = ptr
                     ELSE UNCHANGED <<thread, closing>>
  /\ UNCHANGED <<made, hWnd, windows, expired, shared, mainVars>>

PollEnd ==
  /\ thread = "poll" /\ ptr = 0
  /\ thread' = "wait" /\ shared' = TRUE
  /\ UNCHANGED <<bannerVars, expired, mainVars, ptr, closing>>

ThreadProc ==
  /\ thread = "wait" /\ hExit
  /\ thread' = "ended"
  /\ UNCHANGED <<bannerVars, expired, shared, mainVars, ptr, closing>>

\* Time passes.
Expire ==
  \E b \in list :
    /\ expired' = expired \cup {b}
    /\ UNCHANGED <<bannerVars, shared, mainVars, threadVars>>

\* The end, or the main thread and Poll wait for each other.
Stopped ==
  /\ main = "done" \/ (main = "join" /\ thread = "sending")
  /\ UNCHANGED vars

InsertStep == InsertLine \/ InsertEnd
PollStep == PollKeep \/ PollRemove \/ PollEnd \/ ThreadProc

Next == \/ \E n \in 0..MaxLines : Insert(n)
        \/ InsertStep \/ KeyClear \/ MyFunc \/ Quit \/ Destructor \/ Joined
        \/ Poll \/ PollStep \/ Expire \/ Stopped

(***************************************************************************)
(* Both threads run, and the main thread looks at its messages while it is *)
(* in its loop.  It holds the lock for moments, and Poll tries every       *)
(* second: it is not unlucky for ever.                                     *)
(***************************************************************************)
Fairness == /\ WF_vars(InsertStep) /\ WF_vars(MyFunc) /\ WF_vars(Destructor)
            /\ WF_vars(Joined) /\ WF_vars(PollStep) /\ SF_vars(Poll)

Spec == Init /\ [][Next]_vars /\ Fairness

-----------------------------------------------------------------------------
Ranges ==
  /\ made \in Nat /\ list \subseteq 1..made /\ hWnd \subseteq 1..made
  /\ windows \subseteq 1..made /\ expired \subseteq 1..made
  /\ main \in {"loop", "insert", "closing", "join", "done"}
  /\ lines \in 0..MaxLines /\ inserts \in 0..MaxInserts
  /\ thread \in {"wait", "poll", "sending", "ended"}
  /\ ptr \in 0..made /\ closing \in 0..made

\* Banners are among those made, and Poll is at one of them or at the head.
TypeOK == Ranges /\ shared \in BOOLEAN /\ hExit \in BOOLEAN

(***************************************************************************)
(* Poll never stands on a banner that is freed: what it has come to, also  *)
(* while it waits for a window to close, is in the list.  When CMessages   *)
(* is deleted its thread has ended.                                        *)
(***************************************************************************)
PollOnListed ==
  /\ thread \in {"poll", "sending"} => ptr \in list \cup {0}
  /\ main = "done" => thread = "ended"

(***************************************************************************)
(* The windows on the screen are those of the list, and the one Poll is    *)
(* closing: none is left behind when its banner is freed, and none is      *)
(* closed twice.  In the end there is none.                                *)
(***************************************************************************)
WindowsListed ==
  /\ windows = (list \cap hWnd)
                 \cup (IF thread = "sending" THEN {closing} ELSE {})
  /\ main = "done" => windows = {}

\* A banner whose time is over goes, while the program runs.
ExpiredGo ==
  \A b \in 1..MaxInserts * MaxLines :
    b \in list \cap expired ~> (b \notin list \/ main \notin {"loop", "insert"})

\* The program ends, unless Poll is closing a window then: it waits for the
\* main thread, which waits for it.
ShutdownEnds == main = "closing" ~> (main = "done" \/ thread = "sending")
=============================================================================
