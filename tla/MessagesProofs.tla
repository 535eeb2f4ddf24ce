--------------------------- MODULE MessagesProofs ---------------------------
(***************************************************************************)
(* Proofs about Messages: the lock keeps the main thread and Poll apart,   *)
(* for any number of messages and lines.                                   *)
(***************************************************************************)
EXTENDS Messages, WellFoundedInduction, TLAPS

Polling == thread \in {"poll", "sending"}

\* One of them holds the lock, or nobody does.
Apart == /\ (main = "insert" \/ Polling) <=> ~shared
         /\ ~(main = "insert" /\ Polling)

\* The thread is told to end when the program ends, and ends then only.
Ended == /\ hExit <=> main \in {"join", "done"}
         /\ thread = "ended" => hExit
         /\ main = "done" => list = {}

IInv == TypeOK /\ Apart /\ Ended /\ PollOnListed /\ WindowsListed
        /\ (thread = "sending" => closing \notin list)

-----------------------------------------------------------------------------
\* A set of numbers has a least one.
LEMMA Least ==
  ASSUME NEW T, T \subseteq Nat, T # {}
  PROVE  \E x \in T : \A y \in T : x <= y
<1> DEFINE R == {p \in Nat \X Nat : p[1] < p[2]}
<1>1. IsWellFoundedOn(R, Nat)
  BY NatLessThanWellFounded DEF OpToRel
<1> HIDE DEF R
<1>2. PICK x \in T : \A y \in T : ~(<<y, x>> \in R)
  BY <1>1, WFMin
<1>3. \A y \in T : ~(y < x)
  BY <1>2 DEF R
<1>4. \A y \in T : x <= y
  BY <1>3
<1> QED BY <1>4

\* From a banner Poll comes to another one of the list, or to its head.
LEMMA FollowingListed ==
  ASSUME TypeOK, NEW b \in Nat
  PROVE  Following(b) \in (list \ {b}) \cup {0}
<1>1. \A c \in list : c \in Nat
  BY DEF TypeOK, Ranges
<1>2. CASE \E c \in list : c > b
  <2> DEFINE T == {c \in list : c > b}
  <2>1. T \subseteq Nat /\ T # {}
    BY <1>1, <1>2
  <2>2. PICK x \in T : \A y \in T : x <= y
    <3> HIDE DEF T
    <3> QED BY <2>1, Least
  <2>3. x \in list /\ x > b /\ \A d \in list : d > b => x <= d
    BY <2>2
  <2>4. \E c \in list : c > b /\ \A d \in list : d > b => c <= d
    BY <2>3
  <2> DEFINE f == CHOOSE c \in list : c > b /\ \A d \in list : d > b => c <= d
  <2>5. f \in list /\ f > b
    BY <2>4
  <2>6. Following(b) = f
    BY <1>2 DEF Following
  <2>7. f # b
    <3> HIDE DEF f
    <3> QED BY <2>5, <1>1
  <2> QED BY <2>5, <2>6, <2>7
<1>3. CASE ~\E c \in list : c > b
  BY <1>3 DEF Following
<1> QED BY <1>2, <1>3

-----------------------------------------------------------------------------
\* The constructor sets the invariant up.
LEMMA InitInv == Init => IInv
<1> SUFFICES ASSUME Init PROVE IInv
  OBVIOUS
<1>1. Ranges
  BY ConstantsAssumption DEF Init, Ranges
<1>4. shared \in BOOLEAN /\ hExit \in BOOLEAN
  BY Zenon DEF Init
<1>2. Apart /\ Ended /\ PollOnListed
  BY DEF Init, Apart, Ended, Polling, PollOnListed
<1>3. WindowsListed /\ thread # "sending"
  BY DEF Init, WindowsListed
<1> QED BY <1>1, <1>2, <1>3, <1>4 DEF IInv, TypeOK

\* Insert takes the lock, or loses its message.
LEMMA InsertInv ==
  ASSUME IInv, NEW n \in 0..MaxLines, Insert(n)
  PROVE  IInv'
<1>1. TypeOK'
  <2>1. inserts' \in 0..MaxInserts /\ lines' \in 0..MaxLines
    BY ConstantsAssumption DEF IInv, TypeOK, Ranges, Insert
  <2>2. Ranges'
    BY <2>1 DEF IInv, TypeOK, Ranges, Insert, bannerVars, threadVars
  <2>3. shared' \in BOOLEAN /\ hExit' \in BOOLEAN
    BY Zenon DEF IInv, TypeOK, Insert
  <2> QED BY <2>2, <2>3 DEF TypeOK
<1>2. Apart' /\ Ended' /\ (thread' = "sending" => closing' \notin list')
  BY DEF IInv, Apart, Ended, Polling, Insert, TypeOK, Ranges, bannerVars, threadVars
<1>3. PollOnListed' /\ WindowsListed'
  BY DEF IInv, PollOnListed, WindowsListed, Insert, bannerVars, threadVars
<1> QED BY <1>1, <1>2, <1>3 DEF IInv

\* A line is put in, with or without a window, while Poll is kept out.
LEMMA InsertLineInv == IInv /\ InsertLine => IInv'
<1> SUFFICES ASSUME IInv, InsertLine PROVE IInv'
  OBVIOUS
<1>1. /\ main = "insert" /\ ~Polling /\ made \in Nat /\ made' = made + 1
      /\ list \subseteq 1..made /\ windows = list \cap hWnd
      /\ hWnd \subseteq 1..made /\ expired \subseteq 1..made
      /\ thread \in {"wait", "ended"}
  BY DEF IInv, InsertLine, Apart, TypeOK, Ranges, WindowsListed, Polling
<1>2. made' \in Nat /\ made' \in 1..made' /\ 1..made \subseteq 1..made'
      /\ made' \notin list /\ made' \notin hWnd
  BY <1>1
<1>3. /\ list' \subseteq 1..made' /\ hWnd' \subseteq 1..made'
      /\ windows' = list' \cap hWnd'
  <2>1. CASE \E overlapped \in SUBSET list :
               /\ list' = (list \ overlapped) \cup {made'}
               /\ windows' = (windows \ overlapped) \cup {made'}
               /\ hWnd' = hWnd \cup {made'}
    BY <1>1, <1>2, <2>1
  <2>2. CASE list' = list \cup {made'} /\ UNCHANGED <<windows, hWnd>>
    BY <1>1, <1>2, <2>2
  <2> QED BY <2>1, <2>2 DEF InsertLine
<1>4. /\ UNCHANGED <<expired, shared, main, inserts, thread, ptr, closing, hExit>>
      /\ lines > 0 /\ lines' = lines - 1
  BY DEF InsertLine, threadVars
<1>5. TypeOK'
  <2>1. lines' \in 0..MaxLines
    BY <1>4, ConstantsAssumption DEF IInv, TypeOK, Ranges
  <2>2. ptr' \in 0..made' /\ closing' \in 0..made'
    BY <1>1, <1>4 DEF IInv, TypeOK, Ranges
  <2>3. windows' \subseteq 1..made' /\ expired' \subseteq 1..made'
    BY <1>1, <1>2, <1>3, <1>4
  <2> QED BY <1>2, <1>3, <1>4, <2>1, <2>2, <2>3 DEF IInv, TypeOK, Ranges
<1>6. Apart' /\ Ended'
  BY <1>1, <1>4 DEF IInv, Apart, Ended, Polling
<1>7. PollOnListed' /\ WindowsListed' /\ (thread' = "sending" => closing' \notin list')
  BY <1>1, <1>3, <1>4 DEF IInv, PollOnListed, WindowsListed
<1> QED BY <1>5, <1>6, <1>7 DEF IInv

\* Insert gives the lock back.
LEMMA InsertEndInv == IInv /\ InsertEnd => IInv'
<1> SUFFICES ASSUME IInv, InsertEnd PROVE IInv'
  OBVIOUS
<1>1. TypeOK'
  BY DEF IInv, TypeOK, Ranges, InsertEnd, bannerVars, threadVars
<1>2. Apart' /\ Ended' /\ (thread' = "sending" => closing' \notin list')
  BY DEF IInv, Apart, Ended, Polling, InsertEnd, TypeOK, Ranges, bannerVars, threadVars
<1>3. PollOnListed' /\ WindowsListed'
  BY DEF IInv, PollOnListed, WindowsListed, InsertEnd, bannerVars, threadVars
<1> QED BY <1>1, <1>2, <1>3 DEF IInv

\* Clear closes every window of the list, unless Poll is at work.
LEMMA ClearInv ==
  IInv /\ Clear /\ UNCHANGED <<made, hWnd, expired>>
    => /\ list' \subseteq list /\ windows' \subseteq windows
       /\ ~shared => list' = list
       /\ windows' = (list' \cap hWnd')
            \cup (IF thread = "sending" THEN {closing} ELSE {})
<1> SUFFICES ASSUME IInv, Clear, UNCHANGED <<made, hWnd, expired>>
             PROVE  /\ list' \subseteq list /\ windows' \subseteq windows
                    /\ ~shared => list' = list
                    /\ windows' = (list' \cap hWnd')
                         \cup (IF thread = "sending" THEN {closing} ELSE {})
  OBVIOUS
<1>1. CASE shared
  <2>1. thread # "sending"
    BY <1>1 DEF IInv, Apart, Polling
  <2> QED BY <1>1, <2>1 DEF Clear, IInv, WindowsListed
<1>2. CASE ~shared
  BY <1>2 DEF Clear, IInv, WindowsListed
<1> QED BY <1>1, <1>2

\* The keyboard clears the banners, or does nothing.
LEMMA KeyClearInv == IInv /\ KeyClear => IInv'
<1> SUFFICES ASSUME IInv, KeyClear PROVE IInv'
  OBVIOUS
<1>1. /\ UNCHANGED <<made, hWnd, expired, shared, main, lines, inserts, hExit,
                     thread, ptr, closing>>
      /\ main = "loop" /\ Clear
  BY DEF KeyClear, mainVars, threadVars
<1>2. /\ list' \subseteq list /\ windows' \subseteq windows
      /\ ~shared => list' = list
      /\ windows' = (list' \cap hWnd')
           \cup (IF thread = "sending" THEN {closing} ELSE {})
  BY <1>1, ClearInv
<1>3. TypeOK'
  BY <1>1, <1>2 DEF IInv, TypeOK, Ranges
<1>4. Apart' /\ Ended' /\ (thread' = "sending" => closing' \notin list')
  BY <1>1, <1>2 DEF IInv, Apart, Ended, Polling
<1>5. PollOnListed' /\ WindowsListed'
  BY <1>1, <1>2 DEF IInv, PollOnListed, WindowsListed, Apart, Polling
<1> QED BY <1>3, <1>4, <1>5 DEF IInv

\* The main thread closes the window Poll waits for.
LEMMA MyFuncInv == IInv /\ MyFunc => IInv'
<1> SUFFICES ASSUME IInv, MyFunc PROVE IInv'
  OBVIOUS
<1>1. TypeOK'
  BY DEF IInv, TypeOK, Ranges, MyFunc, mainVars
<1>2. Apart' /\ Ended' /\ (thread' = "sending" => closing' \notin list')
  BY DEF IInv, Apart, Ended, Polling, MyFunc, mainVars
<1>3. PollOnListed' /\ WindowsListed'
  BY DEF IInv, PollOnListed, WindowsListed, MyFunc, mainVars
<1> QED BY <1>1, <1>2, <1>3 DEF IInv

\* The program begins to end.
LEMMA QuitInv == IInv /\ (Quit \/ Destructor) => IInv'
<1> SUFFICES ASSUME IInv, Quit \/ Destructor PROVE IInv'
  OBVIOUS
<1>1. TypeOK'
  BY DEF IInv, TypeOK, Ranges, Quit, Destructor, bannerVars, threadVars
<1>2. Apart' /\ Ended' /\ (thread' = "sending" => closing' \notin list')
  BY DEF IInv, Apart, Ended, Polling, Quit, Destructor, bannerVars, threadVars
<1>3. PollOnListed' /\ WindowsListed'
  BY DEF IInv, PollOnListed, WindowsListed, Quit, Destructor, bannerVars,
         threadVars
<1> QED BY <1>1, <1>2, <1>3 DEF IInv

\* Once the thread has ended nobody holds the lock, so Clear does clear.
LEMMA JoinedInv == IInv /\ Joined => IInv'
<1> SUFFICES ASSUME IInv, Joined PROVE IInv'
  OBVIOUS
<1>1. /\ UNCHANGED <<made, hWnd, expired, shared, lines, inserts, hExit,
                     thread, ptr, closing>>
      /\ main = "join" /\ main' = "done" /\ thread = "ended" /\ Clear
  BY DEF Joined, threadVars
<1>2. shared
  BY <1>1 DEF IInv, Apart, Polling, TypeOK
<1>3. list' = {} /\ windows' = {}
  BY <1>1, <1>2 DEF Clear, IInv, WindowsListed
<1>4. TypeOK'
  BY <1>1, <1>3 DEF IInv, TypeOK, Ranges
<1>5. Apart' /\ Ended'
  BY <1>1, <1>3 DEF IInv, Apart, Ended, Polling
<1>6. PollOnListed' /\ WindowsListed'
  BY <1>1, <1>3 DEF IInv, PollOnListed, WindowsListed
<1> QED BY <1>1, <1>4, <1>5, <1>6 DEF IInv

-----------------------------------------------------------------------------
\* Poll takes the lock, when Insert does not hold it.
LEMMA PollInv == IInv /\ Poll => IInv'
<1> SUFFICES ASSUME IInv, Poll PROVE IInv'
  OBVIOUS
<1>1. ptr' \in list \cup {0}
  BY FollowingListed DEF IInv, Poll
<1>2. ptr' \in 0..made'
  BY <1>1 DEF IInv, TypeOK, Ranges, Poll, bannerVars
<1>3. TypeOK'
  BY <1>2 DEF IInv, TypeOK, Ranges, Poll, bannerVars, mainVars
<1>4. Apart' /\ Ended' /\ (thread' = "sending" => closing' \notin list')
  BY DEF IInv, Apart, Ended, Polling, Poll, bannerVars, mainVars
<1>5. PollOnListed' /\ WindowsListed'
  BY <1>1 DEF IInv, PollOnListed, WindowsListed, Poll, bannerVars, mainVars,
              Ended
<1> QED BY <1>3, <1>4, <1>5 DEF IInv

\* Poll leaves a banner and goes on.
LEMMA PollKeepInv == IInv /\ PollKeep => IInv'
<1> SUFFICES ASSUME IInv, PollKeep PROVE IInv'
  OBVIOUS
<1>1. ptr \in Nat
  BY DEF IInv, TypeOK, Ranges
<1>2. ptr' \in list \cup {0}
  BY <1>1, FollowingListed DEF IInv, PollKeep
<1>3. ptr' \in 0..made'
  BY <1>2 DEF IInv, TypeOK, Ranges, PollKeep, bannerVars
<1>4. TypeOK'
  BY <1>3 DEF IInv, TypeOK, Ranges, PollKeep, bannerVars, mainVars
<1>5. Apart' /\ Ended' /\ (thread' = "sending" => closing' \notin list')
  BY DEF IInv, Apart, Ended, Polling, PollKeep, bannerVars, mainVars
<1>6. PollOnListed' /\ WindowsListed'
  BY <1>2 DEF IInv, PollOnListed, WindowsListed, PollKeep, bannerVars, mainVars
<1> QED BY <1>4, <1>5, <1>6 DEF IInv

\* Poll takes a banner out of the list, and begins to close its window.
LEMMA PollRemoveInv == IInv /\ PollRemove => IInv'
<1> SUFFICES ASSUME IInv, PollRemove PROVE IInv'
  OBVIOUS
<1>1. /\ thread = "poll" /\ ptr # 0 /\ ptr \in list /\ ptr \in Nat
      /\ list' = list \ {ptr} /\ ptr' = Following(ptr)
      /\ UNCHANGED <<made, hWnd, windows, expired, shared, main, lines,
                     inserts, hExit>>
      /\ windows = list \cap hWnd
  BY DEF IInv, TypeOK, Ranges, PollOnListed, WindowsListed, PollRemove, mainVars
<1>2. ptr' \in list' \cup {0}
  BY <1>1, FollowingListed DEF IInv
<1>3. \/ ptr \in hWnd /\ thread' = "sending" /\ closing' = ptr
      \/ ptr \notin hWnd /\ thread' = "poll" /\ closing' = closing
  BY <1>1 DEF PollRemove
<1>4. TypeOK'
  <2>1. list' \subseteq 1..made' /\ ptr' \in 0..made'
    BY <1>1, <1>2 DEF IInv, TypeOK, Ranges
  <2>2. closing' \in 0..made' /\ thread' \in {"wait", "poll", "sending", "ended"}
    BY <1>1, <1>3 DEF IInv, TypeOK, Ranges
  <2> QED BY <1>1, <2>1, <2>2 DEF IInv, TypeOK, Ranges
<1>5. Apart' /\ Ended'
  BY <1>1, <1>3 DEF IInv, Apart, Ended, Polling
<1>6. PollOnListed' /\ WindowsListed' /\ (thread' = "sending" => closing' \notin list')
  <2>1. PollOnListed'
    BY <1>1, <1>2, <1>3 DEF IInv, PollOnListed
  <2>2. main # "done"
    BY <1>1 DEF IInv, PollOnListed
  <2>3. WindowsListed'
    BY <1>1, <1>3, <2>2 DEF WindowsListed
  <2> QED BY <1>1, <1>3, <2>1, <2>3
<1> QED BY <1>4, <1>5, <1>6 DEF IInv

\* Poll gives the lock back, or its thread ends.
LEMMA PollEndInv == IInv /\ (PollEnd \/ ThreadProc) => IInv'
<1> SUFFICES ASSUME IInv, PollEnd \/ ThreadProc PROVE IInv'
  OBVIOUS
<1>1. TypeOK'
  BY DEF IInv, TypeOK, Ranges, PollEnd, ThreadProc, bannerVars, mainVars
<1>2. Apart' /\ Ended' /\ (thread' = "sending" => closing' \notin list')
  BY DEF IInv, Apart, Ended, Polling, PollEnd, ThreadProc, bannerVars, mainVars
<1>3. PollOnListed' /\ WindowsListed'
  BY DEF IInv, PollOnListed, WindowsListed, PollEnd, ThreadProc, bannerVars,
         mainVars
<1> QED BY <1>1, <1>2, <1>3 DEF IInv

\* Time passes, or nothing changes.
LEMMA ExpireInv == IInv /\ (Expire \/ UNCHANGED vars) => IInv'
<1> SUFFICES ASSUME IInv, Expire \/ UNCHANGED vars PROVE IInv'
  OBVIOUS
<1>1. /\ UNCHANGED <<list, made, hWnd, windows, shared, main, lines, inserts,
                     hExit, thread, ptr, closing>>
      /\ expired' \subseteq 1..made
  BY DEF Expire, IInv, TypeOK, Ranges, vars, bannerVars, mainVars, threadVars
<1> QED BY <1>1 DEF IInv, TypeOK, Ranges, Apart, Ended, Polling, PollOnListed,
                    WindowsListed

\* The inductive invariant holds in every state.
LEMMA Invariance == Spec => []IInv
<1>1. IInv /\ [Next]_vars => IInv'
  BY InsertInv, InsertLineInv, InsertEndInv, KeyClearInv, MyFuncInv, QuitInv,
     JoinedInv, PollInv, PollKeepInv, PollRemoveInv, PollEndInv, ExpireInv
  DEF Next, InsertStep, PollStep, Stopped
<1> QED BY InitInv, <1>1, PTL DEF Spec

\* Banners, the list and the states of both threads stay in their ranges, for
\* any number of messages and lines.
THEOREM MessagesTypeCorrect == Spec => []TypeOK
<1>1. IInv => TypeOK
  BY DEF IInv
<1> QED BY Invariance, <1>1, PTL

\* CMessages::Poll never follows a banner that Insert or Clear has freed, and
\* ~CMessages frees nothing its thread still uses.
THEOREM PollStaysOnList == Spec => []PollOnListed
<1>1. IInv => PollOnListed
  BY DEF IInv
<1> QED BY Invariance, <1>1, PTL

\* Every banner window is owned by an entry of the list until clear_item
\* closes it, and ~CMessages leaves none.
THEOREM WindowsAreListed == Spec => []WindowsListed
<1>1. IInv => WindowsListed
  BY DEF IInv
<1> QED BY Invariance, <1>1, PTL

-----------------------------------------------------------------------------
(* What the lock and the list do to the two threads.                       *)

\* The main thread and Poll are never in the list at once, and the lock is
\* taken only while one of them is.
ListShared ==
  /\ ~(main = "insert" /\ Polling)
  /\ ~shared => main = "insert" \/ Polling

THEOREM ListIsShared == Spec => []ListShared
<1>1. IInv => ListShared
  BY DEF IInv, Apart, ListShared
<1> QED BY <1>1, Invariance, PTL

\* A message is dropped by Insert only while Poll looks through the list: the
\* main thread never finds its own lock.
LostToPoll ==
  [][inserts' # inserts /\ main' # "insert" => Polling]_vars

THEOREM OnlyPollLoses == Spec => LostToPoll
<1>1. ASSUME IInv, Next, inserts' # inserts, main' # "insert"
      PROVE  Polling
  <2>1. PICK n \in 0..MaxLines : Insert(n)
    BY <1>1 DEF Next, InsertStep, PollStep, InsertLine, InsertEnd, KeyClear, MyFunc,
       Quit, Destructor, Joined, Poll, PollKeep, PollRemove, PollEnd, ThreadProc,
       Expire, Stopped, bannerVars, mainVars, threadVars, vars
  <2>2. main = "loop" /\ ~shared
    BY <1>1, <2>1, Zenon DEF Insert
  <2> QED
    BY <1>1, <2>2 DEF IInv, Apart
<1>2. IInv /\ [Next]_vars => [inserts' # inserts /\ main' # "insert" => Polling]_vars
  BY <1>1
<1> QED BY <1>2, Invariance, PTL DEF Spec, LostToPoll

\* While Poll is at work it only goes forward in the list, and no banner is
\* put in before or behind it: it comes to the head after at most as many
\* steps as there are banners.
PollAdvances ==
  [][thread = "poll" /\ ptr # 0 =>
       /\ ptr' = ptr \/ ptr' = 0 \/ ptr' > ptr
       /\ list' \subseteq list
       /\ PollKeep \/ PollRemove => ptr' # ptr]_vars

\* What follows a banner is beyond it.
LEMMA FollowingBeyond ==
  ASSUME TypeOK, NEW b \in Nat
  PROVE  Following(b) = 0 \/ Following(b) > b
<1>1. \A c \in list : c \in Nat
  BY DEF TypeOK, Ranges
<1>2. CASE \E c \in list : c > b
  <2> DEFINE T == {c \in list : c > b}
  <2>1. T \subseteq Nat /\ T # {}
    BY <1>1, <1>2
  <2>2. PICK x \in T : \A y \in T : x <= y
    <3> HIDE DEF T
    <3> QED BY <2>1, Least
  <2>3. \E c \in list : c > b /\ \A d \in list : d > b => c <= d
    BY <2>2
  <2>4. (CHOOSE c \in list : c > b /\ \A d \in list : d > b => c <= d) > b
    BY <2>3
  <2> QED BY <1>2, <2>4 DEF Following
<1>3. CASE ~\E c \in list : c > b
  BY <1>3 DEF Following
<1> QED BY <1>2, <1>3

THEOREM PollGoesForward == Spec => PollAdvances
<1>1. ASSUME IInv, Next, thread = "poll", ptr # 0
      PROVE  /\ ptr' = ptr \/ ptr' = 0 \/ ptr' > ptr
             /\ list' \subseteq list
             /\ PollKeep \/ PollRemove => ptr' # ptr
  <2>1. ptr \in Nat /\ TypeOK /\ main # "insert" /\ ~shared
    BY <1>1 DEF IInv, TypeOK, Ranges, Apart, Polling
  <2>2. CASE PollKeep \/ PollRemove
    <3>1. ptr' = Following(ptr) /\ list' \subseteq list
      BY <2>2 DEF PollKeep, PollRemove, bannerVars
    <3>2. Following(ptr) \in (list \ {ptr}) \cup {0}
      BY <2>1, FollowingListed
    <3>3. Following(ptr) = 0 \/ Following(ptr) > ptr
      BY <2>1, FollowingBeyond
    <3> QED
      BY <1>1, <3>1, <3>2, <3>3
  <2>3. CASE ~(PollKeep \/ PollRemove)
    <3>1. ptr' = ptr
      BY <1>1, <2>1, <2>3 DEF Next, Insert, InsertStep, PollStep, InsertLine, InsertEnd,
         KeyClear, MyFunc, Quit, Destructor, Joined, Poll, PollEnd, ThreadProc,
         Expire, Stopped, threadVars, vars
    <3>2. list' \subseteq list
      BY <1>1, <2>1, <2>3 DEF Next, Insert, InsertStep, PollStep, InsertLine, InsertEnd,
         KeyClear, Clear, MyFunc, Quit, Destructor, Joined, Poll, PollEnd, ThreadProc,
         Expire, Stopped, bannerVars, vars
    <3> QED
      BY <2>3, <3>1, <3>2
  <2> QED
    BY <2>2, <2>3
<1>2. IInv /\ [Next]_vars =>
        [thread = "poll" /\ ptr # 0 =>
           /\ ptr' = ptr \/ ptr' = 0 \/ ptr' > ptr
           /\ list' \subseteq list
           /\ PollKeep \/ PollRemove => ptr' # ptr]_vars
  BY <1>1
<1> QED BY <1>2, Invariance, PTL DEF Spec, PollAdvances
=============================================================================
