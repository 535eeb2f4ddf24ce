-------------------------- MODULE ModuleBaseProofs --------------------------
(***************************************************************************)
(* Proofs about ModuleBase for any number of modules, queue capacity and   *)
(* drain limit.                                                            *)
(***************************************************************************)
EXTENDS ModuleBase, TLAPS

\* Where the main thread works on the entry cur, cur is in the list.
MainPlace ==
  /\ main \in {"await", "note", "noted", "command", "signal", "join",
               "destroy"} => cur <= listed
  /\ main = "load" => listed < cur
  /\ main = "clear" => cur <= listed + 1
  /\ modCount = CASE main = "clear"                          -> listed - (cur - 1)
                  [] main \in {"join", "destroy"}            -> listed - cur
                  [] main = "done"                           -> 0
                  [] OTHER                                   -> listed

\* Between the busy test and SetEvent(hRead) the module stays free.
ScanPlace ==
  main \in {"note", "noted", "command", "signal"} => ~hRead[cur]

\* Where a module's thread can hold which lock, and what is left of its
\* answer.
ThreadPlace ==
  \A m \in Modules :
    /\ thr[m] = "absent" <=> listed < m
    /\ thr[m] = "absent" => outq[m] = <<>>
    /\ thr[m] = "killed" => main \in {"clear", "join", "destroy", "done"}
    /\ freed[m] => main \in {"clear", "join", "destroy", "done"} /\ m < cur
    /\ outLock[m] /\ thr[m] # "killed" =>
         thr[m] \in {"enter", "answer"} /\ todo[m] # <<>>
    /\ main = "destroy" /\ cur = m => thr[m] \in {"ended", "killed"}

IInv == /\ TypeOK /\ CommandHandshake /\ NoStrandedOutput /\ FreedIsQuiet
        /\ MainPlace /\ ScanPlace /\ ThreadPlace

-----------------------------------------------------------------------------
(* The queue operations stay in the type of a queue.                       *)

\* An accepted or refused entry keeps a queue in type and within CmdMax.
LEMMA PushedType ==
  ASSUME NEW S, NEW q \in Seq(S), NEW k \in S
  PROVE  Pushed(q, k) \in Seq(S) /\ (Len(q) <= CmdMax => Len(Pushed(q, k)) <= CmdMax)
BY ConstantsAssumption DEF Pushed

\* A queue of one command is popped to the empty queue.
LEMMA SingleCommand ==
  ASSUME NEW S, NEW q \in Seq(S), Len(q) = 1
  PROVE  q # <<>> /\ Tail(q) \in Seq(S) /\ Len(Tail(q)) = 0
OBVIOUS

\* Insert has an entry left to fill.
LEMMA NextListed ==
  ASSUME MainTypeOK, listed < cur, cur <= N
  PROVE  listed + 1 \in Modules
<1>1. N \in Nat /\ listed \in Nat /\ cur \in Nat
  BY ConstantsAssumption DEF MainTypeOK
<1> QED
  BY <1>1 DEF Modules

\* Taking the head keeps a queue in type and shortens it.
LEMMA TailType ==
  ASSUME NEW S, NEW q \in Seq(S), q # <<>>
  PROVE  Head(q) \in S /\ Tail(q) \in Seq(S) /\ Len(Tail(q)) = Len(q) - 1
OBVIOUS

\* The main thread's own variables: Insert never overruns the list, and the
\* module count follows Insert and Clear.
LEMMA MainTypeStep == IInv /\ [Next]_vars => MainTypeOK'
<1> SUFFICES ASSUME IInv, [Next]_vars PROVE MainTypeOK'
  OBVIOUS
<1> USE ConstantsAssumption DEF IInv, TypeOK, MainTypeOK, MainPlace, Modules,
       At, vars, mainVars, listVars, threadVars, eventVars, queueVars
<1>1. CASE Insert  BY <1>1 DEF Insert
<1>2. CASE InitBegin  BY <1>2 DEF InitBegin
<1>3. CASE InitStart  BY <1>3 DEF InitStart
<1>4. CASE InitNext  BY <1>4 DEF InitNext
<1>5. CASE InitQuit  BY <1>5 DEF InitQuit
<1>6. CASE InitEnd  BY <1>6 DEF InitEnd
<1>7. CASE KeyDown  BY <1>7 DEF KeyDown
<1>8. CASE ScanSkip  BY <1>8 DEF ScanSkip
<1>9. CASE ScanEnd  BY <1>9 DEF ScanEnd
<1>10. CASE ScanFound  BY <1>10 DEF ScanFound
<1>11. CASE PutAsyncMessage  BY <1>11 DEF PutAsyncMessage
<1>12. CASE NoteSignal  BY <1>12 DEF NoteSignal
<1>13. CASE SetInputCmd  BY <1>13 DEF SetInputCmd
<1>14. CASE ExecuteCommand  BY <1>14 DEF ExecuteCommand
<1>15. CASE DrainBegin
  <2>1. UNCHANGED <<key, presses, listed, modCount>>
    BY <1>15 DEF DrainBegin, listVars
  <2>2. main' = "drain" /\ cur' = 1 /\ count' = 0 /\ cut' = FALSE /\ hWrite' = FALSE
    BY <1>15 DEF DrainBegin
  <2>3. 1 \in 1..(N + 1) /\ 0 \in 0..DrainMax
    OBVIOUS
  <2>4. listed' \in 0..N /\ modCount' \in 0..N /\ modCount' <= MaxModules
    BY <2>1
  <2> QED
    BY <2>1, <2>2, <2>3, <2>4, Zenon
<1>16. CASE ReadOutputCmd  BY <1>16 DEF ReadOutputCmd
<1>17. CASE DrainNext  BY <1>17 DEF DrainNext
<1>18. CASE DrainCut  BY <1>18 DEF DrainCut
<1>19. CASE DrainEnd  BY <1>19 DEF DrainEnd
<1>20. CASE Quit  BY <1>20 DEF Quit
<1>21. CASE FreeBegin  BY <1>21 DEF FreeBegin
<1>22. CASE Joined  BY <1>22 DEF Joined
<1>23. CASE Terminate  BY <1>23 DEF Terminate
<1>24. CASE Destroy  BY <1>24 DEF Destroy
<1>25. CASE ClearEnd  BY <1>25 DEF ClearEnd
<1>26. ASSUME NEW m \in Modules, ThreadStart(m) PROVE MainTypeOK'
  BY <1>26 DEF ThreadStart
<1>27. ASSUME NEW m \in Modules, Opened(m) PROVE MainTypeOK'
  BY <1>27 DEF Opened
<1>28. ASSUME NEW m \in Modules, OpenFailed(m) PROVE MainTypeOK'
  BY <1>28 DEF OpenFailed
<1>29. ASSUME NEW m \in Modules, ThreadExit(m) PROVE MainTypeOK'
  BY <1>29 DEF ThreadExit
<1>30. ASSUME NEW m \in Modules, PopBegin(m) PROVE MainTypeOK'
  BY <1>30 DEF PopBegin
<1>31. ASSUME NEW m \in Modules, PopEnd(m) PROVE MainTypeOK'
  BY <1>31 DEF PopEnd
<1>32. ASSUME NEW m \in Modules, PushBegin(m) PROVE MainTypeOK'
  BY <1>32 DEF PushBegin
<1>33. ASSUME NEW m \in Modules, PushEnd(m) PROVE MainTypeOK'
  BY <1>33 DEF PushEnd
<1>34. ASSUME NEW m \in Modules, Process(m) PROVE MainTypeOK'
  BY <1>34 DEF Process
<1>35. ASSUME NEW m \in Modules, ResetRead(m) PROVE MainTypeOK'
  BY <1>35 DEF ResetRead
<1>36. ASSUME NEW m \in Modules, RaiseWrite(m) PROVE MainTypeOK'
  BY <1>36 DEF RaiseWrite
<1>37. CASE UNCHANGED vars  BY <1>37
<1> QED
  BY <1>1, <1>2, <1>3, <1>4, <1>5, <1>6, <1>7, <1>8, <1>9, <1>10, <1>11,
     <1>12, <1>13, <1>14, <1>15, <1>16, <1>17, <1>18, <1>19, <1>20, <1>21,
     <1>22, <1>23, <1>24, <1>25, <1>26, <1>27, <1>28, <1>29, <1>30, <1>31,
     <1>32, <1>33, <1>34, <1>35, <1>36, <1>37
  DEF Next, MainStep, Startup, KeyScan, Drain, Shutdown, User, Thread, Plugin

\* Threads, events and locks.
LEMMA ThreadTypeStep == IInv /\ [Next]_vars => ThreadTypeOK'
<1> SUFFICES ASSUME IInv, [Next]_vars PROVE ThreadTypeOK'
  OBVIOUS
<1> USE ConstantsAssumption DEF IInv, TypeOK, ThreadTypeOK, Modules,
       At, vars, mainVars, listVars, threadVars, eventVars, queueVars
<1>1. CASE Insert  BY <1>1 DEF Insert
<1>2. CASE InitBegin  BY <1>2 DEF InitBegin
<1>3. CASE InitStart  BY <1>3 DEF InitStart
<1>4. CASE InitNext  BY <1>4 DEF InitNext
<1>5. CASE InitQuit  BY <1>5 DEF InitQuit
<1>6. CASE InitEnd  BY <1>6 DEF InitEnd
<1>7. CASE KeyDown  BY <1>7 DEF KeyDown
<1>8. CASE ScanSkip  BY <1>8 DEF ScanSkip
<1>9. CASE ScanEnd  BY <1>9 DEF ScanEnd
<1>10. CASE ScanFound  BY <1>10 DEF ScanFound
<1>11. CASE PutAsyncMessage  BY <1>11 DEF PutAsyncMessage
<1>12. CASE NoteSignal  BY <1>12 DEF NoteSignal
<1>13. CASE SetInputCmd  BY <1>13 DEF SetInputCmd
<1>14. CASE ExecuteCommand  BY <1>14 DEF ExecuteCommand
<1>15. CASE DrainBegin  BY <1>15 DEF DrainBegin
<1>16. CASE ReadOutputCmd  BY <1>16 DEF ReadOutputCmd
<1>17. CASE DrainNext  BY <1>17 DEF DrainNext
<1>18. CASE DrainCut  BY <1>18 DEF DrainCut
<1>19. CASE DrainEnd  BY <1>19 DEF DrainEnd
<1>20. CASE Quit  BY <1>20 DEF Quit
<1>21. CASE FreeBegin  BY <1>21 DEF FreeBegin
<1>22. CASE Joined  BY <1>22 DEF Joined
<1>23. CASE Terminate  BY <1>23 DEF Terminate
<1>24. CASE Destroy  BY <1>24 DEF Destroy
<1>25. CASE ClearEnd  BY <1>25 DEF ClearEnd
<1>26. ASSUME NEW m \in Modules, ThreadStart(m) PROVE ThreadTypeOK'
  BY <1>26 DEF ThreadStart
<1>27. ASSUME NEW m \in Modules, Opened(m) PROVE ThreadTypeOK'
  BY <1>27 DEF Opened
<1>28. ASSUME NEW m \in Modules, OpenFailed(m) PROVE ThreadTypeOK'
  BY <1>28 DEF OpenFailed
<1>29. ASSUME NEW m \in Modules, ThreadExit(m) PROVE ThreadTypeOK'
  BY <1>29 DEF ThreadExit
<1>30. ASSUME NEW m \in Modules, PopBegin(m) PROVE ThreadTypeOK'
  BY <1>30 DEF PopBegin
<1>31. ASSUME NEW m \in Modules, PopEnd(m) PROVE ThreadTypeOK'
  BY <1>31 DEF PopEnd
<1>32. ASSUME NEW m \in Modules, PushBegin(m) PROVE ThreadTypeOK'
  BY <1>32 DEF PushBegin
<1>33. ASSUME NEW m \in Modules, PushEnd(m) PROVE ThreadTypeOK'
  BY <1>33 DEF PushEnd
<1>34. ASSUME NEW m \in Modules, Process(m) PROVE ThreadTypeOK'
  BY <1>34 DEF Process
<1>35. ASSUME NEW m \in Modules, ResetRead(m) PROVE ThreadTypeOK'
  BY <1>35 DEF ResetRead
<1>36. ASSUME NEW m \in Modules, RaiseWrite(m) PROVE ThreadTypeOK'
  BY <1>36 DEF RaiseWrite
<1>37. CASE UNCHANGED vars  BY <1>37
<1> QED
  BY <1>1, <1>2, <1>3, <1>4, <1>5, <1>6, <1>7, <1>8, <1>9, <1>10, <1>11,
     <1>12, <1>13, <1>14, <1>15, <1>16, <1>17, <1>18, <1>19, <1>20, <1>21,
     <1>22, <1>23, <1>24, <1>25, <1>26, <1>27, <1>28, <1>29, <1>30, <1>31,
     <1>32, <1>33, <1>34, <1>35, <1>36, <1>37
  DEF Next, MainStep, Startup, KeyScan, Drain, Shutdown, User, Thread, Plugin

\* The queues and what is left of an answer.
LEMMA QueueTypeStep == IInv /\ [Next]_vars => QueueTypeOK'
<1> SUFFICES ASSUME IInv, [Next]_vars PROVE QueueTypeOK'
  OBVIOUS
<1> USE DEF IInv, TypeOK, QueueTypeOK,
       At, vars, mainVars, listVars, threadVars, eventVars, queueVars
<1>1. CASE Insert  BY <1>1 DEF Insert
<1>2. CASE InitBegin  BY <1>2 DEF InitBegin
<1>3. CASE InitStart  BY <1>3 DEF InitStart
<1>4. CASE InitNext  BY <1>4 DEF InitNext
<1>5. CASE InitQuit  BY <1>5 DEF InitQuit
<1>6. CASE InitEnd  BY <1>6 DEF InitEnd
<1>7. CASE KeyDown  BY <1>7 DEF KeyDown
<1>8. CASE ScanSkip  BY <1>8 DEF ScanSkip
<1>9. CASE ScanEnd  BY <1>9 DEF ScanEnd
<1>10. CASE ScanFound  BY <1>10 DEF ScanFound
<1>11. CASE PutAsyncMessage
  <2>1. cur \in Modules
    BY ConstantsAssumption, <1>11 DEF PutAsyncMessage, MainPlace, MainTypeOK, Modules
  <2>2. Pushed(outq[cur], "ASYNC") \in Seq(Kind) /\ Len(Pushed(outq[cur], "ASYNC")) <= CmdMax
    BY <2>1, PushedType DEF Kind
  <2> QED
    BY <1>11, <2>1, <2>2 DEF PutAsyncMessage, threadVars
<1>12. CASE NoteSignal  BY <1>12 DEF NoteSignal
<1>13. CASE SetInputCmd
  <2>1. cur \in Modules
    BY ConstantsAssumption, <1>13 DEF SetInputCmd, MainPlace, MainTypeOK, Modules
  <2>2. Pushed(inq[cur], "PARSECMD") \in Seq({"PARSECMD"})
    BY <2>1, PushedType
  <2> QED
    BY <1>13, <2>1, <2>2 DEF SetInputCmd, threadVars
<1>14. CASE ExecuteCommand  BY <1>14 DEF ExecuteCommand
<1>15. CASE DrainBegin  BY <1>15 DEF DrainBegin
<1>16. CASE ReadOutputCmd
  <2>1. cur \in Modules
    BY ConstantsAssumption, <1>16 DEF ReadOutputCmd, Modules, MainPlace, MainTypeOK, Modules
  <2>2. Tail(outq[cur]) \in Seq(Kind) /\ Len(Tail(outq[cur])) <= CmdMax
    BY <1>16, <2>1, ConstantsAssumption, TailType DEF ReadOutputCmd
  <2> QED
    BY <1>16, <2>1, <2>2 DEF ReadOutputCmd, threadVars
<1>17. CASE DrainNext  BY <1>17 DEF DrainNext
<1>18. CASE DrainCut  BY <1>18 DEF DrainCut
<1>19. CASE DrainEnd  BY <1>19 DEF DrainEnd
<1>20. CASE Quit  BY <1>20 DEF Quit
<1>21. CASE FreeBegin  BY <1>21 DEF FreeBegin
<1>22. CASE Joined  BY <1>22 DEF Joined
<1>23. CASE Terminate  BY <1>23 DEF Terminate
<1>24. CASE Destroy
  <2>1. cur \in Modules
    BY ConstantsAssumption, <1>24 DEF Destroy, MainPlace, MainTypeOK, Modules
  <2>2. <<>> \in Seq(Kind) /\ <<>> \in Seq({"PARSECMD"}) /\ Len(<<>>) <= CmdMax
    BY ConstantsAssumption
  <2> QED
    BY <1>24, <2>1, <2>2 DEF Destroy, threadVars
<1>25. CASE ClearEnd  BY <1>25 DEF ClearEnd
<1>26. ASSUME NEW m \in Modules, ThreadStart(m) PROVE QueueTypeOK'
  BY <1>26 DEF ThreadStart
<1>27. ASSUME NEW m \in Modules, Opened(m) PROVE QueueTypeOK'
  BY <1>27 DEF Opened
<1>28. ASSUME NEW m \in Modules, OpenFailed(m) PROVE QueueTypeOK'
  BY <1>28 DEF OpenFailed
<1>29. ASSUME NEW m \in Modules, ThreadExit(m) PROVE QueueTypeOK'
  BY <1>29 DEF ThreadExit
<1>30. ASSUME NEW m \in Modules, PopBegin(m) PROVE QueueTypeOK'
  BY <1>30 DEF PopBegin
<1>31. ASSUME NEW m \in Modules, PopEnd(m) PROVE QueueTypeOK'
  <2>1. Len(inq[m]) = 1
    BY <1>31 DEF PopEnd, At, CommandHandshake, FreedIsQuiet, Executing
  <2>3. Tail(inq[m]) \in Seq({"PARSECMD"})
    BY <2>1, SingleCommand
  <2> QED
    BY <1>31, <2>3 DEF PopEnd, Kind
<1>32. ASSUME NEW m \in Modules, PushBegin(m) PROVE QueueTypeOK'
  BY <1>32 DEF PushBegin
<1>33. ASSUME NEW m \in Modules, PushEnd(m) PROVE QueueTypeOK'
  <2>1. todo[m] # <<>> /\ outq[m] \in Seq(Kind) /\ todo[m] \in Seq(Kind)
    BY <1>33 DEF PushEnd, At, ThreadPlace
  <2>2. Head(todo[m]) \in Kind /\ Tail(todo[m]) \in Seq(Kind)
    BY <2>1, TailType
  <2>3. Pushed(outq[m], Head(todo[m])) \in Seq(Kind) /\ Len(Pushed(outq[m], Head(todo[m]))) <= CmdMax
    BY <2>1, <2>2, PushedType
  <2> QED
    BY <1>33, <2>2, <2>3 DEF PushEnd
<1>34. ASSUME NEW m \in Modules, Process(m) PROVE QueueTypeOK'
  <2>1. ASSUME NEW r \in Seq(Part) PROVE Append(r, "LEAVE") \in Seq(Kind)
    BY DEF Kind
  <2>2. Replies \subseteq Seq(Part)
    BY ConstantsAssumption
  <2>3. <<"MESSAGE">> \in Seq(Part)
    BY DEF Part
  <2> QED
    BY <1>34, <2>1, <2>2, <2>3 DEF Process, queueVars
<1>35. ASSUME NEW m \in Modules, ResetRead(m) PROVE QueueTypeOK'
  BY <1>35 DEF ResetRead
<1>36. ASSUME NEW m \in Modules, RaiseWrite(m) PROVE QueueTypeOK'
  BY <1>36 DEF RaiseWrite
<1>37. CASE UNCHANGED vars  BY <1>37
<1> QED
  BY <1>1, <1>2, <1>3, <1>4, <1>5, <1>6, <1>7, <1>8, <1>9, <1>10, <1>11,
     <1>12, <1>13, <1>14, <1>15, <1>16, <1>17, <1>18, <1>19, <1>20, <1>21,
     <1>22, <1>23, <1>24, <1>25, <1>26, <1>27, <1>28, <1>29, <1>30, <1>31,
     <1>32, <1>33, <1>34, <1>35, <1>36, <1>37
  DEF Next, MainStep, Startup, KeyScan, Drain, Shutdown, User, Thread, Plugin

\* CmdMax is at least one: a push leaves the queue non-empty.
LEMMA PushedLength ==
  ASSUME NEW S, NEW q \in Seq(S), NEW k
  PROVE  /\ Pushed(q, k) # <<>>
         /\ Len(q) = 0 => Len(Pushed(q, k)) = 1
BY ConstantsAssumption DEF Pushed

\* The main thread visits entries of the list only.
LEMMA MainPlaceStep == IInv /\ [Next]_vars => MainPlace'
<1> SUFFICES ASSUME IInv, [Next]_vars PROVE MainPlace'
  OBVIOUS
<1> USE ConstantsAssumption DEF IInv, TypeOK, Modules, MainTypeOK, ThreadTypeOK, MainPlace,
       At, vars, mainVars, listVars, threadVars, eventVars, queueVars
<1>1. CASE Insert  BY <1>1 DEF Insert
<1>2. CASE InitBegin  BY <1>2 DEF InitBegin
<1>3. CASE InitStart  BY <1>3 DEF InitStart
<1>4. CASE InitNext  BY <1>4 DEF InitNext
<1>5. CASE InitQuit  BY <1>5 DEF InitQuit
<1>6. CASE InitEnd  BY <1>6 DEF InitEnd
<1>7. CASE KeyDown  BY <1>7 DEF KeyDown
<1>8. CASE ScanSkip  BY <1>8 DEF ScanSkip
<1>9. CASE ScanEnd  BY <1>9 DEF ScanEnd
<1>10. CASE ScanFound  BY <1>10 DEF ScanFound
<1>11. CASE PutAsyncMessage  BY <1>11 DEF PutAsyncMessage
<1>12. CASE NoteSignal  BY <1>12 DEF NoteSignal
<1>13. CASE SetInputCmd  BY <1>13 DEF SetInputCmd
<1>14. CASE ExecuteCommand  BY <1>14 DEF ExecuteCommand
<1>15. CASE DrainBegin  BY <1>15 DEF DrainBegin
<1>16. CASE ReadOutputCmd  BY <1>16 DEF ReadOutputCmd
<1>17. CASE DrainNext  BY <1>17 DEF DrainNext
<1>18. CASE DrainCut  BY <1>18 DEF DrainCut
<1>19. CASE DrainEnd  BY <1>19 DEF DrainEnd
<1>20. CASE Quit  BY <1>20 DEF Quit
<1>21. CASE FreeBegin  BY <1>21 DEF FreeBegin
<1>22. CASE Joined  BY <1>22 DEF Joined
<1>23. CASE Terminate  BY <1>23 DEF Terminate
<1>24. CASE Destroy  BY <1>24 DEF Destroy
<1>25. CASE ClearEnd  BY <1>25 DEF ClearEnd
<1>26. ASSUME NEW m \in Modules, ThreadStart(m) PROVE MainPlace'
  BY <1>26 DEF ThreadStart
<1>27. ASSUME NEW m \in Modules, Opened(m) PROVE MainPlace'
  BY <1>27 DEF Opened
<1>28. ASSUME NEW m \in Modules, OpenFailed(m) PROVE MainPlace'
  BY <1>28 DEF OpenFailed
<1>29. ASSUME NEW m \in Modules, ThreadExit(m) PROVE MainPlace'
  BY <1>29 DEF ThreadExit
<1>30. ASSUME NEW m \in Modules, PopBegin(m) PROVE MainPlace'
  BY <1>30 DEF PopBegin
<1>31. ASSUME NEW m \in Modules, PopEnd(m) PROVE MainPlace'
  BY <1>31 DEF PopEnd
<1>32. ASSUME NEW m \in Modules, PushBegin(m) PROVE MainPlace'
  BY <1>32 DEF PushBegin
<1>33. ASSUME NEW m \in Modules, PushEnd(m) PROVE MainPlace'
  BY <1>33 DEF PushEnd
<1>34. ASSUME NEW m \in Modules, Process(m) PROVE MainPlace'
  BY <1>34 DEF Process
<1>35. ASSUME NEW m \in Modules, ResetRead(m) PROVE MainPlace'
  BY <1>35 DEF ResetRead
<1>36. ASSUME NEW m \in Modules, RaiseWrite(m) PROVE MainPlace'
  BY <1>36 DEF RaiseWrite
<1>37. CASE UNCHANGED vars  BY <1>37
<1> QED
  BY <1>1, <1>2, <1>3, <1>4, <1>5, <1>6, <1>7, <1>8, <1>9, <1>10, <1>11,
     <1>12, <1>13, <1>14, <1>15, <1>16, <1>17, <1>18, <1>19, <1>20, <1>21,
     <1>22, <1>23, <1>24, <1>25, <1>26, <1>27, <1>28, <1>29, <1>30, <1>31,
     <1>32, <1>33, <1>34, <1>35, <1>36, <1>37
  DEF Next, MainStep, Startup, KeyScan, Drain, Shutdown, User, Thread, Plugin

\* Only the main thread sets hRead, so a module it found free stays free.
LEMMA ScanPlaceStep == IInv /\ [Next]_vars => ScanPlace'
<1> SUFFICES ASSUME IInv, [Next]_vars PROVE ScanPlace'
  OBVIOUS
<1> USE ConstantsAssumption DEF IInv, TypeOK, Modules, MainTypeOK, ThreadTypeOK, MainPlace, ScanPlace,
       At, vars, mainVars, listVars, threadVars, eventVars, queueVars
<1>1. CASE Insert  BY <1>1 DEF Insert
<1>2. CASE InitBegin  BY <1>2 DEF InitBegin
<1>3. CASE InitStart  BY <1>3 DEF InitStart
<1>4. CASE InitNext  BY <1>4 DEF InitNext
<1>5. CASE InitQuit  BY <1>5 DEF InitQuit
<1>6. CASE InitEnd  BY <1>6 DEF InitEnd
<1>7. CASE KeyDown  BY <1>7 DEF KeyDown
<1>8. CASE ScanSkip  BY <1>8 DEF ScanSkip
<1>9. CASE ScanEnd  BY <1>9 DEF ScanEnd
<1>10. CASE ScanFound  BY <1>10 DEF ScanFound
<1>11. CASE PutAsyncMessage  BY <1>11 DEF PutAsyncMessage
<1>12. CASE NoteSignal  BY <1>12 DEF NoteSignal
<1>13. CASE SetInputCmd  BY <1>13 DEF SetInputCmd
<1>14. CASE ExecuteCommand  BY <1>14 DEF ExecuteCommand
<1>15. CASE DrainBegin  BY <1>15 DEF DrainBegin
<1>16. CASE ReadOutputCmd  BY <1>16 DEF ReadOutputCmd
<1>17. CASE DrainNext  BY <1>17 DEF DrainNext
<1>18. CASE DrainCut  BY <1>18 DEF DrainCut
<1>19. CASE DrainEnd  BY <1>19 DEF DrainEnd
<1>20. CASE Quit  BY <1>20 DEF Quit
<1>21. CASE FreeBegin  BY <1>21 DEF FreeBegin
<1>22. CASE Joined  BY <1>22 DEF Joined
<1>23. CASE Terminate  BY <1>23 DEF Terminate
<1>24. CASE Destroy  BY <1>24 DEF Destroy
<1>25. CASE ClearEnd  BY <1>25 DEF ClearEnd
<1>26. ASSUME NEW m \in Modules, ThreadStart(m) PROVE ScanPlace'
  BY <1>26 DEF ThreadStart
<1>27. ASSUME NEW m \in Modules, Opened(m) PROVE ScanPlace'
  BY <1>27 DEF Opened
<1>28. ASSUME NEW m \in Modules, OpenFailed(m) PROVE ScanPlace'
  BY <1>28 DEF OpenFailed
<1>29. ASSUME NEW m \in Modules, ThreadExit(m) PROVE ScanPlace'
  BY <1>29 DEF ThreadExit
<1>30. ASSUME NEW m \in Modules, PopBegin(m) PROVE ScanPlace'
  BY <1>30 DEF PopBegin
<1>31. ASSUME NEW m \in Modules, PopEnd(m) PROVE ScanPlace'
  BY <1>31 DEF PopEnd
<1>32. ASSUME NEW m \in Modules, PushBegin(m) PROVE ScanPlace'
  BY <1>32 DEF PushBegin
<1>33. ASSUME NEW m \in Modules, PushEnd(m) PROVE ScanPlace'
  BY <1>33 DEF PushEnd
<1>34. ASSUME NEW m \in Modules, Process(m) PROVE ScanPlace'
  BY <1>34 DEF Process
<1>35. ASSUME NEW m \in Modules, ResetRead(m) PROVE ScanPlace'
  BY <1>35 DEF ResetRead
<1>36. ASSUME NEW m \in Modules, RaiseWrite(m) PROVE ScanPlace'
  BY <1>36 DEF RaiseWrite
<1>37. CASE UNCHANGED vars  BY <1>37
<1> QED
  BY <1>1, <1>2, <1>3, <1>4, <1>5, <1>6, <1>7, <1>8, <1>9, <1>10, <1>11,
     <1>12, <1>13, <1>14, <1>15, <1>16, <1>17, <1>18, <1>19, <1>20, <1>21,
     <1>22, <1>23, <1>24, <1>25, <1>26, <1>27, <1>28, <1>29, <1>30, <1>31,
     <1>32, <1>33, <1>34, <1>35, <1>36, <1>37
  DEF Next, MainStep, Startup, KeyScan, Drain, Shutdown, User, Thread, Plugin

\* Where threads and their locks can be.
LEMMA ThreadPlaceStep == IInv /\ [Next]_vars => ThreadPlace'
<1> SUFFICES ASSUME IInv, [Next]_vars PROVE ThreadPlace'
  OBVIOUS
<1> USE ConstantsAssumption DEF IInv, TypeOK, Modules, MainTypeOK, ThreadTypeOK, MainPlace, ThreadPlace, QueueTypeOK,
       At, vars, mainVars, listVars, threadVars, eventVars, queueVars
<1>1. CASE Insert
  <2>1. CASE UNCHANGED <<listVars, thr>>
    BY <1>1, <2>1 DEF Insert, listVars, queueVars
  <2>2. CASE listed' = listed + 1 /\ thr' = [thr EXCEPT ![listed + 1] = "waitStart"]
    <3>1. listed < cur /\ cur <= N
      BY <1>1 DEF Insert
    <3>2. listed + 1 \in Modules
      BY <3>1, NextListed
    <3>3. thr[listed + 1] = "absent"
      BY <3>2 DEF ThreadPlace
    <3>4. UNCHANGED <<main, outq, outLock, todo, freed>> /\ main = "load"
      BY <1>1 DEF Insert, queueVars
    <3>5. ASSUME NEW m \in Modules PROVE thr'[m] = "absent" <=> listed' < m
      <4>1. thr'[m] = IF m = listed + 1 THEN "waitStart" ELSE thr[m]
        BY <2>2
      <4>2. listed \in Nat /\ m \in Nat /\ listed' = listed + 1
        BY <2>2
      <4>3. thr[m] = "absent" <=> listed < m
        BY DEF ThreadPlace
      <4>4. listed + 1 < m <=> listed < m /\ m # listed + 1
        BY <4>2
      <4> QED
        BY <4>1, <4>2, <4>3, <4>4, Zenon
    <3>6. \A m \in Modules : thr'[m] = "absent" => outq[m] = <<>>
      BY <2>2, <3>2
    <3> QED
      BY <2>2, <3>2, <3>3, <3>4, <3>5, <3>6
  <2> QED
    BY <1>1, <2>1, <2>2 DEF Insert
<1>2. CASE InitBegin  BY <1>2 DEF InitBegin
<1>3. CASE InitStart  BY <1>3 DEF InitStart
<1>4. CASE InitNext  BY <1>4 DEF InitNext
<1>5. CASE InitQuit  BY <1>5 DEF InitQuit
<1>6. CASE InitEnd  BY <1>6 DEF InitEnd
<1>7. CASE KeyDown  BY <1>7 DEF KeyDown
<1>8. CASE ScanSkip  BY <1>8 DEF ScanSkip
<1>9. CASE ScanEnd  BY <1>9 DEF ScanEnd
<1>10. CASE ScanFound  BY <1>10 DEF ScanFound
<1>11. CASE PutAsyncMessage  BY <1>11 DEF PutAsyncMessage
<1>12. CASE NoteSignal  BY <1>12 DEF NoteSignal
<1>13. CASE SetInputCmd  BY <1>13 DEF SetInputCmd
<1>14. CASE ExecuteCommand  BY <1>14 DEF ExecuteCommand
<1>15. CASE DrainBegin  BY <1>15 DEF DrainBegin
<1>16. CASE ReadOutputCmd  BY <1>16 DEF ReadOutputCmd
<1>17. CASE DrainNext  BY <1>17 DEF DrainNext
<1>18. CASE DrainCut  BY <1>18 DEF DrainCut
<1>19. CASE DrainEnd  BY <1>19 DEF DrainEnd
<1>20. CASE Quit  BY <1>20 DEF Quit
<1>21. CASE FreeBegin  BY <1>21 DEF FreeBegin
<1>22. CASE Joined  BY <1>22 DEF Joined
<1>23. CASE Terminate
  <2>1. cur \in Modules /\ thr[cur] # "absent"
    BY <1>23 DEF Terminate
  <2> QED
    BY <1>23, <2>1 DEF Terminate, listVars, queueVars
<1>24. CASE Destroy  BY <1>24 DEF Destroy
<1>25. CASE ClearEnd  BY <1>25 DEF ClearEnd
<1>26. ASSUME NEW m \in Modules, ThreadStart(m) PROVE ThreadPlace'
  BY <1>26 DEF ThreadStart
<1>27. ASSUME NEW m \in Modules, Opened(m) PROVE ThreadPlace'
  BY <1>27 DEF Opened
<1>28. ASSUME NEW m \in Modules, OpenFailed(m) PROVE ThreadPlace'
  BY <1>28 DEF OpenFailed
<1>29. ASSUME NEW m \in Modules, ThreadExit(m) PROVE ThreadPlace'
  BY <1>29 DEF ThreadExit
<1>30. ASSUME NEW m \in Modules, PopBegin(m) PROVE ThreadPlace'
  <2>1. thr[m] = "wait" /\ ~outLock[m]
    BY <1>30 DEF PopBegin, At
  <2>2. UNCHANGED <<main, cur, listed, outq, todo, freed, outLock>>
    BY <1>30 DEF PopBegin, mainVars, listVars
  <2>3. \A n \in Modules : thr'[n] = IF n = m THEN thr'[m] ELSE thr[n]
    BY <1>30 DEF PopBegin
  <2>4. thr'[m] \in {"pop", "answer"}
    BY <1>30 DEF PopBegin
  <2> QED
    BY <2>1, <2>2, <2>3, <2>4
<1>31. ASSUME NEW m \in Modules, PopEnd(m) PROVE ThreadPlace'
  BY <1>31 DEF PopEnd
<1>32. ASSUME NEW m \in Modules, PushBegin(m) PROVE ThreadPlace'
  BY <1>32 DEF PushBegin
<1>33. ASSUME NEW m \in Modules, PushEnd(m) PROVE ThreadPlace'
  BY <1>33 DEF PushEnd
<1>34. ASSUME NEW m \in Modules, Process(m) PROVE ThreadPlace'
  BY <1>34 DEF Process
<1>35. ASSUME NEW m \in Modules, ResetRead(m) PROVE ThreadPlace'
  BY <1>35 DEF ResetRead
<1>36. ASSUME NEW m \in Modules, RaiseWrite(m) PROVE ThreadPlace'
  BY <1>36 DEF RaiseWrite
<1>37. CASE UNCHANGED vars  BY <1>37
<1> QED
  BY <1>1, <1>2, <1>3, <1>4, <1>5, <1>6, <1>7, <1>8, <1>9, <1>10, <1>11,
     <1>12, <1>13, <1>14, <1>15, <1>16, <1>17, <1>18, <1>19, <1>20, <1>21,
     <1>22, <1>23, <1>24, <1>25, <1>26, <1>27, <1>28, <1>29, <1>30, <1>31,
     <1>32, <1>33, <1>34, <1>35, <1>36, <1>37
  DEF Next, MainStep, Startup, KeyScan, Drain, Shutdown, User, Thread, Plugin

\* A module is deleted only behind its thread.
LEMMA FreedStep == IInv /\ [Next]_vars => FreedIsQuiet'
<1> SUFFICES ASSUME IInv, [Next]_vars PROVE FreedIsQuiet'
  OBVIOUS
<1> USE ConstantsAssumption DEF IInv, TypeOK, Modules, MainTypeOK, ThreadTypeOK, MainPlace, ThreadPlace, FreedIsQuiet,
       At, vars, mainVars, listVars, threadVars, eventVars, queueVars
<1>1. CASE Insert  BY <1>1 DEF Insert
<1>2. CASE InitBegin  BY <1>2 DEF InitBegin
<1>3. CASE InitStart  BY <1>3 DEF InitStart
<1>4. CASE InitNext  BY <1>4 DEF InitNext
<1>5. CASE InitQuit  BY <1>5 DEF InitQuit
<1>6. CASE InitEnd  BY <1>6 DEF InitEnd
<1>7. CASE KeyDown  BY <1>7 DEF KeyDown
<1>8. CASE ScanSkip  BY <1>8 DEF ScanSkip
<1>9. CASE ScanEnd  BY <1>9 DEF ScanEnd
<1>10. CASE ScanFound  BY <1>10 DEF ScanFound
<1>11. CASE PutAsyncMessage  BY <1>11 DEF PutAsyncMessage
<1>12. CASE NoteSignal  BY <1>12 DEF NoteSignal
<1>13. CASE SetInputCmd  BY <1>13 DEF SetInputCmd
<1>14. CASE ExecuteCommand  BY <1>14 DEF ExecuteCommand
<1>15. CASE DrainBegin  BY <1>15 DEF DrainBegin
<1>16. CASE ReadOutputCmd  BY <1>16 DEF ReadOutputCmd
<1>17. CASE DrainNext  BY <1>17 DEF DrainNext
<1>18. CASE DrainCut  BY <1>18 DEF DrainCut
<1>19. CASE DrainEnd  BY <1>19 DEF DrainEnd
<1>20. CASE Quit  BY <1>20 DEF Quit
<1>21. CASE FreeBegin  BY <1>21 DEF FreeBegin
<1>22. CASE Joined  BY <1>22 DEF Joined
<1>23. CASE Terminate  BY <1>23 DEF Terminate
<1>24. CASE Destroy  BY <1>24 DEF Destroy
<1>25. CASE ClearEnd  BY <1>25 DEF ClearEnd
<1>26. ASSUME NEW m \in Modules, ThreadStart(m) PROVE FreedIsQuiet'
  BY <1>26 DEF ThreadStart
<1>27. ASSUME NEW m \in Modules, Opened(m) PROVE FreedIsQuiet'
  BY <1>27 DEF Opened
<1>28. ASSUME NEW m \in Modules, OpenFailed(m) PROVE FreedIsQuiet'
  BY <1>28 DEF OpenFailed
<1>29. ASSUME NEW m \in Modules, ThreadExit(m) PROVE FreedIsQuiet'
  BY <1>29 DEF ThreadExit
<1>30. ASSUME NEW m \in Modules, PopBegin(m) PROVE FreedIsQuiet'
  BY <1>30 DEF PopBegin
<1>31. ASSUME NEW m \in Modules, PopEnd(m) PROVE FreedIsQuiet'
  BY <1>31 DEF PopEnd
<1>32. ASSUME NEW m \in Modules, PushBegin(m) PROVE FreedIsQuiet'
  BY <1>32 DEF PushBegin
<1>33. ASSUME NEW m \in Modules, PushEnd(m) PROVE FreedIsQuiet'
  BY <1>33 DEF PushEnd
<1>34. ASSUME NEW m \in Modules, Process(m) PROVE FreedIsQuiet'
  BY <1>34 DEF Process
<1>35. ASSUME NEW m \in Modules, ResetRead(m) PROVE FreedIsQuiet'
  BY <1>35 DEF ResetRead
<1>36. ASSUME NEW m \in Modules, RaiseWrite(m) PROVE FreedIsQuiet'
  BY <1>36 DEF RaiseWrite
<1>37. CASE UNCHANGED vars  BY <1>37
<1> QED
  BY <1>1, <1>2, <1>3, <1>4, <1>5, <1>6, <1>7, <1>8, <1>9, <1>10, <1>11,
     <1>12, <1>13, <1>14, <1>15, <1>16, <1>17, <1>18, <1>19, <1>20, <1>21,
     <1>22, <1>23, <1>24, <1>25, <1>26, <1>27, <1>28, <1>29, <1>30, <1>31,
     <1>32, <1>33, <1>34, <1>35, <1>36, <1>37
  DEF Next, MainStep, Startup, KeyScan, Drain, Shutdown, User, Thread, Plugin

\* hRead is a token for the one command of the module.
LEMMA HandshakeStep == IInv /\ [Next]_vars => CommandHandshake'
<1> SUFFICES ASSUME IInv, [Next]_vars PROVE CommandHandshake'
  OBVIOUS
<1> USE ConstantsAssumption DEF IInv, TypeOK, Modules, MainTypeOK, ThreadTypeOK, MainPlace, ScanPlace, ThreadPlace, FreedIsQuiet, CommandHandshake, Executing, QueueTypeOK,
       At, vars, mainVars, listVars, threadVars, eventVars, queueVars
<1>1. CASE Insert
  <2>1. CASE UNCHANGED <<listVars, thr>>
    BY <1>1, <2>1 DEF Insert, listVars, queueVars, mainVars, eventVars
  <2>2. CASE listed' = listed + 1 /\ thr' = [thr EXCEPT ![listed + 1] = "waitStart"]
    <3>1. listed < cur /\ cur <= N
      BY <1>1 DEF Insert
    <3>2. listed + 1 \in Modules
      BY <3>1, NextListed
    <3>3. thr[listed + 1] = "absent"
      BY <3>2 DEF ThreadPlace
    <3> QED
      BY <1>1, <2>2, <3>2, <3>3 DEF Insert, queueVars, mainVars, eventVars
  <2> QED
    BY <1>1, <2>1, <2>2 DEF Insert
<1>2. CASE InitBegin  BY <1>2 DEF InitBegin
<1>3. CASE InitStart  BY <1>3 DEF InitStart
<1>4. CASE InitNext  BY <1>4 DEF InitNext
<1>5. CASE InitQuit  BY <1>5 DEF InitQuit
<1>6. CASE InitEnd  BY <1>6 DEF InitEnd
<1>7. CASE KeyDown  BY <1>7 DEF KeyDown
<1>8. CASE ScanSkip  BY <1>8 DEF ScanSkip
<1>9. CASE ScanEnd  BY <1>9 DEF ScanEnd
<1>10. CASE ScanFound  BY <1>10 DEF ScanFound
<1>11. CASE PutAsyncMessage  BY <1>11 DEF PutAsyncMessage
<1>12. CASE NoteSignal  BY <1>12 DEF NoteSignal
<1>13. CASE SetInputCmd
  <2>1. cur \in Modules /\ Len(inq[cur]) = 0 /\ inq[cur] \in Seq({"PARSECMD"})
    BY <1>13 DEF SetInputCmd
  <2>2. Len(Pushed(inq[cur], "PARSECMD")) = 1
    BY <2>1, PushedLength
  <2> QED
    BY <1>13, <2>1, <2>2 DEF SetInputCmd, threadVars, eventVars
<1>14. CASE ExecuteCommand  BY <1>14 DEF ExecuteCommand
<1>15. CASE DrainBegin  BY <1>15 DEF DrainBegin
<1>16. CASE ReadOutputCmd  BY <1>16 DEF ReadOutputCmd
<1>17. CASE DrainNext  BY <1>17 DEF DrainNext
<1>18. CASE DrainCut  BY <1>18 DEF DrainCut
<1>19. CASE DrainEnd  BY <1>19 DEF DrainEnd
<1>20. CASE Quit  BY <1>20 DEF Quit
<1>21. CASE FreeBegin  BY <1>21 DEF FreeBegin
<1>22. CASE Joined  BY <1>22 DEF Joined
<1>23. CASE Terminate  BY <1>23 DEF Terminate
<1>24. CASE Destroy  BY <1>24 DEF Destroy
<1>25. CASE ClearEnd  BY <1>25 DEF ClearEnd
<1>26. ASSUME NEW m \in Modules, ThreadStart(m) PROVE CommandHandshake'
  BY <1>26 DEF ThreadStart
<1>27. ASSUME NEW m \in Modules, Opened(m) PROVE CommandHandshake'
  BY <1>27 DEF Opened
<1>28. ASSUME NEW m \in Modules, OpenFailed(m) PROVE CommandHandshake'
  BY <1>28 DEF OpenFailed
<1>29. ASSUME NEW m \in Modules, ThreadExit(m) PROVE CommandHandshake'
  BY <1>29 DEF ThreadExit
<1>30. ASSUME NEW m \in Modules, PopBegin(m) PROVE CommandHandshake'
  <2>1. thr[m] = "wait" /\ hRead[m] /\ ~inLock[m] /\ Len(inq[m]) = 1
    BY <1>30 DEF PopBegin, At
  <2>2. inq[m] # <<>>
    BY <2>1, SingleCommand
  <2>3. thr' = [thr EXCEPT ![m] = "pop"] /\ inLock' = [inLock EXCEPT ![m] = TRUE]
    BY <1>30, <2>1, <2>2 DEF PopBegin
  <2> QED
    BY <1>30, <2>1, <2>3 DEF PopBegin, mainVars, eventVars
<1>31. ASSUME NEW m \in Modules, PopEnd(m) PROVE CommandHandshake'
  <2>1. thr[m] = "pop" /\ hRead[m] /\ ~(main = "signal" /\ cur = m)
    BY <1>31 DEF PopEnd, At
  <2>2. Len(inq[m]) = 1 /\ inq[m] \in Seq({"PARSECMD"})
    BY <2>1
  <2>3. Len(Tail(inq[m])) = 0
    BY <2>2
  <2> QED
    BY <1>31, <2>1, <2>3 DEF PopEnd, mainVars, eventVars
<1>32. ASSUME NEW m \in Modules, PushBegin(m) PROVE CommandHandshake'
  BY <1>32 DEF PushBegin
<1>33. ASSUME NEW m \in Modules, PushEnd(m) PROVE CommandHandshake'
  BY <1>33 DEF PushEnd
<1>34. ASSUME NEW m \in Modules, Process(m) PROVE CommandHandshake'
  BY <1>34 DEF Process
<1>35. ASSUME NEW m \in Modules, ResetRead(m) PROVE CommandHandshake'
  BY <1>35 DEF ResetRead
<1>36. ASSUME NEW m \in Modules, RaiseWrite(m) PROVE CommandHandshake'
  BY <1>36 DEF RaiseWrite
<1>37. CASE UNCHANGED vars  BY <1>37
<1> QED
  BY <1>1, <1>2, <1>3, <1>4, <1>5, <1>6, <1>7, <1>8, <1>9, <1>10, <1>11,
     <1>12, <1>13, <1>14, <1>15, <1>16, <1>17, <1>18, <1>19, <1>20, <1>21,
     <1>22, <1>23, <1>24, <1>25, <1>26, <1>27, <1>28, <1>29, <1>30, <1>31,
     <1>32, <1>33, <1>34, <1>35, <1>36, <1>37
  DEF Next, MainStep, Startup, KeyScan, Drain, Shutdown, User, Thread, Plugin

\* Modules are numbered.
LEMMA IndexIsNat == \A m \in Modules : m \in Nat
  BY ConstantsAssumption DEF Modules

\* An index not reached yet is at least the next one.
LEMMA NextIndex ==
  ASSUME NEW a \in Nat, NEW b \in Nat, a # b
  PROVE  a <= b => a + 1 <= b
  OBVIOUS

\* Whoever adds to an output queue, or leaves entries in it, sees to hWrite.
LEMMA StrandedStep == IInv /\ [Next]_vars => NoStrandedOutput'
<1> SUFFICES ASSUME IInv, [Next]_vars PROVE NoStrandedOutput'
  OBVIOUS
<1> USE ConstantsAssumption DEF IInv, TypeOK, Modules, MainTypeOK, ThreadTypeOK, MainPlace, ThreadPlace, NoStrandedOutput, Closing, QueueTypeOK,
       At, vars, mainVars, listVars, threadVars, eventVars, queueVars
<1>1. CASE Insert
  <2>1. CASE UNCHANGED <<listVars, thr>>
    BY <1>1, <2>1 DEF Insert, listVars, queueVars
  <2>2. CASE listed' = listed + 1 /\ thr' = [thr EXCEPT ![listed + 1] = "waitStart"]
    <3>1. listed < cur /\ cur <= N
      BY <1>1 DEF Insert
    <3>2. listed + 1 \in Modules
      BY <3>1, NextListed
    <3>3. thr[listed + 1] = "absent"
      BY <3>2 DEF ThreadPlace
    <3> QED
      BY <1>1, <2>2, <3>2, <3>3 DEF Insert, queueVars
  <2> QED
    BY <1>1, <2>1, <2>2 DEF Insert
<1>2. CASE InitBegin  BY <1>2 DEF InitBegin
<1>3. CASE InitStart  BY <1>3 DEF InitStart
<1>4. CASE InitNext  BY <1>4 DEF InitNext
<1>5. CASE InitQuit  BY <1>5 DEF InitQuit
<1>6. CASE InitEnd  BY <1>6 DEF InitEnd
<1>7. CASE KeyDown  BY <1>7 DEF KeyDown
<1>8. CASE ScanSkip  BY <1>8 DEF ScanSkip
<1>9. CASE ScanEnd  BY <1>9 DEF ScanEnd
<1>10. CASE ScanFound  BY <1>10 DEF ScanFound
<1>11. CASE PutAsyncMessage  BY <1>11 DEF PutAsyncMessage
<1>12. CASE NoteSignal  BY <1>12 DEF NoteSignal
<1>13. CASE SetInputCmd  BY <1>13 DEF SetInputCmd
<1>14. CASE ExecuteCommand  BY <1>14 DEF ExecuteCommand
<1>15. CASE DrainBegin  BY <1>15 DEF DrainBegin
<1>16. CASE ReadOutputCmd  BY <1>16 DEF ReadOutputCmd
<1>17. CASE DrainNext
  <2>1. cur \in Modules /\ main = "drain"
    BY <1>17 DEF DrainNext
  <2>2. outLock[cur] => thr[cur] \in {"enter", "answer"}
    BY <2>1
  <2>3. outq[cur] # <<>> => thr[cur] \in {"enter", "answer"}
    BY <1>17, <2>2 DEF DrainNext
  <2>4. /\ main' = "drain" /\ cur' = cur + 1
        /\ UNCHANGED <<hWrite, cut, outq, thr>>
    BY <1>17 DEF DrainNext
  <2>5. SUFFICES ASSUME NEW m \in Modules, outq[m] # <<>>
                 PROVE  \/ hWrite \/ cut \/ cur + 1 <= m
                        \/ thr[m] \in {"enter", "answer", "raise"}
    BY <2>4
  <2>6. CASE m = cur
    BY <2>3, <2>5, <2>6
  <2>7. CASE m # cur
    <3>1. \/ hWrite \/ cut \/ cur <= m
          \/ thr[m] \in {"enter", "answer", "raise"}
      BY <2>1, <2>5, Zenon
    <3>2. cur \in Nat /\ m \in Nat
      BY <2>1, IndexIsNat, Zenon
    <3>3. cur <= m => cur + 1 <= m
      BY <2>7, <3>2, NextIndex, Zenon
    <3> QED
      BY <3>1, <3>3, Zenon
  <2> QED
    BY <2>6, <2>7
<1>18. CASE DrainCut  BY <1>18 DEF DrainCut
<1>19. CASE DrainEnd  BY <1>19 DEF DrainEnd
<1>20. CASE Quit  BY <1>20 DEF Quit
<1>21. CASE FreeBegin  BY <1>21 DEF FreeBegin
<1>22. CASE Joined  BY <1>22 DEF Joined
<1>23. CASE Terminate  BY <1>23 DEF Terminate
<1>24. CASE Destroy  BY <1>24 DEF Destroy
<1>25. CASE ClearEnd  BY <1>25 DEF ClearEnd
<1>26. ASSUME NEW m \in Modules, ThreadStart(m) PROVE NoStrandedOutput'
  BY <1>26 DEF ThreadStart
<1>27. ASSUME NEW m \in Modules, Opened(m) PROVE NoStrandedOutput'
  BY <1>27 DEF Opened
<1>28. ASSUME NEW m \in Modules, OpenFailed(m) PROVE NoStrandedOutput'
  BY <1>28 DEF OpenFailed
<1>29. ASSUME NEW m \in Modules, ThreadExit(m) PROVE NoStrandedOutput'
  BY <1>29 DEF ThreadExit
<1>30. ASSUME NEW m \in Modules, PopBegin(m) PROVE NoStrandedOutput'
  BY <1>30 DEF PopBegin
<1>31. ASSUME NEW m \in Modules, PopEnd(m) PROVE NoStrandedOutput'
  BY <1>31 DEF PopEnd
<1>32. ASSUME NEW m \in Modules, PushBegin(m) PROVE NoStrandedOutput'
  BY <1>32 DEF PushBegin
<1>33. ASSUME NEW m \in Modules, PushEnd(m) PROVE NoStrandedOutput'
  BY <1>33 DEF PushEnd
<1>34. ASSUME NEW m \in Modules, Process(m) PROVE NoStrandedOutput'
  BY <1>34 DEF Process
<1>35. ASSUME NEW m \in Modules, ResetRead(m) PROVE NoStrandedOutput'
  BY <1>35 DEF ResetRead
<1>36. ASSUME NEW m \in Modules, RaiseWrite(m) PROVE NoStrandedOutput'
  BY <1>36 DEF RaiseWrite
<1>37. CASE UNCHANGED vars  BY <1>37
<1> QED
  BY <1>1, <1>2, <1>3, <1>4, <1>5, <1>6, <1>7, <1>8, <1>9, <1>10, <1>11,
     <1>12, <1>13, <1>14, <1>15, <1>16, <1>17, <1>18, <1>19, <1>20, <1>21,
     <1>22, <1>23, <1>24, <1>25, <1>26, <1>27, <1>28, <1>29, <1>30, <1>31,
     <1>32, <1>33, <1>34, <1>35, <1>36, <1>37
  DEF Next, MainStep, Startup, KeyScan, Drain, Shutdown, User, Thread, Plugin

-----------------------------------------------------------------------------
\* The invariant holds at the start ...
LEMMA InitInv == Init => IInv
<1> SUFFICES ASSUME Init PROVE IInv
  OBVIOUS
<1> USE ConstantsAssumption DEF Init
<1>1. MainTypeOK
  <2>1. 1 \in 1..(N + 1) /\ 0 \in 0..DrainMax /\ 0 \in 0..MaxPresses /\ 0 \in 0..N
    OBVIOUS
  <2>2. 0 <= MaxModules
    OBVIOUS
  <2> QED
    BY <2>1, <2>2, Zenon DEF MainTypeOK
<1>5. ThreadTypeOK
  BY DEF ThreadTypeOK
<1>2. QueueTypeOK
  BY DEF QueueTypeOK
<1>3. MainPlace /\ ScanPlace /\ ThreadPlace
  BY DEF MainPlace, ScanPlace, ThreadPlace, Modules
<1>4. CommandHandshake /\ NoStrandedOutput /\ FreedIsQuiet
  BY DEF CommandHandshake, NoStrandedOutput, FreedIsQuiet, Executing
<1> QED
  BY <1>1, <1>2, <1>3, <1>4, <1>5 DEF IInv, TypeOK

\* ... and every step keeps it.
LEMMA StepInv == IInv /\ [Next]_vars => IInv'
BY MainTypeStep, ThreadTypeStep, QueueTypeStep, MainPlaceStep, ScanPlaceStep,
   ThreadPlaceStep, FreedStep, HandshakeStep, StrandedStep DEF IInv, TypeOK

\* The inductive invariant holds in every reachable state.
THEOREM Invariance == Spec => []IInv
BY InitInv, StepInv, PTL DEF Spec

\* The queues never exceed their capacity, and no other variable leaves its
\* type, for any number of modules and any plugin.
THEOREM TypeCorrect == Spec => []TypeOK
<1>1. IInv => TypeOK
  BY DEF IInv
<1> QED
  BY <1>1, Invariance, PTL

\* A command is never lost, run twice, or found missing by the thread that
\* hRead woke.
THEOREM HandshakeCorrect == Spec => []CommandHandshake
<1>1. IInv => CommandHandshake
  BY DEF IInv
<1> QED
  BY <1>1, Invariance, PTL

\* Output is left behind only by ExecuteModule's own limit.
THEOREM OutputCorrect == Spec => []NoStrandedOutput
<1>1. IInv => NoStrandedOutput
  BY DEF IInv
<1> QED
  BY <1>1, Invariance, PTL

\* No plugin thread runs in a deleted module.
THEOREM FreeCorrect == Spec => []FreedIsQuiet
<1>1. IInv => FreedIsQuiet
  BY DEF IInv
<1> QED
  BY <1>1, Invariance, PTL

-----------------------------------------------------------------------------
(* ModuleBase implements ModuleService.                                    *)

\* What a thread has left to push: the announcement of the command, or the
\* rest of its answer, of which LEAVE is the last entry and the only one that
\* is not a part.
TodoShape ==
  \A m \in Modules :
    /\ thr[m] = "enter" => todo[m] \in {<<>>, <<"ENTER">>}
    /\ thr[m] = "answer" /\ todo[m] # <<>> =>
         /\ todo[m][Len(todo[m])] = "LEAVE"
         /\ \A i \in 1..(Len(todo[m]) - 1) : todo[m][i] \in Part

\* The steps in which no module says anything or changes its place in serving.
QuietStep ==
  \/ InitBegin \/ InitStart \/ InitNext \/ InitEnd \/ InitQuit
  \/ KeyDown \/ Quit \/ ScanSkip \/ ScanEnd \/ ScanFound
  \/ NoteSignal \/ SetInputCmd
  \/ DrainBegin \/ DrainNext \/ DrainCut \/ DrainEnd
  \/ FreeBegin \/ Joined \/ ClearEnd
  \/ \E m \in Modules : PushBegin(m)
  \/ UNCHANGED vars

LEMMA QuietKeeps == QuietStep => UNCHANGED <<thr, todo, hRead, outq>>
<1> USE DEF vars, mainVars, listVars, threadVars, eventVars, queueVars
<1>1. \/ InitBegin \/ InitStart \/ InitNext \/ InitEnd \/ InitQuit \/ KeyDown
      => UNCHANGED <<thr, todo, hRead, outq>>
  BY DEF InitBegin, InitStart, InitNext, InitEnd, InitQuit, KeyDown
<1>2. \/ Quit \/ ScanSkip \/ ScanEnd \/ ScanFound \/ NoteSignal \/ SetInputCmd
      => UNCHANGED <<thr, todo, hRead, outq>>
  BY DEF Quit, ScanSkip, ScanEnd, ScanFound, NoteSignal, SetInputCmd
<1>3. \/ DrainBegin \/ DrainNext \/ DrainCut \/ DrainEnd \/ FreeBegin \/ Joined \/ ClearEnd
      => UNCHANGED <<thr, todo, hRead, outq>>
  BY DEF DrainBegin, DrainNext, DrainCut, DrainEnd, FreeBegin, Joined, ClearEnd
<1>4. (\E m \in Modules : PushBegin(m)) \/ UNCHANGED vars
      => UNCHANGED <<thr, todo, hRead, outq>>
  BY DEF PushBegin
<1> QED
  BY <1>1, <1>2, <1>3, <1>4 DEF QuietStep

\* The entry the main thread works on is a module.
LEMMA CurListed ==
  ASSUME IInv, \/ main \in {"note", "noted", "command", "signal", "join", "destroy"}
               \/ main = "drain" /\ cur <= listed
  PROVE  cur \in Modules
BY ConstantsAssumption DEF IInv, TypeOK, MainTypeOK, MainPlace, Modules

\* A module that hRead wakes finds its command: CModule::Execute neither meets
\* a locked queue nor an empty one.
LEMMA WaitFinds ==
  ASSUME IInv, NEW m \in Modules, thr[m] = "wait", hRead[m]
  PROVE  ~inLock[m] /\ inq[m] # <<>>
<1>1. thr[m] # "killed" /\ ~freed[m]
  BY DEF IInv, FreedIsQuiet
<1>2. ~inLock[m] /\ Len(inq[m]) = 1
  BY <1>1 DEF IInv, CommandHandshake
<1>3. inq[m] \in Seq({"PARSECMD"})
  BY DEF IInv, TypeOK, QueueTypeOK
<1> QED
  BY <1>2, <1>3

\* The head of an answer is a part, unless LEAVE is all that is left.
LEMMA AnswerHead ==
  ASSUME NEW q \in Seq(Kind), q # <<>>, q[Len(q)] = "LEAVE",
         \A i \in 1..(Len(q) - 1) : q[i] \in Part
  PROVE  /\ Tail(q) = <<>> => Head(q) = "LEAVE"
         /\ Tail(q) # <<>> => /\ Head(q) \in Part
                              /\ Tail(q)[Len(Tail(q))] = "LEAVE"
                              /\ \A i \in 1..(Len(Tail(q)) - 1) : Tail(q)[i] \in Part
<1>1. Len(q) \in Nat /\ Len(q) > 0 /\ Head(q) = q[1] /\ Tail(q) \in Seq(Kind)
  OBVIOUS
<1>2. Len(Tail(q)) = Len(q) - 1 /\ \A i \in 1..(Len(q) - 1) : Tail(q)[i] = q[i + 1]
  OBVIOUS
<1>3. Tail(q) = <<>> <=> Len(q) = 1
  <2>1. ASSUME NEW t \in Seq(Kind) PROVE t = <<>> <=> Len(t) = 0
    OBVIOUS
  <2>2. Tail(q) = <<>> <=> Len(Tail(q)) = 0
    BY <2>1, <1>1
  <2> QED
    BY <2>2, <1>1, <1>2
<1> QED
  BY <1>1, <1>2, <1>3

\* d_process leaves an answer of this shape.
LEMMA AnswerMade ==
  ASSUME NEW r \in Seq(Part)
  PROVE  LET q == Append(r, "LEAVE")
         IN  /\ q # <<>> /\ q[Len(q)] = "LEAVE"
             /\ \A i \in 1..(Len(q) - 1) : q[i] \in Part
OBVIOUS

\* Only the thread itself changes what it has left to push.
LEMMA TodoStep == IInv /\ TodoShape /\ [Next]_vars => TodoShape'
<1> SUFFICES ASSUME IInv, TodoShape, [Next]_vars PROVE TodoShape'
  OBVIOUS
<1>t. /\ \A m \in Modules : todo[m] \in Seq(Kind)
      /\ thr \in [Modules -> {"absent", "waitStart", "opening", "wait", "pop",
                              "enter", "answer", "raise", "ended", "killed"}]
      /\ todo \in [Modules -> Seq(Kind)]
  BY DEF IInv, TypeOK, ThreadTypeOK, QueueTypeOK
<1>1. CASE UNCHANGED <<thr, todo>>
  BY <1>1 DEF TodoShape
<1>2. ASSUME NEW m \in Modules, UNCHANGED todo,
             \E to \in {"waitStart", "opening", "wait", "pop", "raise", "ended", "killed"} :
                thr' = [thr EXCEPT ![m] = to]
      PROVE  TodoShape'
  BY <1>2, <1>t, Zenon DEF TodoShape
<1>3. CASE Insert
  <2>1. CASE UNCHANGED thr
    BY <1>1, <1>3, <2>1 DEF Insert
  <2>2. CASE thr' = [thr EXCEPT ![listed + 1] = "waitStart"]
    <3>1. listed + 1 \in Modules
      BY <1>3, NextListed DEF Insert, IInv, TypeOK, MainPlace
    <3> QED
      BY <1>2, <1>3, <2>2, <3>1 DEF Insert
  <2> QED
    BY <1>3, <2>1, <2>2 DEF Insert
<1>4. CASE Terminate
  <2>1. cur \in Modules
    BY <1>4, CurListed DEF Terminate
  <2> QED
    BY <1>2, <1>4, <2>1 DEF Terminate
<1>5. ASSUME NEW m \in Modules,
             \/ ThreadStart(m) \/ Opened(m) \/ OpenFailed(m) \/ ThreadExit(m)
             \/ ResetRead(m) \/ RaiseWrite(m)
      PROVE  TodoShape'
  <2>1. UNCHANGED todo
    BY <1>5 DEF ThreadStart, Opened, OpenFailed, ThreadExit, ResetRead, RaiseWrite
  <2>2. \E to \in {"waitStart", "opening", "wait", "pop", "raise", "ended", "killed"} :
           thr' = [thr EXCEPT ![m] = to]
    BY <1>5 DEF ThreadStart, Opened, OpenFailed, ThreadExit, ResetRead, RaiseWrite
  <2> QED
    BY <1>2, <2>1, <2>2
<1>6. ASSUME NEW m \in Modules, PopBegin(m) PROVE TodoShape'
  <2>1. thr' = [thr EXCEPT ![m] = "pop"] /\ UNCHANGED todo
    <3>1. ~inLock[m] /\ inq[m] # <<>>
      BY <1>6, WaitFinds DEF PopBegin, At
    <3> QED
      BY <1>6, <3>1 DEF PopBegin
  <2> QED
    BY <1>2, <2>1
<1>7. ASSUME NEW m \in Modules, PopEnd(m) PROVE TodoShape'
  BY <1>7, <1>t DEF PopEnd, TodoShape
<1>8. ASSUME NEW m \in Modules, PushEnd(m) PROVE TodoShape'
  <2>1. /\ UNCHANGED thr /\ todo' = [todo EXCEPT ![m] = Tail(@)]
        /\ thr[m] \in {"enter", "answer"} /\ outLock[m]
    BY <1>8 DEF PushEnd
  <2>2. todo[m] # <<>>
    BY <2>1 DEF IInv, ThreadPlace
  <2>3. thr[m] = "enter" => todo'[m] = <<>>
    BY <2>1, <2>2, <1>t DEF TodoShape
  <2>4. thr[m] = "answer" /\ todo'[m] # <<>> =>
          /\ todo'[m][Len(todo'[m])] = "LEAVE"
          /\ \A i \in 1..(Len(todo'[m]) - 1) : todo'[m][i] \in Part
    BY <2>1, <2>2, <1>t, AnswerHead DEF TodoShape
  <2> QED
    BY <2>1, <2>3, <2>4, <1>t, Zenon DEF TodoShape
<1>9. ASSUME NEW m \in Modules, Process(m) PROVE TodoShape'
  <2>1. PICK r \in Replies \cup {<<"MESSAGE">>} :
          todo' = [todo EXCEPT ![m] = Append(r, "LEAVE")]
    BY <1>9 DEF Process
  <2>2. r \in Seq(Part)
    <3>1. <<"MESSAGE">> \in Seq(Part)
      BY DEF Part
    <3> QED
      BY <3>1, ConstantsAssumption
  <2>3. thr' = [thr EXCEPT ![m] = "answer"]
    BY <1>9 DEF Process
  <2> QED
    BY <2>1, <2>2, <2>3, <1>t, AnswerMade DEF TodoShape
<1>10. CASE QuietStep
  BY <1>1, <1>10, QuietKeeps
<1>11. CASE PutAsyncMessage \/ ExecuteCommand \/ ReadOutputCmd \/ Destroy
  BY <1>1, <1>11 DEF PutAsyncMessage, ExecuteCommand, ReadOutputCmd, Destroy, threadVars
<1> QED
  BY <1>3, <1>4, <1>5, <1>6, <1>7, <1>8, <1>9, <1>10, <1>11
  DEF Next, MainStep, Startup, KeyScan, Drain, Shutdown, User, Thread, Plugin, QuietStep

\* The place in serving of all modules: what ModuleService calls mode.
ModeMap == [m \in Modules |-> ModeOf(m)]

\* A step concerns one module: the others keep their place.
Only(m) ==
  \A n \in Modules : n # m => /\ thr'[n] = thr[n] /\ todo'[n] = todo[n]
                              /\ hRead'[n] = hRead[n]

LEMMA ModeStep ==
  ASSUME NEW m \in Modules, Only(m)
  PROVE  ModeMap' = [ModeMap EXCEPT ![m] = ModeOf(m)']
<1>1. ASSUME NEW n \in Modules, n # m PROVE ModeOf(n)' = ModeOf(n)
  BY <1>1 DEF Only, ModeOf
<1> QED
  BY <1>1, Zenon DEF ModeMap

LEMMA ModeKept ==
  ASSUME NEW m \in Modules, Only(m), ModeOf(m)' = ModeOf(m)
  PROVE  ModeMap' = ModeMap
<1>1. ASSUME NEW n \in Modules PROVE ModeOf(n)' = ModeOf(n)
  BY <1>1 DEF Only, ModeOf
<1> QED
  BY <1>1, Zenon DEF ModeMap

\* A step between two places in which nothing is said, and a stutter.
ServiceStep == [Service!Next]_(Service!serviceVars)

LEMMA MoveStep ==
  ASSUME NEW m \in Modules, Only(m), UNCHANGED outq,
         \/ ModeOf(m)' = ModeOf(m)
         \/ ModeOf(m) = "idle" /\ ModeOf(m)' = "asked"
         \/ ModeOf(m) = "left" /\ ModeOf(m)' = "idle"
         \/ ModeOf(m)' = "stopped"
  PROVE  ServiceStep
<1>1. CASE ModeOf(m)' = ModeOf(m)
  BY <1>1, ModeKept DEF ServiceStep, Service!serviceVars, ModeMap
<1>2. ModeMap[m] = ModeOf(m) /\ ModeMap' = [ModeMap EXCEPT ![m] = ModeOf(m)']
  BY ModeStep DEF ModeMap
<1>3. CASE ModeOf(m) = "idle" /\ ModeOf(m)' = "asked"
  <2>1. Service!Accept(m)
    BY <1>2, <1>3 DEF Service!Accept, Service!Move, ModeMap
  <2> QED
    BY <2>1 DEF ServiceStep, Service!Next
<1>4. CASE ModeOf(m) = "left" /\ ModeOf(m)' = "idle"
  <2>1. Service!Finish(m)
    BY <1>2, <1>4 DEF Service!Finish, Service!Move, ModeMap
  <2> QED
    BY <2>1 DEF ServiceStep, Service!Next
<1>5. CASE ModeOf(m)' = "stopped" /\ ModeOf(m)' # ModeOf(m)
  <2>1. Service!Stop(m)
    BY <1>2, <1>5 DEF Service!Stop, ModeMap
  <2> QED
    BY <2>1 DEF ServiceStep, Service!Next
<1> QED
  BY <1>1, <1>3, <1>4, <1>5

\* Pushing is saying: a full queue loses the new entry.
LEMMA PushedSays ==
  ASSUME IInv, NEW m \in Modules, NEW k,
         outq' = [outq EXCEPT ![m] = Pushed(@, k)]
  PROVE  Service!Say(m, k)
<1>1. Len(outq[m]) \in Nat /\ CmdMax \in Nat
  BY ConstantsAssumption DEF IInv, TypeOK, QueueTypeOK
<1>2. Len(outq[m]) + 1 > CmdMax <=> ~(Len(outq[m]) < CmdMax)
  BY <1>1
<1> QED
  BY <1>2 DEF Pushed, Service!Say

\* A module says the head of what it has left.
LEMMA PushEndSays ==
  ASSUME IInv, TodoShape, NEW m \in Modules, PushEnd(m)
  PROVE  ServiceStep
<1>1. /\ UNCHANGED <<thr, hRead>> /\ todo' = [todo EXCEPT ![m] = Tail(@)]
      /\ outq' = [outq EXCEPT ![m] = Pushed(@, Head(todo[m]))]
      /\ thr[m] \in {"enter", "answer"} /\ outLock[m]
  BY DEF PushEnd, eventVars
<1>2. todo[m] # <<>> /\ todo[m] \in Seq(Kind) /\ todo \in [Modules -> Seq(Kind)]
  BY <1>1 DEF IInv, ThreadPlace, TypeOK, QueueTypeOK
<1>3. Service!Say(m, Head(todo[m]))
  BY <1>1, PushedSays
<1>4. ModeMap[m] = ModeOf(m) /\ ModeMap' = [ModeMap EXCEPT ![m] = ModeOf(m)']
  BY <1>1, ModeStep DEF ModeMap, Only
<1>5. CASE thr[m] = "enter"
  <2>1. Head(todo[m]) = "ENTER" /\ todo'[m] = <<>>
    BY <1>1, <1>2, <1>5 DEF TodoShape
  <2>2. hRead[m]
    BY <1>5 DEF IInv, CommandHandshake, FreedIsQuiet, Executing
  <2>3. ModeOf(m) = "asked" /\ ModeOf(m)' = "working"
    BY <1>1, <1>2, <1>5, <2>1, <2>2 DEF ModeOf
  <2>4. Service!Enter(m)
    BY <1>3, <1>4, <2>1, <2>3 DEF Service!Enter, Service!Move, ModeMap
  <2> QED
    BY <2>4 DEF ServiceStep, Service!Next
<1>6. CASE thr[m] = "answer"
  <2>1. /\ Tail(todo[m]) = <<>> => Head(todo[m]) = "LEAVE"
        /\ Tail(todo[m]) # <<>> => Head(todo[m]) \in Part
    BY <1>2, <1>6, AnswerHead DEF TodoShape
  <2>2. ModeOf(m) = "working"
    BY <1>2, <1>6 DEF ModeOf
  <2>3. CASE Tail(todo[m]) = <<>>
    <3>1. ModeOf(m)' = "left"
      BY <1>1, <1>2, <1>6, <2>3 DEF ModeOf
    <3>2. Service!Leave(m)
      BY <1>3, <1>4, <2>1, <2>2, <2>3, <3>1 DEF Service!Leave, Service!Move, ModeMap
    <3> QED
      BY <3>2 DEF ServiceStep, Service!Next
  <2>4. CASE Tail(todo[m]) # <<>>
    <3>1. ModeOf(m)' = "working"
      BY <1>1, <1>2, <1>6, <2>4 DEF ModeOf
    <3>2. ModeMap' = ModeMap
      BY <1>1, <2>2, <3>1, ModeKept DEF Only
    <3>3. Service!Answer(m)
      BY <1>3, <1>4, <2>1, <2>2, <2>4, <3>2 DEF Service!Answer, Service!Part, Part, ModeMap
    <3> QED
      BY <3>3 DEF ServiceStep, Service!Next
  <2> QED
    BY <2>3, <2>4
<1> QED
  BY <1>1, <1>5, <1>6

\* The main thread notes only on a module that is not serving.
LEMMA NoteSays ==
  ASSUME IInv, PutAsyncMessage
  PROVE  ServiceStep
<1>1. /\ cur \in Modules /\ ~hRead[cur] /\ thr[cur] # "killed" /\ ~freed[cur]
  <2>1. main = "note"
    BY DEF PutAsyncMessage
  <2> QED
    BY <2>1, CurListed DEF IInv, ScanPlace, ThreadPlace
<1>2. thr[cur] \notin {"pop", "enter", "answer"}
  BY <1>1 DEF IInv, CommandHandshake, Executing
<1>3. ModeOf(cur) \in {"idle", "stopped"}
  BY <1>1, <1>2 DEF ModeOf, IInv, TypeOK, ThreadTypeOK
<1>4. UNCHANGED <<thr, todo, hRead>> /\ Service!Say(cur, "ASYNC")
  BY <1>1, PushedSays DEF PutAsyncMessage, threadVars, eventVars
<1>5. ModeMap' = ModeMap /\ ModeMap[cur] = ModeOf(cur)
  BY <1>1, <1>4, ModeKept DEF ModeMap, Only, ModeOf
<1>6. Service!Note(cur)
  BY <1>3, <1>4, <1>5 DEF Service!Note, ModeMap
<1> QED
  BY <1>1, <1>6 DEF ServiceStep, Service!Next

\* Taking an entry, and deleting what a stopped module said.
LEMMA TakeSteps ==
  ASSUME IInv, ReadOutputCmd \/ Destroy
  PROVE  ServiceStep
<1>1. cur \in Modules
  BY CurListed DEF ReadOutputCmd, Destroy
<1>2. UNCHANGED <<thr, todo, hRead>>
  BY DEF ReadOutputCmd, Destroy, threadVars, eventVars
<1>3. ModeMap' = ModeMap /\ ModeMap[cur] = ModeOf(cur)
  BY <1>1, <1>2, ModeKept DEF ModeMap, Only, ModeOf
<1>4. CASE ReadOutputCmd
  <2>1. Service!Take(cur)
    BY <1>3, <1>4 DEF ReadOutputCmd, Service!Take, ModeMap
  <2> QED
    BY <1>1, <2>1 DEF ServiceStep, Service!Next
<1>5. CASE Destroy
  <2>1. thr[cur] \in {"ended", "killed"}
    BY <1>1, <1>5 DEF Destroy, IInv, ThreadPlace
  <2>2. ModeOf(cur) = "stopped"
    BY <2>1 DEF ModeOf
  <2>3. Service!Discard(cur)
    BY <1>3, <1>5, <2>2 DEF Destroy, Service!Discard, ModeMap
  <2> QED
    BY <1>1, <2>3 DEF ServiceStep, Service!Next
<1> QED
  BY <1>4, <1>5

\* A step of a module's thread that says nothing.
LEMMA SilentSteps ==
  ASSUME IInv, TodoShape, NEW m \in Modules,
         \/ ThreadStart(m) \/ Opened(m) \/ OpenFailed(m) \/ ThreadExit(m)
         \/ PopBegin(m) \/ PopEnd(m) \/ Process(m) \/ ResetRead(m) \/ RaiseWrite(m)
  PROVE  ServiceStep
<1> DEFINE Places == {"absent", "waitStart", "opening", "wait", "pop",
                      "enter", "answer", "raise", "ended", "killed"}
<1>t. /\ thr \in [Modules -> Places] /\ todo \in [Modules -> Seq(Kind)]
      /\ hRead \in [Modules -> BOOLEAN]
  BY DEF IInv, TypeOK, ThreadTypeOK, QueueTypeOK
<1>1. CASE \/ ThreadStart(m) \/ Opened(m) \/ OpenFailed(m) \/ ThreadExit(m) \/ RaiseWrite(m)
  <2>1. UNCHANGED <<todo, hRead, outq>>
    BY <1>1 DEF ThreadStart, Opened, OpenFailed, ThreadExit, RaiseWrite, eventVars, queueVars
  <2>2. \E to \in {"opening", "wait", "ended"} : thr' = [thr EXCEPT ![m] = to]
    BY <1>1 DEF ThreadStart, Opened, OpenFailed, ThreadExit, RaiseWrite
  <2>3. thr[m] \in {"waitStart", "opening", "wait", "raise"}
    BY <1>1 DEF ThreadStart, Opened, OpenFailed, ThreadExit, RaiseWrite, At
  <2>4. ModeOf(m)' = ModeOf(m) \/ ModeOf(m)' = "stopped"
    BY <2>1, <2>2, <2>3, <1>t DEF ModeOf
  <2>5. Only(m)
    BY <2>1, <2>2, <1>t DEF Only
  <2> QED
    BY <2>1, <2>4, <2>5, MoveStep
<1>2. CASE PopBegin(m)
  <2>1. thr[m] = "wait" /\ hRead[m] /\ thr' = [thr EXCEPT ![m] = "pop"]
    <3>1. thr[m] = "wait" /\ hRead[m]
      BY <1>2 DEF PopBegin, At
    <3> QED
      BY <1>2, <3>1, WaitFinds DEF PopBegin
  <2>2. UNCHANGED <<todo, hRead, outq>>
    BY <1>2 DEF PopBegin, eventVars
  <2>3. ModeOf(m)' = ModeOf(m)
    BY <2>1, <2>2, <1>t DEF ModeOf
  <2>4. Only(m)
    BY <2>1, <2>2, <1>t DEF Only
  <2> QED
    BY <2>2, <2>3, <2>4, MoveStep
<1>3. CASE PopEnd(m)
  <2>1. /\ thr[m] = "pop" /\ thr' = [thr EXCEPT ![m] = "enter"]
        /\ todo' = [todo EXCEPT ![m] = <<"ENTER">>]
        /\ UNCHANGED <<hRead, outq>>
    BY <1>3 DEF PopEnd, At, eventVars
  <2>2. hRead[m]
    BY <2>1 DEF IInv, CommandHandshake, FreedIsQuiet, Executing
  <2>3. todo'[m] # <<>>
    BY <2>1, <1>t
  <2>4. ModeOf(m)' = ModeOf(m)
    BY <2>1, <2>2, <2>3, <1>t DEF ModeOf
  <2>5. Only(m)
    BY <2>1, <1>t DEF Only
  <2> QED
    BY <2>1, <2>4, <2>5, MoveStep
<1>4. CASE Process(m)
  <2>1. /\ thr[m] = "enter" /\ todo[m] = <<>> /\ thr' = [thr EXCEPT ![m] = "answer"]
        /\ UNCHANGED <<hRead, outq>>
    BY <1>4 DEF Process, At, eventVars, queueVars
  <2>2. PICK r \in Replies \cup {<<"MESSAGE">>} :
          todo' = [todo EXCEPT ![m] = Append(r, "LEAVE")]
    BY <1>4 DEF Process
  <2>3. r \in Seq(Part)
    <3>1. <<"MESSAGE">> \in Seq(Part)
      BY DEF Part
    <3> QED
      BY <3>1, ConstantsAssumption
  <2>4. todo'[m] # <<>>
    BY <2>2, <2>3, <1>t, AnswerMade
  <2>5. ModeOf(m)' = ModeOf(m)
    BY <2>1, <2>4, <1>t DEF ModeOf
  <2>6. Only(m)
    BY <2>1, <2>2, <1>t DEF Only
  <2> QED
    BY <2>1, <2>5, <2>6, MoveStep
<1>5. CASE ResetRead(m)
  <2>1. /\ thr[m] = "answer" /\ todo[m] = <<>> /\ thr' = [thr EXCEPT ![m] = "raise"]
        /\ hRead' = [hRead EXCEPT ![m] = FALSE]
        /\ UNCHANGED <<todo, outq>>
    BY <1>5 DEF ResetRead, At, queueVars
  <2>2. ModeOf(m) = "left" /\ ModeOf(m)' = "idle"
    BY <2>1, <1>t DEF ModeOf
  <2>3. Only(m)
    BY <2>1, <1>t DEF Only
  <2> QED
    BY <2>1, <2>2, <2>3, MoveStep
<1> QED
  BY <1>1, <1>2, <1>3, <1>4, <1>5

\* Every step of ModuleBase is a step of ModuleService or a stutter.
LEMMA ServiceSteps == IInv /\ TodoShape /\ [Next]_vars => ServiceStep
<1> SUFFICES ASSUME IInv, TodoShape, [Next]_vars PROVE ServiceStep
  OBVIOUS
<1>t. /\ thr \in [Modules -> {"absent", "waitStart", "opening", "wait", "pop",
                              "enter", "answer", "raise", "ended", "killed"}]
      /\ hRead \in [Modules -> BOOLEAN]
  BY DEF IInv, TypeOK, ThreadTypeOK
<1>1. CASE UNCHANGED <<thr, todo, hRead, outq>>
  <2>1. ModeMap' = ModeMap
    BY <1>1 DEF ModeMap, ModeOf
  <2> QED
    BY <1>1, <2>1 DEF ServiceStep, Service!serviceVars, ModeMap
<1>2. CASE Insert
  <2>1. UNCHANGED <<todo, hRead, outq>>
    BY <1>2 DEF Insert, eventVars, queueVars
  <2>2. CASE UNCHANGED thr
    BY <1>1, <2>1, <2>2
  <2>3. CASE thr' = [thr EXCEPT ![listed + 1] = "waitStart"]
    <3>1. listed + 1 \in Modules
      BY <1>2, NextListed DEF Insert, IInv, TypeOK, MainPlace
    <3>2. thr[listed + 1] = "absent"
      <4>1. listed \in Nat
        BY ConstantsAssumption DEF IInv, TypeOK, MainTypeOK
      <4> QED
        BY <3>1, <4>1 DEF IInv, ThreadPlace
    <3>3. PICK m \in Modules : m = listed + 1
      BY <3>1
    <3>4. ModeOf(m)' = ModeOf(m)
      BY <2>1, <2>3, <3>2, <3>3, <1>t DEF ModeOf
    <3>5. Only(m)
      BY <2>1, <2>3, <3>3, <1>t DEF Only
    <3> QED
      BY <2>1, <3>4, <3>5, MoveStep
  <2> QED
    BY <1>2, <2>2, <2>3 DEF Insert
<1>3. CASE ExecuteCommand
  <2>1. /\ cur \in Modules /\ hRead' = [hRead EXCEPT ![cur] = TRUE]
        /\ UNCHANGED <<thr, todo, outq>> /\ ~hRead[cur] /\ ~freed[cur]
    <3>1. main = "signal"
      BY <1>3 DEF ExecuteCommand
    <3> QED
      BY <1>3, <3>1, CurListed DEF ExecuteCommand, threadVars, queueVars, IInv,
                                   ScanPlace, ThreadPlace
  <2>2. thr[cur] \notin {"pop", "enter", "answer"}
    BY <2>1 DEF IInv, CommandHandshake, Executing
  <2>3. PICK m \in Modules : m = cur
    BY <2>1
  <2>4. \/ ModeOf(m)' = ModeOf(m)
        \/ ModeOf(m) = "idle" /\ ModeOf(m)' = "asked"
    BY <2>1, <2>2, <2>3, <1>t DEF ModeOf
  <2>5. Only(m)
    BY <2>1, <2>3, <1>t DEF Only
  <2> QED
    BY <2>1, <2>4, <2>5, MoveStep
<1>4. CASE Terminate
  <2>1. cur \in Modules
    BY <1>4, CurListed DEF Terminate
  <2>2. thr' = [thr EXCEPT ![cur] = "killed"] /\ UNCHANGED <<todo, hRead, outq>>
    BY <1>4 DEF Terminate, eventVars, queueVars
  <2>3. PICK m \in Modules : m = cur
    BY <2>1
  <2>4. ModeOf(m)' = "stopped"
    BY <2>2, <2>3, <1>t DEF ModeOf
  <2>5. Only(m)
    BY <2>2, <2>3, <1>t DEF Only
  <2> QED
    BY <2>2, <2>4, <2>5, MoveStep
<1> QED
  BY <1>1, <1>2, <1>3, <1>4, QuietKeeps, NoteSays, TakeSteps, SilentSteps, PushEndSays
  DEF Next, MainStep, Startup, KeyScan, Drain, Shutdown, User, Thread, Plugin, QuietStep

\* Each module implements ModuleService: it serves one command at a time, and
\* says that it entered it, its answer and that it left it, in this order.
THEOREM ServiceImplemented == Spec => ImplementsService
<1>1. Init => TodoShape /\ Service!Init
  <2> SUFFICES ASSUME Init PROVE TodoShape /\ Service!Init
    OBVIOUS
  <2>1. TodoShape
    BY DEF Init, TodoShape
  <2>2. \A m \in Modules : ModeOf(m) = "idle"
    BY DEF Init, ModeOf
  <2> QED
    BY <2>1, <2>2 DEF Init, Service!Init
<1>2. IInv /\ TodoShape /\ [Next]_vars => TodoShape'
  BY TodoStep
<1>3. IInv /\ TodoShape /\ [Next]_vars => [Service!Next]_(Service!serviceVars)
  BY ServiceSteps DEF ServiceStep
<1> QED
  BY <1>1, <1>2, <1>3, Invariance, PTL DEF Spec, ImplementsService, Service!Spec

-----------------------------------------------------------------------------
(* Nobody waits for nobody.  The lemmas are about guards only: that the    *)
(* steps are then taken is what ModuleBase's fairness says.                *)

\* The main thread never finds the queue of a module it gives a command to
\* locked, and a queue it deletes is locked only by a terminated thread.
MainNeverWaits ==
  /\ main = "note" => ~outLock[cur]
  /\ main = "command" => ~inLock[cur]
  /\ main = "destroy" /\ (inLock[cur] \/ outLock[cur]) => Orphaned(cur)

\* Only a module that Open bound to its key is given a command.
KeyPlace ==
  /\ \A m \in Modules : mkey[m] # 0 => thr[m] \notin {"absent", "waitStart"}
  /\ \A m \in Modules : hRead[m] => mkey[m] # 0
  /\ main \in {"note", "noted", "command", "signal"} => mkey[cur] # 0

\* A module that holds a command has a step of its own to take, unless it is
\* inside the plugin or its thread is over.
CommandMoves ==
  \A m \in Modules : hRead[m] =>
    \/ InPlugin(m) \/ thr[m] \in {"ended", "killed"}
    \/ thr[m] = "wait" /\ (hExit[m] \/ (~inLock[m] /\ inq[m] # <<>>))
    \/ thr[m] = "pop" /\ inLock[m]
    \/ thr[m] \in {"enter", "answer"} /\ todo[m] # <<>>
    \/ thr[m] = "answer" /\ todo[m] = <<>> /\ ~outLock[m]
    \/ thr[m] = "raise"

\* Only a thread itself takes its locks, so the guards above follow from where
\* the thread stands.
LEMMA NeverWaits == IInv => MainNeverWaits
<1> SUFFICES ASSUME IInv PROVE MainNeverWaits
  OBVIOUS
<1>1. ASSUME main = "note" PROVE ~outLock[cur]
  <2>1. PICK m \in Modules : m = cur
    BY <1>1, CurListed
  <2>2. ~hRead[m] /\ ~freed[m] /\ thr[m] # "killed"
    BY <1>1, <2>1 DEF IInv, ScanPlace, ThreadPlace
  <2>3. ~Executing(m)
    BY <2>2 DEF IInv, CommandHandshake
  <2> QED
    BY <2>1, <2>2, <2>3 DEF IInv, ThreadPlace, Executing
<1>2. ASSUME main = "command" PROVE ~inLock[cur]
  <2>1. PICK m \in Modules : m = cur
    BY <1>2, CurListed
  <2>2. ~hRead[m] /\ ~freed[m] /\ thr[m] # "killed"
    BY <1>2, <2>1 DEF IInv, ScanPlace, ThreadPlace
  <2>3. ~Executing(m) /\ (inLock[m] <=> thr[m] = "pop")
    BY <2>2 DEF IInv, CommandHandshake
  <2> QED
    BY <2>1, <2>3 DEF Executing
<1>3. ASSUME main = "destroy", inLock[cur] \/ outLock[cur] PROVE Orphaned(cur)
  <2>1. PICK m \in Modules : m = cur
    BY <1>3, CurListed
  <2>2. thr[m] \in {"ended", "killed"} /\ ~freed[m]
    <3>1. cur \in Nat
      BY ConstantsAssumption DEF IInv, TypeOK, MainTypeOK
    <3> QED
      BY <1>3, <2>1, <3>1 DEF IInv, ThreadPlace
  <2>3. CASE thr[m] = "killed"
    BY <1>3, <2>1, <2>3 DEF Orphaned
  <2>4. CASE thr[m] = "ended"
    BY <1>3, <2>1, <2>2, <2>4 DEF IInv, ThreadPlace, CommandHandshake
  <2> QED
    BY <2>2, <2>3, <2>4
<1> QED
  BY <1>1, <1>2, <1>3 DEF MainNeverWaits

\* m_Key is set once, before the module can be found by its key.
LEMMA KeyStep == IInv /\ KeyPlace /\ [Next]_vars => KeyPlace'
<1> SUFFICES ASSUME IInv, KeyPlace, [Next]_vars PROVE KeyPlace'
  OBVIOUS
<1> USE ConstantsAssumption DEF IInv, TypeOK, MainTypeOK, ThreadTypeOK, MainPlace,
       Modules, KeyPlace, At, vars, mainVars, listVars, threadVars, eventVars, queueVars
<1>1. CASE Insert  BY <1>1 DEF Insert, ThreadPlace
<1>2. CASE InitBegin  BY <1>2 DEF InitBegin
<1>3. CASE InitStart  BY <1>3 DEF InitStart
<1>4. CASE InitNext  BY <1>4 DEF InitNext
<1>5. CASE InitQuit  BY <1>5 DEF InitQuit
<1>6. CASE InitEnd  BY <1>6 DEF InitEnd
<1>7. CASE KeyDown  BY <1>7 DEF KeyDown
<1>8. CASE ScanSkip  BY <1>8 DEF ScanSkip
<1>9. CASE ScanEnd  BY <1>9 DEF ScanEnd
<1>10. CASE ScanFound  BY <1>10 DEF ScanFound, Bound
<1>11. CASE PutAsyncMessage  BY <1>11 DEF PutAsyncMessage
<1>12. CASE NoteSignal  BY <1>12 DEF NoteSignal
<1>13. CASE SetInputCmd  BY <1>13 DEF SetInputCmd
<1>14. CASE ExecuteCommand  BY <1>14 DEF ExecuteCommand
<1>15. CASE DrainBegin  BY <1>15 DEF DrainBegin
<1>16. CASE ReadOutputCmd  BY <1>16 DEF ReadOutputCmd
<1>17. CASE DrainNext  BY <1>17 DEF DrainNext
<1>18. CASE DrainCut  BY <1>18 DEF DrainCut
<1>19. CASE DrainEnd  BY <1>19 DEF DrainEnd
<1>20. CASE Quit  BY <1>20 DEF Quit
<1>21. CASE FreeBegin  BY <1>21 DEF FreeBegin
<1>22. CASE Joined  BY <1>22 DEF Joined
<1>23. CASE Terminate  BY <1>23 DEF Terminate
<1>24. CASE Destroy  BY <1>24 DEF Destroy
<1>25. CASE ClearEnd  BY <1>25 DEF ClearEnd
<1>26. ASSUME NEW m \in Modules, ThreadStart(m) PROVE KeyPlace'
  BY <1>26 DEF ThreadStart
<1>27. ASSUME NEW m \in Modules, Opened(m) PROVE KeyPlace'
  BY <1>27 DEF Opened
<1>28. ASSUME NEW m \in Modules, OpenFailed(m) PROVE KeyPlace'
  BY <1>28 DEF OpenFailed
<1>29. ASSUME NEW m \in Modules, ThreadExit(m) PROVE KeyPlace'
  BY <1>29 DEF ThreadExit
<1>30. ASSUME NEW m \in Modules, PopBegin(m) PROVE KeyPlace'
  BY <1>30 DEF PopBegin
<1>31. ASSUME NEW m \in Modules, PopEnd(m) PROVE KeyPlace'
  BY <1>31 DEF PopEnd
<1>32. ASSUME NEW m \in Modules, PushBegin(m) PROVE KeyPlace'
  BY <1>32 DEF PushBegin
<1>33. ASSUME NEW m \in Modules, PushEnd(m) PROVE KeyPlace'
  BY <1>33 DEF PushEnd
<1>34. ASSUME NEW m \in Modules, Process(m) PROVE KeyPlace'
  BY <1>34 DEF Process
<1>35. ASSUME NEW m \in Modules, ResetRead(m) PROVE KeyPlace'
  BY <1>35 DEF ResetRead
<1>36. ASSUME NEW m \in Modules, RaiseWrite(m) PROVE KeyPlace'
  BY <1>36 DEF RaiseWrite
<1>37. CASE UNCHANGED vars  BY <1>37
<1> QED
  BY <1>1, <1>2, <1>3, <1>4, <1>5, <1>6, <1>7, <1>8, <1>9, <1>10, <1>11,
     <1>12, <1>13, <1>14, <1>15, <1>16, <1>17, <1>18, <1>19, <1>20, <1>21,
     <1>22, <1>23, <1>24, <1>25, <1>26, <1>27, <1>28, <1>29, <1>30, <1>31,
     <1>32, <1>33, <1>34, <1>35, <1>36, <1>37
  DEF Next, MainStep, Startup, KeyScan, Drain, Shutdown, User, Thread, Plugin

LEMMA CommandServed == IInv /\ KeyPlace => CommandMoves
<1> SUFFICES ASSUME IInv, KeyPlace, NEW m \in Modules, hRead[m], ~InPlugin(m),
                    thr[m] \notin {"ended", "killed"}
             PROVE  \/ thr[m] = "wait" /\ (hExit[m] \/ (~inLock[m] /\ inq[m] # <<>>))
                    \/ thr[m] = "pop" /\ inLock[m]
                    \/ thr[m] \in {"enter", "answer"} /\ todo[m] # <<>>
                    \/ thr[m] = "answer" /\ todo[m] = <<>> /\ ~outLock[m]
                    \/ thr[m] = "raise"
  BY DEF CommandMoves
<1>1. thr[m] \in {"wait", "pop", "enter", "answer", "raise"}
  BY DEF KeyPlace, InPlugin, IInv, TypeOK, ThreadTypeOK
<1>2. CASE thr[m] = "wait"
  BY <1>2, WaitFinds
<1>3. CASE thr[m] = "pop"
  BY <1>3 DEF IInv, CommandHandshake, FreedIsQuiet
<1>4. CASE thr[m] \in {"enter", "answer"} /\ todo[m] = <<>>
  <2>1. thr[m] = "answer"
    BY <1>4 DEF InPlugin
  <2>2. ~outLock[m]
    BY <1>4, <2>1 DEF IInv, ThreadPlace
  <2> QED
    BY <1>4, <2>1, <2>2
<1> QED
  BY <1>1, <1>2, <1>3, <1>4

\* The main thread waits for no lock of a module that serves a command, and
\* none of a module it deletes unless TerminateThread left it taken; and a
\* module that holds a command always has its next step open, so that neither
\* side ever waits for the other.
THEOREM NobodyBlocked == Spec => [](MainNeverWaits /\ CommandMoves)
<1>1. Init => KeyPlace
  BY DEF Init, KeyPlace
<1>2. IInv /\ KeyPlace /\ [Next]_vars => KeyPlace'
  BY KeyStep
<1>3. IInv /\ KeyPlace => MainNeverWaits /\ CommandMoves
  BY NeverWaits, CommandServed
<1> QED
  BY <1>1, <1>2, <1>3, Invariance, PTL DEF Spec

=============================================================================
