----------------------------- MODULE ModuleBase -----------------------------
(***************************************************************************)
(* CModuleBase, CModule and the CCommand queues: the main thread and one   *)
(* thread per plugin module (mcore.cpp, module.cpp, command.cpp).          *)
(*                                                                         *)
(* A key bound to a module makes the main thread put one command into the  *)
(* module's input queue and set its hRead event; the module's thread runs  *)
(* the command, puts its answer into the output queue, resets hRead and    *)
(* sets the hWrite event all modules share; the main loop then drains the  *)
(* output queues.  The queues are guarded by an auto-reset event each:     *)
(* Push waits for it, Pop only tries.                                      *)
(*                                                                         *)
(* The main thread's own accesses to a queue are one step, because no      *)
(* thread can stop it in the middle; a module's accesses take and release  *)
(* the lock in two steps, because free_item may TerminateThread it in      *)
(* between.  The lock m_ModuleShared is only ever taken by the main        *)
(* thread, so it is represented by `main' not being at "loop".             *)
(***************************************************************************)
EXTENDS Naturals, Sequences

CONSTANTS N,          \* number of modules the configuration names
          MaxModules, \* capacity given to CModuleBase (0x100)
          CmdMax,     \* capacity of an output queue (256 entries)
          DrainMax,   \* entries ExecuteModule takes from one module (100)
          MaxPresses, \* bound: key presses that reach ExecuteCommandIfFound
          Keys,       \* scan codes the user may press
          Key,        \* Key[m]: the scan code configured for m, 0 for none
          HasMsg,     \* HasMsg[m]: m is configured with a "please wait" text
          Replies     \* the part sequences d_process may answer with

Modules == 1..N
Part == {"MESSAGE", "MESSAGE2", "SEND"}
Kind == {"ASYNC", "ENTER", "LEAVE"} \cup Part

ASSUME ConstantsAssumption ==
  /\ N \in Nat \ {0} /\ MaxModules \in Nat /\ MaxPresses \in Nat
  /\ CmdMax \in Nat \ {0} /\ DrainMax \in Nat \ {0}
  /\ Keys \subseteq Nat \ {0} /\ Key \in [Modules -> Nat]
  /\ HasMsg \in [Modules -> BOOLEAN]
  /\ Replies \subseteq Seq(Part)

VARIABLES main,     \* where the main thread stands
          cur,      \* the list entry it is visiting
          count,    \* ExecuteModule's count of entries taken from that entry
          cut,      \* the last ExecuteModule gave up at DrainMax
          key,      \* the scan code ExecuteCommandIfFound looks for
          presses,  \* key presses so far
          listed,   \* modules 1..listed are in the list
          modCount, \* m_RootList.currentModuleCount
          hWrite,   \* m_hWriteEvent, auto-reset, shared by all modules
          thr,      \* thr[m]: where m's thread stands in ThreadRoutine
          mkey,     \* mkey[m]: m_Key
          hStart, hExit, hRead,  \* m's manual-reset events
          inq, outq,             \* m_InCmd, m_OutCmd
          inLock, outLock,       \* m's thread holds the queue's m_Shared
          todo,     \* what m's thread still has to push for this command
          freed     \* m's CModule and list entry are deleted

mainVars   == <<main, cur, count, cut, key, presses>>
listVars   == <<listed, modCount>>
eventVars  == <<hStart, hExit, hRead>>
queueVars  == <<inq, outq, inLock, outLock>>
threadVars == <<thr, mkey, todo>>
vars == <<mainVars, listVars, hWrite, threadVars, eventVars, queueVars, freed>>

Init ==
  /\ main = "load" /\ cur = 1 /\ count = 0 /\ cut = FALSE
  /\ key = 0 /\ presses = 0 /\ listed = 0 /\ modCount = 0 /\ hWrite = FALSE
  /\ thr = [m \in Modules |-> "absent"]
  /\ mkey = [m \in Modules |-> 0]
  /\ hStart = [m \in Modules |-> FALSE]
  /\ hExit = [m \in Modules |-> FALSE]
  /\ hRead = [m \in Modules |-> FALSE]
  /\ inq = [m \in Modules |-> <<>>] /\ outq = [m \in Modules |-> <<>>]
  /\ inLock = [m \in Modules |-> FALSE] /\ outLock = [m \in Modules |-> FALSE]
  /\ todo = [m \in Modules |-> <<>>]
  /\ freed = [m \in Modules |-> FALSE]

-----------------------------------------------------------------------------
(* The queue.  A full queue refuses; every caller ignores the refusal.     *)

\* Mutated: a full queue makes room by forgetting its oldest entry.
PushedForgetting(q, k) == IF Len(q) + 1 > CmdMax THEN Append(Tail(q), k)
                                                 ELSE Append(q, k)

Pushed(q, k) == IF Len(q) + 1 > CmdMax THEN q ELSE Append(q, k)

-----------------------------------------------------------------------------
(* Start-up: the modules of the configuration are inserted, then started.  *)

Insert ==
  /\ main = "load" /\ cur <= N
  /\ LET raised == modCount + 1
     IN  IF raised + 1 > MaxModules
         THEN UNCHANGED <<listVars, thr>>
         ELSE /\ modCount' = raised
              /\ listed' = listed + 1
              /\ thr' = [thr EXCEPT ![listed + 1] = "waitStart"]
  /\ cur' = cur + 1
  /\ UNCHANGED <<main, count, cut, key, presses, hWrite, mkey, todo,
                 eventVars, queueVars, freed>>

InitBegin ==
  /\ main = "load" /\ cur > N
  /\ main' = "start" /\ cur' = 1
  /\ UNCHANGED <<count, cut, key, presses, listVars, hWrite, threadVars,
                 eventVars, queueVars, freed>>

InitStart ==
  /\ main = "start" /\ cur <= listed
  /\ hStart' = [hStart EXCEPT ![cur] = TRUE]
  /\ main' = "await"
  /\ UNCHANGED <<cur, count, cut, key, presses, listVars, hWrite, threadVars,
                 hExit, hRead, queueVars, freed>>

\* The module reset hStart, or INIT_MODULE_TIMEOUT passed without it.
InitNext ==
  /\ main = "await"
  /\ main' = "start" /\ cur' = cur + 1
  /\ UNCHANGED <<count, cut, key, presses, listVars, hWrite, threadVars,
                 eventVars, queueVars, freed>>

\* MSGQUEUE met WM_QUIT: WinMain returns without CModuleBase::Clear.
InitQuit ==
  /\ main = "await"
  /\ main' = "exited"
  /\ UNCHANGED <<cur, count, cut, key, presses, listVars, hWrite, threadVars,
                 eventVars, queueVars, freed>>

InitEnd ==
  /\ main = "start" /\ cur > listed
  /\ main' = "loop"
  /\ UNCHANGED <<cur, count, cut, key, presses, listVars, hWrite, threadVars,
                 eventVars, queueVars, freed>>

-----------------------------------------------------------------------------
(* A key press.  A press during Init finds m_ModuleShared taken and does   *)
(* nothing here.                                                           *)

KeyDown ==
  /\ main = "loop" /\ presses < MaxPresses
  /\ \E k \in Keys : key' = k
  /\ presses' = presses + 1
  /\ main' = "scan" /\ cur' = 1
  /\ UNCHANGED <<count, cut, listVars, hWrite, threadVars, eventVars,
                 queueVars, freed>>

Bound(m) == mkey[m] # 0 /\ mkey[m] = key

ScanSkip ==
  /\ main = "scan" /\ cur <= listed /\ ~Bound(cur)
  /\ cur' = cur + 1
  /\ UNCHANGED <<main, count, cut, key, presses, listVars, hWrite, threadVars,
                 eventVars, queueVars, freed>>

\* The end of the list, or a module that is still busy: the rest of the
\* list is not looked at.
ScanEnd ==
  /\ main = "scan"
  /\ cur <= listed => Bound(cur) /\ hRead[cur]
  /\ main' = "loop"
  /\ UNCHANGED <<cur, count, cut, key, presses, listVars, hWrite, threadVars,
                 eventVars, queueVars, freed>>

\* Mutated: the busy test is left out.
ScanFoundBusy ==
  /\ main = "scan" /\ cur <= listed /\ Bound(cur)
  /\ main' = IF HasMsg[cur] THEN "note" ELSE "command"
  /\ UNCHANGED <<cur, count, cut, key, presses, listVars, hWrite, threadVars,
                 eventVars, queueVars, freed>>

ScanFound ==
  /\ main = "scan" /\ cur <= listed /\ Bound(cur) /\ ~hRead[cur]
  /\ main' = IF HasMsg[cur] THEN "note" ELSE "command"
  /\ UNCHANGED <<cur, count, cut, key, presses, listVars, hWrite, threadVars,
                 eventVars, queueVars, freed>>

PutAsyncMessage ==
  /\ main = "note" /\ ~outLock[cur]
  /\ outq' = [outq EXCEPT ![cur] = Pushed(@, "ASYNC")]
  /\ main' = "noted"
  /\ UNCHANGED <<cur, count, cut, key, presses, listVars, hWrite, threadVars,
                 eventVars, inq, inLock, outLock, freed>>

NoteSignal ==
  /\ main = "noted"
  /\ hWrite' = TRUE
  /\ main' = "command"
  /\ UNCHANGED <<cur, count, cut, key, presses, listVars, threadVars,
                 eventVars, queueVars, freed>>

SetInputCmd ==
  /\ main = "command" /\ ~inLock[cur]
  /\ inq' = [inq EXCEPT ![cur] = Pushed(@, "PARSECMD")]
  /\ main' = "signal"
  /\ UNCHANGED <<cur, count, cut, key, presses, listVars, hWrite, threadVars,
                 eventVars, outq, inLock, outLock, freed>>

ExecuteCommand ==
  /\ main = "signal"
  /\ hRead' = [hRead EXCEPT ![cur] = TRUE]
  /\ main' = "scan" /\ cur' = cur + 1
  /\ UNCHANGED <<count, cut, key, presses, listVars, hWrite, threadVars,
                 hStart, hExit, queueVars, freed>>

-----------------------------------------------------------------------------
(* ExecuteModule: the main loop consumed hWrite.  It takes up to DrainMax  *)
(* entries from each module; at a module that gave that many it gives up,  *)
(* whatever the modules after it hold.                                     *)

DrainBegin ==
  /\ main = "loop" /\ hWrite
  /\ hWrite' = FALSE
  /\ main' = "drain" /\ cur' = 1 /\ count' = 0 /\ cut' = FALSE
  /\ UNCHANGED <<key, presses, listVars, threadVars, eventVars, queueVars,
                 freed>>

ReadOutputCmd ==
  /\ main = "drain" /\ cur <= listed /\ count < DrainMax
  /\ ~outLock[cur] /\ outq[cur] # <<>>
  /\ outq' = [outq EXCEPT ![cur] = Tail(@)]
  /\ count' = count + 1
  /\ UNCHANGED <<main, cur, cut, key, presses, listVars, hWrite, threadVars,
                 eventVars, inq, inLock, outLock, freed>>

\* Pop failed: the queue is empty, or the module is in the middle of a Push.
DrainNext ==
  /\ main = "drain" /\ cur <= listed /\ count < DrainMax
  /\ outLock[cur] \/ outq[cur] = <<>>
  /\ cur' = cur + 1 /\ count' = 0
  /\ UNCHANGED <<main, cut, key, presses, listVars, hWrite, threadVars,
                 eventVars, queueVars, freed>>

DrainCut ==
  /\ main = "drain" /\ cur <= listed /\ count = DrainMax
  /\ main' = "loop" /\ cut' = TRUE
  /\ UNCHANGED <<cur, count, key, presses, listVars, hWrite, threadVars,
                 eventVars, queueVars, freed>>

DrainEnd ==
  /\ main = "drain" /\ cur > listed
  /\ main' = "loop"
  /\ UNCHANGED <<cur, count, cut, key, presses, listVars, hWrite, threadVars,
                 eventVars, queueVars, freed>>

-----------------------------------------------------------------------------
(* Shutdown: Clear unlinks and frees the entries one by one.               *)

Quit ==
  /\ main = "loop"
  /\ main' = "clear" /\ cur' = 1
  /\ UNCHANGED <<count, cut, key, presses, listVars, hWrite, threadVars,
                 eventVars, queueVars, freed>>

FreeBegin ==
  /\ main = "clear" /\ cur <= listed
  /\ modCount' = modCount - 1
  /\ hExit' = [hExit EXCEPT ![cur] = TRUE]
  /\ main' = "join"
  /\ UNCHANGED <<cur, count, cut, key, presses, listed, hWrite, threadVars,
                 hStart, hRead, queueVars, freed>>

Joined ==
  /\ main = "join" /\ thr[cur] = "ended"
  /\ main' = "destroy"
  /\ UNCHANGED <<cur, count, cut, key, presses, listVars, hWrite, threadVars,
                 eventVars, queueVars, freed>>

\* Mutated: the entry is freed although its thread still runs.
TerminateNot ==
  /\ main = "join" /\ thr[cur] # "ended"
  /\ main' = "destroy"
  /\ UNCHANGED <<cur, count, cut, key, presses, listVars, hWrite, threadVars,
                 eventVars, queueVars, freed>>

\* The thread did not end within 1000 ms.  Its locks stay as they are.
Terminate ==
  /\ main = "join" /\ thr[cur] # "ended"
  /\ thr' = [thr EXCEPT ![cur] = "killed"]
  /\ main' = "destroy"
  /\ UNCHANGED <<cur, count, cut, key, presses, listVars, hWrite, mkey, todo,
                 eventVars, queueVars, freed>>

\* delete mm: the destructors of both queues wait for their locks forever.
Destroy ==
  /\ main = "destroy" /\ ~inLock[cur] /\ ~outLock[cur]
  /\ inq' = [inq EXCEPT ![cur] = <<>>]
  /\ outq' = [outq EXCEPT ![cur] = <<>>]
  /\ freed' = [freed EXCEPT ![cur] = TRUE]
  /\ main' = "clear" /\ cur' = cur + 1
  /\ UNCHANGED <<count, cut, key, presses, listVars, hWrite, threadVars,
                 eventVars, inLock, outLock>>

ClearEnd ==
  /\ main = "clear" /\ cur > listed
  /\ main' = "done"
  /\ UNCHANGED <<cur, count, cut, key, presses, listVars, hWrite, threadVars,
                 eventVars, queueVars, freed>>

-----------------------------------------------------------------------------
(* ThreadRoutine of module m.                                              *)

At(m, where) == main # "exited" /\ thr[m] = where

\* Open sets m_Key before it calls the plugin's d_init.
ThreadStart(m) ==
  /\ At(m, "waitStart") /\ hStart[m]
  /\ thr' = [thr EXCEPT ![m] = "opening"]
  /\ mkey' = [mkey EXCEPT ![m] = Key[m]]
  /\ UNCHANGED <<mainVars, listVars, hWrite, todo, eventVars, queueVars, freed>>

Opened(m) ==
  /\ At(m, "opening")
  /\ thr' = [thr EXCEPT ![m] = "wait"]
  /\ hStart' = [hStart EXCEPT ![m] = FALSE]
  /\ UNCHANGED <<mainVars, listVars, hWrite, mkey, todo, hExit, hRead,
                 queueVars, freed>>

\* d_init failed: the thread ends with hStart set and m_Key bound.
OpenFailed(m) ==
  /\ At(m, "opening")
  /\ thr' = [thr EXCEPT ![m] = "ended"]
  /\ UNCHANGED <<mainVars, listVars, hWrite, mkey, todo, eventVars, queueVars,
                 freed>>

\* hExit comes before hRead in the array of handles.
ThreadExit(m) ==
  /\ At(m, "wait") /\ hExit[m]
  /\ thr' = [thr EXCEPT ![m] = "ended"]
  /\ UNCHANGED <<mainVars, listVars, hWrite, mkey, todo, eventVars, queueVars,
                 freed>>

\* hRead: Execute tries the input queue's lock and finds a command, or it
\* returns -1 and nothing is said.
PopBegin(m) ==
  /\ At(m, "wait") /\ ~hExit[m] /\ hRead[m]
  /\ IF ~inLock[m] /\ inq[m] # <<>>
     THEN thr' = [thr EXCEPT ![m] = "pop"] /\ inLock' = [inLock EXCEPT ![m] = TRUE]
     ELSE thr' = [thr EXCEPT ![m] = "answer"] /\ UNCHANGED inLock
  /\ UNCHANGED <<mainVars, listVars, hWrite, mkey, todo, eventVars, inq, outq,
                 outLock, freed>>

PopEnd(m) ==
  /\ At(m, "pop")
  /\ inq' = [inq EXCEPT ![m] = Tail(@)]
  /\ inLock' = [inLock EXCEPT ![m] = FALSE]
  /\ todo' = [todo EXCEPT ![m] = <<"ENTER">>]
  /\ thr' = [thr EXCEPT ![m] = "enter"]
  /\ UNCHANGED <<mainVars, listVars, hWrite, mkey, eventVars, outq, outLock,
                 freed>>

\* Mutated: a module waits for room in a full output queue.
PushBeginWaiting(m) ==
  /\ thr[m] \in {"enter", "answer"} /\ At(m, thr[m])
  /\ todo[m] # <<>> /\ ~outLock[m] /\ Len(outq[m]) < CmdMax
  /\ outLock' = [outLock EXCEPT ![m] = TRUE]
  /\ UNCHANGED <<mainVars, listVars, hWrite, threadVars, eventVars, inq, outq,
                 inLock, freed>>

PushBegin(m) ==
  /\ thr[m] \in {"enter", "answer"} /\ At(m, thr[m])
  /\ todo[m] # <<>> /\ ~outLock[m]
  /\ outLock' = [outLock EXCEPT ![m] = TRUE]
  /\ UNCHANGED <<mainVars, listVars, hWrite, threadVars, eventVars, inq, outq,
                 inLock, freed>>

PushEnd(m) ==
  /\ thr[m] \in {"enter", "answer"} /\ At(m, thr[m]) /\ outLock[m]
  /\ outq' = [outq EXCEPT ![m] = Pushed(@, Head(todo[m]))]
  /\ todo' = [todo EXCEPT ![m] = Tail(@)]
  /\ outLock' = [outLock EXCEPT ![m] = FALSE]
  /\ UNCHANGED <<mainVars, listVars, hWrite, thr, mkey, eventVars, inq, inLock,
                 freed>>

\* d_process returned and the answer is split into parts; an error is one
\* "database unavailable" message.
Process(m) ==
  /\ At(m, "enter") /\ todo[m] = <<>>
  /\ \E r \in Replies \cup {<<"MESSAGE">>} :
       todo' = [todo EXCEPT ![m] = Append(r, "LEAVE")]
  /\ thr' = [thr EXCEPT ![m] = "answer"]
  /\ UNCHANGED <<mainVars, listVars, hWrite, mkey, eventVars, queueVars, freed>>

\* Mutated: hRead is reset before the command is executed.
ResetReadEarly(m) ==
  /\ At(m, "answer")
  /\ hRead' = [hRead EXCEPT ![m] = FALSE]
  /\ thr' = [thr EXCEPT ![m] = IF todo[m] = <<>> THEN "raise" ELSE @]
  /\ UNCHANGED <<mainVars, listVars, hWrite, mkey, todo, hStart, hExit,
                 queueVars, freed>>

ResetRead(m) ==
  /\ At(m, "answer") /\ todo[m] = <<>>
  /\ hRead' = [hRead EXCEPT ![m] = FALSE]
  /\ thr' = [thr EXCEPT ![m] = "raise"]
  /\ UNCHANGED <<mainVars, listVars, hWrite, mkey, todo, hStart, hExit,
                 queueVars, freed>>

\* Mutated: the shared event is only set when the queue was just started.
RaiseWriteFirst(m) ==
  /\ At(m, "raise")
  /\ hWrite' = (hWrite \/ Len(outq[m]) = 1)
  /\ thr' = [thr EXCEPT ![m] = "wait"]
  /\ UNCHANGED <<mainVars, listVars, mkey, todo, eventVars, queueVars, freed>>

RaiseWrite(m) ==
  /\ At(m, "raise")
  /\ hWrite' = TRUE
  /\ thr' = [thr EXCEPT ![m] = "wait"]
  /\ UNCHANGED <<mainVars, listVars, mkey, todo, eventVars, queueVars, freed>>

-----------------------------------------------------------------------------
Startup  == Insert \/ InitBegin \/ InitStart \/ InitNext \/ InitEnd
KeyScan  == \/ ScanSkip \/ ScanEnd \/ ScanFound \/ PutAsyncMessage
            \/ NoteSignal \/ SetInputCmd \/ ExecuteCommand
Drain    == DrainBegin \/ ReadOutputCmd \/ DrainNext \/ DrainCut \/ DrainEnd
Shutdown == FreeBegin \/ Joined \/ Terminate \/ Destroy \/ ClearEnd
User     == KeyDown \/ Quit \/ InitQuit

\* The plugin's d_init and d_process return, whenever they like.
Plugin(m) == Opened(m) \/ OpenFailed(m) \/ Process(m)

Thread(m) ==
  \/ ThreadStart(m) \/ ThreadExit(m) \/ PopBegin(m) \/ PopEnd(m)
  \/ PushBegin(m) \/ PushEnd(m) \/ ResetRead(m) \/ RaiseWrite(m)

MainStep == Startup \/ KeyScan \/ Drain \/ Shutdown

Next == MainStep \/ User \/ \E m \in Modules : Thread(m) \/ Plugin(m)

(***************************************************************************)
(* The main loop keeps running, and so does every thread outside the       *)
(* plugin.  The user need not do anything, and a call of the plugin need   *)
(* not return.                                                             *)
(***************************************************************************)
Fairness == WF_vars(MainStep) /\ \A m \in Modules : WF_vars(Thread(m))

Spec == Init /\ [][Next]_vars /\ Fairness

-----------------------------------------------------------------------------
Closing == main \in {"clear", "join", "destroy", "done", "exited"}

MainTypeOK ==
  /\ main \in {"load", "start", "await", "loop", "scan", "note", "noted",
               "command", "signal", "drain", "clear", "join", "destroy",
               "done", "exited"}
  /\ cur \in 1..(N + 1) /\ count \in 0..DrainMax /\ cut \in BOOLEAN
  /\ key \in Keys \cup {0} /\ presses \in 0..MaxPresses
  /\ listed \in 0..N /\ modCount \in 0..N /\ modCount <= MaxModules
  /\ hWrite \in BOOLEAN

ThreadTypeOK ==
  /\ thr \in [Modules -> {"absent", "waitStart", "opening", "wait", "pop",
                          "enter", "answer", "raise", "ended", "killed"}]
  /\ mkey \in [Modules -> Nat]
  /\ hStart \in [Modules -> BOOLEAN] /\ hExit \in [Modules -> BOOLEAN]
  /\ hRead \in [Modules -> BOOLEAN]
  /\ inLock \in [Modules -> BOOLEAN] /\ outLock \in [Modules -> BOOLEAN]
  /\ freed \in [Modules -> BOOLEAN]

QueueTypeOK ==
  /\ inq \in [Modules -> Seq({"PARSECMD"})]
  /\ outq \in [Modules -> Seq(Kind)]
  /\ todo \in [Modules -> Seq(Kind)]
  /\ \A m \in Modules : Len(outq[m]) <= CmdMax

\* The queues and the module count stay within their capacities.
TypeOK == MainTypeOK /\ ThreadTypeOK /\ QueueTypeOK

Executing(m) == thr[m] \in {"pop", "enter", "answer"}

(***************************************************************************)
(* The event hRead is a token for the single command a module may hold.    *)
(* While it is set there is exactly one command, waiting or being          *)
(* executed; while it is not set there is none, except between             *)
(* SetInputCmd and Execute in the main thread, and the module's thread     *)
(* does not touch the input queue.  Hence CModule::Execute never finds     *)
(* its queue empty or locked, and a command is neither lost nor run twice. *)
(***************************************************************************)
CommandHandshake ==
  \A m \in Modules : thr[m] # "killed" /\ ~freed[m] =>
    /\ Executing(m) => hRead[m]
    /\ inLock[m] <=> thr[m] = "pop"
    /\ Len(inq[m]) = IF \/ main = "signal" /\ cur = m
                        \/ hRead[m] /\ thr[m] \notin {"enter", "answer"}
                     THEN 1 ELSE 0

(***************************************************************************)
(* Nothing a module said is forgotten: while its output queue holds        *)
(* entries, either the shared event hWrite is set, or the main thread is   *)
(* still going to visit the module in the ExecuteModule that runs, or the  *)
(* module will set the event when it finishes its command (so an entry     *)
(* skipped because the queue was locked is found again), or the last       *)
(* ExecuteModule gave up at DrainMax entries: what is left then waits for  *)
(* the next event, whichever module raises it.                             *)
(***************************************************************************)
NoStrandedOutput ==
  \A m \in Modules :
    outq[m] # <<>> => \/ hWrite \/ cut \/ Closing
                      \/ main = "drain" /\ cur <= m
                      \/ main = "noted" /\ cur = m
                      \/ thr[m] \in {"enter", "answer", "raise"}

\* free_item deletes a module only when its thread has ended or is
\* terminated: no thread runs code, or takes a queue, of a deleted module.
FreedIsQuiet ==
  \A m \in Modules : freed[m] => /\ thr[m] \in {"ended", "killed"}
                                 /\ ~inLock[m] /\ ~outLock[m]

InPlugin(m) == thr[m] = "opening" \/ (thr[m] = "enter" /\ todo[m] = <<>>)
PluginReturns(m) == []<>~InPlugin(m)

\* If the plugin's calls return, a command accepted from a key press is
\* executed to its end and the module becomes free for the next one, unless
\* the plugin could not be opened or the terminal closes.
EveryCommandAnswered ==
  \A m \in Modules : PluginReturns(m) =>
    (hRead[m] ~> (~hRead[m] \/ thr[m] = "ended" \/ Closing))

\* If the plugin's calls return, what a module said is taken by the main
\* thread, unless ExecuteModule gave up at its limit or the terminal closes.
OutputTaken ==
  \A m \in Modules : PluginReturns(m) =>
    (outq[m] # <<>> ~> (outq[m] = <<>> \/ cut \/ Closing))

\* Shutdown waits for no plugin thread for ever, whatever the plugin's calls
\* do.  It does hang, in the
\* destructor of a queue, if TerminateThread hit the thread while it held
\* that queue's lock.
Orphaned(m) == thr[m] = "killed" /\ (inLock[m] \/ outLock[m])

ShutdownEnds ==
  main = "clear" ~> (main = "done" \/ \E m \in Modules : Orphaned(m))

(***************************************************************************)
(* The modules implement ModuleService: one command at a time, its answer  *)
(* said in full and in order before the next command is accepted.          *)
(***************************************************************************)
ModeOf(m) ==
  CASE thr[m] \in {"ended", "killed"}             -> "stopped"
    [] thr[m] = "enter"  /\ todo[m] = <<>>        -> "working"
    [] thr[m] = "answer" /\ todo[m] # <<>>        -> "working"
    [] thr[m] = "answer" /\ todo[m] = <<>>        -> "left"
    [] thr[m] \in {"absent", "waitStart", "opening", "wait", "raise", "pop"}
         /\ ~hRead[m]                             -> "idle"
    [] OTHER                                      -> "asked"

Service == INSTANCE ModuleService
             WITH mode <- [m \in Modules |-> ModeOf(m)], out <- outq

ImplementsService == Service!Spec

=============================================================================
