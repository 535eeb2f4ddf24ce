--------------------------- MODULE ModuleService ---------------------------
(***************************************************************************)
(* What the plugin modules promise the rest of the terminal, without       *)
(* threads, events or locks.  A module is a server with one slot.  It      *)
(* accepts one command, announces that it entered it, gives the parts of   *)
(* its answer, announces that it left it, and only then accepts the next.  *)
(* Whatever it says goes through a queue of at most CmdMax entries: an     *)
(* entry that finds the queue full is dropped, and the rest is taken in    *)
(* the order it was said.  The terminal may add a note of its own          *)
(* ("please wait") while the module is not serving.                        *)
(*                                                                         *)
(* ModuleBase is shown to implement this specification.                    *)
(***************************************************************************)
EXTENDS Naturals, Sequences

CONSTANTS Modules,   \* the modules
          CmdMax     \* capacity of a module's output queue

VARIABLES mode,      \* mode[m]: where m stands in serving a command
          out        \* out[m]: what m said and nobody took yet, oldest first

serviceVars == <<mode, out>>

Mode == {"idle", "asked", "working", "left", "stopped"}
Part == {"MESSAGE", "MESSAGE2", "SEND"}
Kind == {"ASYNC", "ENTER", "LEAVE"} \cup Part

Init == /\ mode = [m \in Modules |-> "idle"]
        /\ out  = [m \in Modules |-> <<>>]

Move(m, from, to) == /\ mode[m] = from
                     /\ mode' = [mode EXCEPT ![m] = to]

\* Saying k with a full queue loses k, never an older entry.
Say(m, k) ==
  out' = [out EXCEPT ![m] = IF Len(@) < CmdMax THEN Append(@, k) ELSE @]

Accept(m) == Move(m, "idle", "asked")    /\ UNCHANGED out
Enter(m)  == Move(m, "asked", "working") /\ Say(m, "ENTER")
Answer(m) == /\ mode[m] = "working"
             /\ \E k \in Part : Say(m, k)
             /\ UNCHANGED mode
Leave(m)  == Move(m, "working", "left")  /\ Say(m, "LEAVE")
Finish(m) == Move(m, "left", "idle")     /\ UNCHANGED out

Note(m) == /\ mode[m] \in {"idle", "stopped"}
           /\ Say(m, "ASYNC")
           /\ UNCHANGED mode

Take(m) == /\ out[m] # <<>>
           /\ out' = [out EXCEPT ![m] = Tail(@)]
           /\ UNCHANGED mode

Stop(m) == /\ mode[m] # "stopped"
           /\ mode' = [mode EXCEPT ![m] = "stopped"]
           /\ UNCHANGED out

Discard(m) == /\ mode[m] = "stopped"
              /\ out' = [out EXCEPT ![m] = <<>>]
              /\ UNCHANGED mode

Next == \E m \in Modules :
          \/ Accept(m) \/ Enter(m) \/ Answer(m) \/ Leave(m) \/ Finish(m)
          \/ Note(m) \/ Take(m) \/ Stop(m) \/ Discard(m)

Spec == Init /\ [][Next]_serviceVars
=============================================================================
