------------------------------ MODULE Keyboard ------------------------------
(***************************************************************************)
(* The keyboard (base/kbd.cpp): the table of codes and key names read at   *)
(* start-up, the flags that follow the modifier keys, and what a key press *)
(* triggers: the reset, the layout, the banners, the commands of modules   *)
(* (CModuleBase::ExecuteCommandIfFound, base/mcore.cpp), and the bytes     *)
(* sent.                                                                   *)
(*                                                                         *)
(* The window gets key messages only while it has the focus.  A key counts *)
(* as held (held) when it is down according to the messages handled so     *)
(* far, or, without the focus, in fact.                                    *)
(*                                                                         *)
(* A name in the configuration, such as "ctrl+KEY_F3", is a sequence of    *)
(* modifiers and the name of a key.  Whether a module is busy with an      *)
(* earlier command is left open here: see ModuleBase.                      *)
(***************************************************************************)
EXTENDS Integers, Sequences

CONSTANTS Key,        \* the keys of the keyboard
          Name,       \* names of keys
          Line,       \* lines the keyboard's table may have
          MaxLines,   \* bound: lines of the table
          Binding,    \* names the configuration may give
          Modules,    \* modules are numbered in the order of their list
          Nothing,    \* no name is given; no chord
          MaxPresses  \* bound: presses counted by count_pressKey

Byte == 0 .. 255
\* The codes of a key: a row for each layout, with four columns; the high byte
\* of a code, and the low byte.
Codes == [{0, 1} \X (0 .. 3) -> Byte \X Byte]

ConstantsAssumption ==
  /\ Key \subseteq [scan : 0 .. 255, ench : {0, 1}]
  /\ Line \subseteq [name : Name, key : Key, codes : Codes]
  /\ Binding \subseteq
       [modifiers : Seq({"ctrl", "alt", "shift", "other"}), name : Name]
  /\ MaxLines \in Nat /\ Modules \in Nat /\ MaxPresses \in Nat
  /\ Nothing \notin Binding /\ Nothing \notin Key
  /\ Nothing \notin [ctrl : {0, 1}, shift : {0, 1}, key : Key]

ASSUME ConstantsAssumption

Module == 1 .. Modules
Layout  == 0
Reset   == -1
Banners == -2
Ask     == -3
Purpose == {Reset, Layout} \cup Module    \* what the configuration binds
Effect  == {Banners, Ask} \cup Purpose    \* what a key press triggers
Chord == [ctrl : {0, 1}, shift : {0, 1}, key : Key]

VARIABLES pc,       \* the main thread reads the table, runs, or asks
          lines,    \* lines of the table read
          keyOf,    \* _key_name_define: the key of a name, or Nothing
          table,    \* _table_keys
          config,   \* the configuration: the name of a purpose, or Nothing
          chord,    \* key_dopt_reset, key_dopt_rus, and m_Key of each module
          opened,   \* modules whose thread has called Open
          focus, held,
          ctrl, shift, g_Lang, count_pressKey,
          cyrillic, \* the status line says CYRILLIC
          pressed,  \* the key pressed last,
          ran,      \* what it triggered,
          sent      \* and the bytes it sent, while no other key comes

names    == <<lines, keyOf, table>>
bindings == <<config, chord, opened>>
user     == <<focus, held>>
modifiers == <<ctrl, shift>>
effects  == <<g_Lang, count_pressKey, cyrillic>>
outcome  == <<pressed, ran, sent>>
vars == <<pc, names, bindings, user, modifiers, effects, outcome>>

TypeOK ==
  /\ pc \in {"reading", "running", "asking", "ended"}
  /\ lines \in Nat
  /\ keyOf \in [Name -> Key \cup {Nothing}]
  /\ table \in [Key -> Codes]
  /\ config \in [Purpose -> Binding \cup {Nothing}]
  /\ chord \in [Purpose -> Chord \cup {Nothing}]
  /\ opened \subseteq Module
  /\ focus \in BOOLEAN /\ held \subseteq Key
  /\ ctrl \in {0, 1} /\ shift \in {0, 1} /\ g_Lang \in {0, 1}
  /\ count_pressKey \in Nat /\ cyrillic \in BOOLEAN
  /\ pressed \in Key \cup {Nothing}
  /\ ran \subseteq Effect
  /\ sent \in Seq(Byte)

-----------------------------------------------------------------------------
\* CTRL is true of the Alt keys too, and of both keys of a pair.
CTRL(k) == k.scan \in {29, 56}
SHIFT(k) == k.scan \in {42, 54} /\ k.ench = 0

\* ctrl+shift+F4
ExitKey(k) == k.scan = 62 /\ k.ench = 0

\* SHIFT + KEY_CT
IsClearChord(t) == t.ctrl = 0 /\ t.shift = 1 /\ t.key = [scan |-> 119, ench |-> 1]

\* Mutated: Shift and Ctrl exchanged.
str_key_to_scan_swapped(b) ==
  IF b = Nothing \/ keyOf[b.name] = Nothing THEN Nothing
  ELSE IF b.modifiers = <<>> THEN [ctrl |-> 0, shift |-> 0, key |-> keyOf[b.name]]
  ELSE IF b.modifiers[1] = "other" THEN Nothing
  ELSE LET c == IF b.modifiers[1] = "shift" THEN 1 ELSE 0
       IN  [ctrl |-> c, shift |-> 1 - c, key |-> keyOf[b.name]]

\* For each modifier the loop looks at the beginning of the whole name again, so
\* only the first one counts.
str_key_to_scan(b) ==
  IF b = Nothing \/ keyOf[b.name] = Nothing THEN Nothing
  ELSE IF b.modifiers = <<>> THEN [ctrl |-> 0, shift |-> 0, key |-> keyOf[b.name]]
  ELSE IF b.modifiers[1] = "other" THEN Nothing
  ELSE LET s == IF b.modifiers[1] = "shift" THEN 1 ELSE 0
       IN  [ctrl |-> 1 - s, shift |-> s, key |-> keyOf[b.name]]

\* The column of the table: Ctrl takes those of the other layout.
Code(k) ==
  table[k][<<IF g_Lang = ctrl THEN 0 ELSE 1, 2 * ctrl + shift>>]

\* The high byte first, if it is not zero; a key without a code sends a zero.
Bytes(code) == IF code[1] # 0 THEN code ELSE <<code[2]>>

-----------------------------------------------------------------------------
(* keyboard_init: the table, and the two keys of the terminal itself.      *)

\* A line that is read in full counts: for its key, and for its name, whatever
\* other lines gave them before.
ReadLine ==
  /\ pc = "reading" /\ lines < MaxLines /\ lines' = lines + 1
  /\ \E l \in Line :
       /\ keyOf' = [keyOf EXCEPT ![l.name] = l.key]
       /\ table' = [table EXCEPT ![l.key] = l.codes]
  /\ UNCHANGED <<pc, bindings, user, modifiers, effects, outcome>>

\* There is no table, or a line is bad: the program ends.
BadTable ==
  /\ pc = "reading" /\ pc' = "ended"
  /\ UNCHANGED <<names, bindings, user, modifiers, effects, outcome>>

TableRead ==
  /\ pc = "reading" /\ pc' = "running"
  /\ chord' = [chord EXCEPT ![Reset] = str_key_to_scan(config[Reset]),
                            ![Layout] = str_key_to_scan(config[Layout])]
  /\ UNCHANGED <<names, config, opened, user, modifiers, effects, outcome>>

\* CModule::Open, in the thread of the module.
OpenModule ==
  /\ pc \in {"running", "asking"}
  /\ \E m \in Module \ opened :
       /\ opened' = opened \cup {m}
       /\ chord' = [chord EXCEPT ![m] = str_key_to_scan(config[m])]
  /\ UNCHANGED <<pc, names, config, user, modifiers, effects, outcome>>

-----------------------------------------------------------------------------
(* keyboard_input, called from WndProc                                     *)

Dispatched == pc = "running" /\ focus

Quiet == pressed' = Nothing /\ ran' = {} /\ sent' = <<>>

ModifierDown ==
  /\ Dispatched
  /\ \E k \in Key :
       /\ held' = held \cup {k}
       /\ \/ CTRL(k) /\ ctrl' = 1 /\ UNCHANGED shift
          \/ ~CTRL(k) /\ SHIFT(k) /\ shift' = 1 /\ UNCHANGED ctrl
  /\ Quiet
  /\ UNCHANGED <<pc, names, bindings, focus, effects>>

\* The flag goes with the first key of a pair that is released.
Up ==
  /\ Dispatched
  /\ \E k \in held :
       /\ held' = held \ {k}
       /\ ctrl' = (IF CTRL(k) THEN 0 ELSE ctrl)
       /\ shift' = (IF ~CTRL(k) /\ SHIFT(k) THEN 0 ELSE shift)
  /\ Quiet
  /\ UNCHANGED <<pc, names, bindings, focus, effects>>

\* keyboard_input returns 1, and WndProc asks whether to end the program.
AskExit ==
  /\ Dispatched /\ ctrl = 1 /\ shift = 1
  /\ \E k \in Key :
       /\ ExitKey(k)
       /\ held' = held \cup {k} /\ pressed' = k
  /\ ran' = {Ask} /\ sent' = <<>>
  /\ pc' = "asking" /\ focus' = FALSE
  /\ UNCHANGED <<names, bindings, modifiers, effects>>

\* ExecuteCommandIfFound: a module that is busy ends the search.
Executed(t, busy) ==
  {m \in Module : chord[m] = t /\ \A b \in busy : chord[b] = t => m < b}

\* Every other key: one of the terminal's two keys, or the banners are cleared if
\* it is time; then the modules, and the line.  WM_KEYDOWN comes with a repeat
\* count, of which only the lowest bit counts.
Press ==
  \E k \in Key, busy \in SUBSET Module, rp \in {1, 2} :
    LET t == [ctrl |-> ctrl, shift |-> shift, key |-> k]
        reset   == chord[Reset] = t
        layout  == ~reset /\ chord[Layout] = t
        banners == ~reset /\ ~layout /\ (IsClearChord(t) \/ count_pressKey >= 3)
    IN  /\ Dispatched /\ count_pressKey < MaxPresses
        /\ ~CTRL(k) /\ ~SHIFT(k) /\ ~(ExitKey(k) /\ ctrl = 1 /\ shift = 1)
        /\ held' = held \cup {k} /\ pressed' = k
        /\ count_pressKey' = (IF banners THEN 0 ELSE count_pressKey + 1)
        /\ g_Lang' = (IF layout THEN 1 - g_Lang ELSE g_Lang)
        /\ cyrillic' = (IF layout THEN g_Lang = 0 ELSE cyrillic /\ ~reset)
        /\ ran' = {p \in {Reset} : reset} \cup {p \in {Layout} : layout}
                  \cup {p \in {Banners} : banners} \cup Executed(t, busy)
        /\ sent' = (IF rp % 2 = 1 THEN Bytes(Code(k)) ELSE <<>>)
        /\ UNCHANGED <<pc, names, bindings, focus, modifiers>>

-----------------------------------------------------------------------------
(* The focus                                                               *)

LoseFocus ==
  /\ Dispatched /\ focus' = FALSE
  /\ Quiet
  /\ UNCHANGED <<pc, names, bindings, held, modifiers, effects>>

\* Keys go up and down elsewhere.
OtherKeys ==
  /\ ~focus /\ pc \in {"running", "asking"}
  /\ held' \in SUBSET Key
  /\ Quiet
  /\ UNCHANGED <<pc, names, bindings, focus, modifiers, effects>>

\* Mutated: one of the two flags is left alone.
clear_shift == shift' = 0 /\ ctrl' = ctrl

keyboard_clear_flags == ctrl' = 0 /\ shift' = 0

\* WM_SETFOCUS; also when the question is answered with no.
SetFocus ==
  /\ ~focus /\ pc \in {"running", "asking"}
  /\ pc' = "running" /\ focus' = TRUE
  /\ keyboard_clear_flags
  /\ Quiet
  /\ UNCHANGED <<names, bindings, held, effects>>

\* ... and with yes.
Exit ==
  /\ pc = "asking" /\ pc' = "ended"
  /\ Quiet
  /\ UNCHANGED <<names, bindings, user, modifiers, effects>>

-----------------------------------------------------------------------------
\* The window had the focus, if it had it at all, before the table is read.
Init ==
  /\ pc = "reading" /\ lines = 0
  /\ keyOf = [n \in Name |-> Nothing]
  /\ table = [k \in Key |-> [c \in {0, 1} \X (0 .. 3) |-> <<0, 0>>]]
  /\ config \in [Purpose -> Binding \cup {Nothing}]
  /\ chord = [p \in Purpose |-> Nothing] /\ opened = {}
  /\ focus \in BOOLEAN /\ held \in SUBSET Key
  /\ ctrl = 0 /\ shift = 0 /\ g_Lang = 0 /\ count_pressKey = 0
  /\ cyrillic = FALSE
  /\ pressed = Nothing /\ ran = {} /\ sent = <<>>

\* The program has ended, or the bound on presses is reached.
Next ==
  \/ ReadLine \/ BadTable \/ TableRead \/ OpenModule
  \/ ModifierDown \/ Up \/ AskExit \/ Press
  \/ LoseFocus \/ OtherKeys \/ SetFocus \/ Exit

Spec == Init /\ [][Next]_vars

-----------------------------------------------------------------------------
(* Properties *)

CtrlHeld  == \E k \in held : CTRL(k)
ShiftHeld == \E k \in held : SHIFT(k)

\* While the window has the focus, no flag is stuck: one that is set means that
\* one of its keys is down, whatever keys went up and down while the window had
\* no focus or asked whether to exit.
HeldModifiers == focus => (ctrl = 1 => CtrlHeld) /\ (shift = 1 => ShiftHeld)

\* The key of a name, and the first of its modifiers, are down.
Given(b) ==
  /\ b # Nothing /\ keyOf[b.name] = pressed
  /\ b.modifiers = <<>>
     \/ IF b.modifiers[1] = "shift" THEN ShiftHeld ELSE CtrlHeld

\* A key press runs a module, resets the terminal or changes the layout only when
\* the key is the one that the table's last line for the configured name gives,
\* and the first modifier of the name is down; the question whether to exit comes
\* only with both Ctrl and Shift down.
RunAsNamed ==
  /\ \A p \in ran \cap Purpose : Given(config[p])
  /\ Ask \in ran => CtrlHeld /\ ShiftHeld
=============================================================================
