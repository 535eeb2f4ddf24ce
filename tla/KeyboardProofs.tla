--------------------------- MODULE KeyboardProofs ---------------------------
(***************************************************************************)
(* Proofs about the keyboard: no flag of a modifier is stuck, and a key    *)
(* press does only what the configuration and the table name it for,       *)
(* whatever the keyboard, the table, the configuration and the modules.    *)
(***************************************************************************)
EXTENDS Keyboard, TLAPS

\* A chord that is bound is the one its name had when the table was read, and
\* until then nothing is bound and nothing can be triggered.
Bound ==
  /\ \A p \in Purpose : chord[p] # Nothing => chord[p] = str_key_to_scan(config[p])
  /\ pc = "reading" => ran = {} /\ \A p \in Purpose : chord[p] = Nothing

Inv == TypeOK /\ HeldModifiers /\ Bound /\ RunAsNamed

-----------------------------------------------------------------------------
(* Lemmas about the operators                                              *)

\* A name stands for a chord of a key, or for nothing.
LEMMA ScanType ==
  ASSUME TypeOK, NEW b \in Binding \cup {Nothing}
  PROVE  str_key_to_scan(b) \in Chord \cup {Nothing}
<1>1. CASE b = Nothing
  BY <1>1 DEF str_key_to_scan
<1>2. CASE b # Nothing
  <2>1. b.name \in Name
    BY <1>2, ConstantsAssumption DEF ConstantsAssumption
  <2>2. keyOf[b.name] \in Key \cup {Nothing}
    BY <2>1 DEF TypeOK
  <2>3. \A s \in {0, 1} : 1 - s \in {0, 1}
    OBVIOUS
  <2> QED BY <1>2, <2>2, <2>3 DEF str_key_to_scan, Chord
<1> QED BY <1>1, <1>2

\* A code is sent as one byte or two.
LEMMA CodeBytes ==
  ASSUME TypeOK, NEW k \in Key
  PROVE  Bytes(Code(k)) \in Seq(Byte)
<1> DEFINE row == IF g_Lang = ctrl THEN 0 ELSE 1
<1> DEFINE place == <<row, 2 * ctrl + shift>>
<1>1. place \in {0, 1} \X (0 .. 3)
  <2>1. ctrl \in {0, 1} /\ shift \in {0, 1}
    BY DEF TypeOK
  <2>2. 2 * ctrl + shift \in 0 .. 3
    BY <2>1
  <2> QED BY <2>2
<1>2. table[k] \in [{0, 1} \X (0 .. 3) -> Byte \X Byte]
  BY DEF TypeOK, Codes
<1>6. Code(k) = table[k][place]
  BY DEF Code
<1>3. Code(k) \in Byte \X Byte
  <2> HIDE DEF place
  <2> QED BY <1>1, <1>2, <1>6
<1>4. PICK h \in Byte, b \in Byte : Code(k) = <<h, b>>
  BY <1>3
<1>5. <<h, b>> \in Seq(Byte) /\ <<b>> \in Seq(Byte)
  OBVIOUS
<1> QED BY <1>4, <1>5 DEF Bytes

\* A chord that is pressed is the key of its name, with the flag of the name's
\* first modifier set.
LEMMA ChordOfName ==
  ASSUME NEW b, NEW k \in Key, NEW c \in {0, 1}, NEW s \in {0, 1},
         str_key_to_scan(b) = [ctrl |-> c, shift |-> s, key |-> k]
  PROVE  /\ b # Nothing /\ keyOf[b.name] = k
         /\ \/ b.modifiers = <<>>
            \/ b.modifiers[1] = "shift" /\ s = 1
            \/ b.modifiers[1] # "shift" /\ c = 1
<1> DEFINE t == [ctrl |-> c, shift |-> s, key |-> k]
<1>1. t # Nothing
  BY ConstantsAssumption DEF ConstantsAssumption
<1>2. b # Nothing /\ keyOf[b.name] # Nothing
  BY <1>1 DEF str_key_to_scan
<1>3. CASE b.modifiers = <<>>
  BY <1>1, <1>2, <1>3 DEF str_key_to_scan
<1>4. CASE b.modifiers # <<>>
  <2>1. b.modifiers[1] # "other"
    BY <1>1, <1>2, <1>4 DEF str_key_to_scan
  <2>2. t = [ctrl |-> 1 - (IF b.modifiers[1] = "shift" THEN 1 ELSE 0),
             shift |-> IF b.modifiers[1] = "shift" THEN 1 ELSE 0,
             key |-> keyOf[b.name]]
    BY <1>2, <1>4, <2>1 DEF str_key_to_scan
  <2> QED BY <1>2, <2>2
<1> QED BY <1>3, <1>4

-----------------------------------------------------------------------------
(* The invariant is inductive                                              *)

LEMMA InitInv == Init => Inv
<1> SUFFICES ASSUME Init PROVE Inv
  OBVIOUS
<1>1. [c \in {0, 1} \X (0 .. 3) |-> <<0, 0>>] \in Codes
  BY DEF Codes, Byte
<1>2. table \in [Key -> Codes]
  BY <1>1 DEF Init
<1>3. TypeOK
  <2>1. keyOf \in [Name -> Key \cup {Nothing}] /\ chord \in [Purpose -> Chord \cup {Nothing}]
    BY DEF Init
  <2>2. ran \subseteq Effect /\ sent \in Seq(Byte) /\ opened \subseteq Module /\ held \subseteq Key
    BY DEF Init
  <2> QED BY <1>2, <2>1, <2>2 DEF Init, TypeOK
<1>4. HeldModifiers /\ Bound /\ RunAsNamed
  BY DEF Init, HeldModifiers, Bound, RunAsNamed
<1> QED BY <1>3, <1>4 DEF Inv

\* While the table is read nothing is bound: the names may change.
LEMMA ReadingStep ==
  ASSUME Inv, ReadLine \/ BadTable \/ TableRead
  PROVE  Inv'
<1> USE DEF Inv
<1>0. pc = "reading" /\ ran = {}
  BY DEF ReadLine, BadTable, TableRead, Bound
<1>1. CASE ReadLine
  <2> USE <1>1 DEF ReadLine, bindings, user, modifiers, effects, outcome
  <2>1. PICK l \in Line : /\ keyOf' = [keyOf EXCEPT ![l.name] = l.key]
                          /\ table' = [table EXCEPT ![l.key] = l.codes]
    OBVIOUS
  <2>2. l.name \in Name /\ l.key \in Key
        /\ l.codes \in Codes
    BY ConstantsAssumption DEF ConstantsAssumption
  <2>3. keyOf' \in [Name -> Key \cup {Nothing}]
    BY <2>1, <2>2 DEF TypeOK
  <2>4. table' \in [Key -> Codes]
    BY <2>1, <2>2 DEF TypeOK
  <2>5. TypeOK'
    BY <2>3, <2>4 DEF TypeOK
  <2>6. HeldModifiers' /\ RunAsNamed'
    BY <1>0 DEF HeldModifiers, CtrlHeld, ShiftHeld, RunAsNamed
  <2>7. Bound'
    BY <1>0 DEF Bound
  <2> QED BY <2>5, <2>6, <2>7
<1>2. CASE BadTable
  <2> USE <1>2 DEF BadTable, names, bindings, user, modifiers, effects, outcome
  <2>1. TypeOK'
    BY DEF TypeOK
  <2>2. HeldModifiers' /\ RunAsNamed'
    BY <1>0 DEF HeldModifiers, CtrlHeld, ShiftHeld, RunAsNamed
  <2>3. Bound'
    BY <1>0 DEF Bound
  <2> QED BY <2>1, <2>2, <2>3
<1>3. CASE TableRead
  <2>0. keyOf' = keyOf /\ config' = config /\ pc' = "running"
    BY <1>3 DEF TableRead, names
  <2>5. Bound'
    <3>1. \A p \in Purpose :
            chord'[p] # Nothing => chord'[p] = str_key_to_scan(config[p])
      BY <1>0, <1>3 DEF TableRead, TypeOK, Bound, Purpose
    <3>2. \A p \in Purpose :
            str_key_to_scan(config[p])' = str_key_to_scan(config[p])
      BY <2>0 DEF str_key_to_scan
    <3> QED BY <2>0, <3>1, <3>2 DEF Bound
  <2> USE <1>3 DEF TableRead, names, user, modifiers, effects, outcome
  <2>1. \A p \in {Reset, Layout} : str_key_to_scan(config[p]) \in Chord \cup {Nothing}
    BY ScanType DEF TypeOK, Purpose
  <2>2. TypeOK'
    BY <2>1 DEF TypeOK, Purpose
  <2>3. HeldModifiers' /\ RunAsNamed'
    BY <1>0 DEF HeldModifiers, CtrlHeld, ShiftHeld, RunAsNamed
  <2> QED BY <2>2, <2>3, <2>5
<1> QED BY <1>1, <1>2, <1>3

\* A module that is opened is bound to the chord of its name.
LEMMA OpenStep ==
  ASSUME Inv, OpenModule
  PROVE  Inv'
<1> USE DEF Inv, OpenModule, names, user, modifiers, effects, outcome
<1>1. PICK m \in Module \ opened :
        /\ opened' = opened \cup {m}
        /\ chord' = [chord EXCEPT ![m] = str_key_to_scan(config[m])]
  OBVIOUS
<1>2. str_key_to_scan(config[m]) \in Chord \cup {Nothing}
  BY ScanType DEF TypeOK, Purpose
<1>3. TypeOK'
  BY <1>1, <1>2 DEF TypeOK, Purpose
<1>4. \A p \in Purpose : chord'[p] # Nothing => chord'[p] = str_key_to_scan(config[p])
  BY <1>1 DEF TypeOK, Bound, Purpose
<1>5. Bound'
  BY <1>4 DEF Bound, str_key_to_scan
<1>6. HeldModifiers' /\ RunAsNamed'
  BY DEF HeldModifiers, CtrlHeld, ShiftHeld, RunAsNamed, Given
<1> QED BY <1>3, <1>5, <1>6

\* A step that triggers nothing and binds nothing.
LEMMA QuietStep ==
  ASSUME Inv, Quiet, UNCHANGED <<names, bindings>>, pc' # "reading"
  PROVE  Bound' /\ RunAsNamed'
<1>1. ran' = {}
  BY DEF Quiet
<1>2. \A p \in Purpose :
        chord'[p] # Nothing => chord'[p] = str_key_to_scan(config[p])'
  BY DEF Inv, Bound, names, bindings, str_key_to_scan
<1> QED BY <1>1, <1>2 DEF Bound, RunAsNamed

\* The modifier keys and the focus.
LEMMA FlagStep ==
  ASSUME Inv, ModifierDown \/ Up \/ LoseFocus \/ OtherKeys \/ SetFocus \/ Exit
  PROVE  Inv'
<1> USE DEF Inv, names, bindings, user, modifiers, effects
<1>0. Quiet /\ UNCHANGED <<names, bindings>> /\ pc' # "reading"
  BY DEF ModifierDown, Up, LoseFocus, OtherKeys, SetFocus, Exit, Dispatched
<1>1. Bound' /\ RunAsNamed'
  BY <1>0, QuietStep
<1>2. pressed' = Nothing /\ ran' = {} /\ sent' = <<>>
  BY <1>0 DEF Quiet
<1>3. CASE ModifierDown
  <2> USE <1>3 DEF ModifierDown, Dispatched
  <2>1. PICK k \in Key :
          /\ held' = held \cup {k}
          /\ \/ CTRL(k) /\ ctrl' = 1 /\ UNCHANGED shift
             \/ ~CTRL(k) /\ SHIFT(k) /\ shift' = 1 /\ UNCHANGED ctrl
    OBVIOUS
  <2>2. TypeOK'
    BY <1>2, <2>1 DEF TypeOK
  <2>3. HeldModifiers'
    BY <2>1 DEF HeldModifiers, CtrlHeld, ShiftHeld
  <2> QED BY <1>1, <2>2, <2>3
<1>4. CASE Up
  <2> USE <1>4 DEF Up, Dispatched
  <2>1. PICK k \in held :
          /\ held' = held \ {k}
          /\ ctrl' = (IF CTRL(k) THEN 0 ELSE ctrl)
          /\ shift' = (IF ~CTRL(k) /\ SHIFT(k) THEN 0 ELSE shift)
    OBVIOUS
  <2>2. TypeOK'
    BY <1>2, <2>1 DEF TypeOK
  <2>3. ctrl' = 1 => CtrlHeld'
    BY <2>1 DEF HeldModifiers, CtrlHeld
  <2>4. shift' = 1 => ShiftHeld'
    <3> SUFFICES ASSUME shift' = 1 PROVE ShiftHeld'
      OBVIOUS
    <3>1. PICK j \in held : SHIFT(j)
      BY <2>1 DEF HeldModifiers, ShiftHeld
    <3>2. j # k
      BY <2>1, <3>1 DEF CTRL, SHIFT
    <3> QED BY <2>1, <3>1, <3>2 DEF ShiftHeld
  <2> QED BY <1>1, <2>2, <2>3, <2>4 DEF HeldModifiers
<1>5. CASE LoseFocus \/ OtherKeys \/ SetFocus \/ Exit
  <2>1. /\ held' \subseteq Key /\ focus' \in BOOLEAN
        /\ ctrl' \in {0, 1} /\ shift' \in {0, 1}
        /\ pc' \in {"reading", "running", "asking", "ended"}
    <3>1. CASE LoseFocus
      BY <3>1 DEF TypeOK, LoseFocus
    <3>2. CASE OtherKeys
      BY <3>2 DEF TypeOK, OtherKeys
    <3>3. CASE SetFocus
      BY <3>3 DEF TypeOK, SetFocus, keyboard_clear_flags
    <3>4. CASE Exit
      BY <3>4 DEF TypeOK, Exit
    <3> QED BY <1>5, <3>1, <3>2, <3>3, <3>4
  <2>3. UNCHANGED <<names, bindings, effects>>
    BY <1>5 DEF LoseFocus, OtherKeys, SetFocus, Exit
  <2>4. TypeOK'
    BY <1>2, <2>1, <2>3 DEF TypeOK
  <2>2. HeldModifiers'
    <3>1. CASE LoseFocus
      BY <3>1 DEF HeldModifiers, LoseFocus
    <3>2. CASE OtherKeys
      BY <3>2 DEF HeldModifiers, OtherKeys
    <3>3. CASE SetFocus
      BY <3>3 DEF HeldModifiers, SetFocus, keyboard_clear_flags
    <3>4. CASE Exit
      BY <3>4 DEF HeldModifiers, Exit, CtrlHeld, ShiftHeld
    <3> QED BY <1>5, <3>1, <3>2, <3>3, <3>4
  <2> QED BY <1>1, <2>2, <2>4
<1> QED BY <1>3, <1>4, <1>5

\* The question whether to exit.
LEMMA AskStep ==
  ASSUME Inv, AskExit
  PROVE  Inv'
<1> USE DEF Inv, AskExit, Dispatched, names, bindings, modifiers, effects
<1>1. PICK k \in Key : held' = held \cup {k} /\ pressed' = k
  OBVIOUS
<1>2. TypeOK'
  <2>1. ran' \subseteq Effect /\ sent' \in Seq(Byte) /\ held' \subseteq Key
    BY <1>1 DEF TypeOK, Effect
  <2> QED BY <1>1, <2>1 DEF TypeOK
<1>3. CtrlHeld' /\ ShiftHeld'
  BY <1>1 DEF HeldModifiers, CtrlHeld, ShiftHeld
<1>4. HeldModifiers'
  BY DEF HeldModifiers
<1>5. Bound'
  BY DEF Bound, str_key_to_scan
<1>6. ran' \cap Purpose = {}
  BY DEF Purpose, Module, Ask, Reset, Layout
<1>7. RunAsNamed'
  BY <1>3, <1>6 DEF RunAsNamed
<1> QED BY <1>2, <1>4, <1>5, <1>7

\* Every other key.
LEMMA PressStep ==
  ASSUME Inv, Press
  PROVE  Inv'
<1> USE DEF Inv
<1>1. PICK k \in Key, busy \in SUBSET Module, rp \in {1, 2} :
    LET t == [ctrl |-> ctrl, shift |-> shift, key |-> k]
        reset   == chord[Reset] = t
        layout  == ~reset /\ chord[Layout] = t
        banners == ~reset /\ ~layout /\ (IsClearChord(t) \/ count_pressKey >= 3)
    IN  /\ Dispatched /\ count_pressKey < MaxPresses
        /\ ~CTRL(k) /\ ~SHIFT(k) /\ ~(ExitKey(k) /\ ctrl = 1 /\ shift = 1)
        /\ held' = held \cup {k} /\ pressed' = k
        /\ count_pressKey' = (IF banners THEN 0 ELSE count_pressKey + 1)
        /\ g_Lang' = (IF layout THEN 1 - g_Lang ELSE g_Lang)
        /\ cyrillic' = (IF layout THEN g_Lang = 0 ELSE cyrillic /\ ~reset)
        /\ ran' = {p \in {Reset} : reset} \cup {p \in {Layout} : layout}
                  \cup {p \in {Banners} : banners} \cup Executed(t, busy)
        /\ sent' = (IF rp % 2 = 1 THEN Bytes(Code(k)) ELSE <<>>)
        /\ UNCHANGED <<pc, names, bindings, focus, modifiers>>
  BY DEF Press
<1> DEFINE t == [ctrl |-> ctrl, shift |-> shift, key |-> k]
<1>2. UNCHANGED <<names, bindings, ctrl, shift, focus, pc>> /\ pc = "running"
  BY <1>1 DEF modifiers, Dispatched
<1>3. Executed(t, busy) \subseteq {m \in Module : chord[m] = t}
  BY DEF Executed
<1>4. ran' \subseteq Effect
  BY <1>1, <1>3 DEF Effect, Purpose
<1>5. \A p \in ran' \cap Purpose : chord[p] = t
  BY <1>1, <1>3 DEF Purpose, Module, Banners, Reset, Layout
<1>6. Ask \notin ran'
  BY <1>1, <1>3 DEF Module, Ask, Banners, Reset, Layout
<1>7. sent' \in Seq(Byte)
  BY <1>1, CodeBytes
<1>8. count_pressKey' \in Nat /\ g_Lang' \in {0, 1} /\ cyrillic' \in BOOLEAN
  <2>1. count_pressKey' \in Nat
    BY <1>1 DEF TypeOK
  <2>2. g_Lang' \in {0, 1}
    BY <1>1 DEF TypeOK
  <2>3. cyrillic' \in BOOLEAN
    BY <1>1, Zenon DEF TypeOK
  <2> QED BY <2>1, <2>2, <2>3
<1>9. TypeOK'
  BY <1>1, <1>2, <1>4, <1>7, <1>8 DEF TypeOK, names, bindings
<1>10. HeldModifiers'
  BY <1>1, <1>2 DEF HeldModifiers, CtrlHeld, ShiftHeld
<1>11. Bound'
  BY <1>2 DEF Bound, names, bindings, str_key_to_scan
<1>12. \A p \in ran' \cap Purpose : Given(config[p])'
  <2> SUFFICES ASSUME NEW p \in ran' \cap Purpose PROVE Given(config[p])'
    OBVIOUS
  <2> DEFINE b == config[p]
  <2>1. chord[p] = t
    BY <1>5
  <2>2. t # Nothing
    BY ConstantsAssumption DEF ConstantsAssumption, TypeOK
  <2>3. str_key_to_scan(b) = t
    BY <2>1, <2>2 DEF Bound
  <2> HIDE DEF b
  <2>4. /\ b # Nothing /\ keyOf[b.name] = k
        /\ \/ b.modifiers = <<>>
           \/ b.modifiers[1] = "shift" /\ shift = 1
           \/ b.modifiers[1] # "shift" /\ ctrl = 1
    BY <2>3, ChordOfName DEF TypeOK
  <2>5. focus' = TRUE
    BY <1>1, <1>2 DEF Dispatched
  <2>6. (ctrl = 1 => CtrlHeld') /\ (shift = 1 => ShiftHeld')
    BY <1>2, <1>10, <2>5 DEF HeldModifiers
  <2>7. b' = b /\ keyOf' = keyOf /\ pressed' = k
    BY <1>1, <1>2 DEF names, bindings, b
  <2> QED BY <2>4, <2>6, <2>7 DEF Given, b
<1>13. RunAsNamed'
  BY <1>6, <1>12 DEF RunAsNamed
<1> QED BY <1>9, <1>10, <1>11, <1>13

LEMMA NextInv == Inv /\ [Next]_vars => Inv'
<1> SUFFICES ASSUME Inv, [Next]_vars PROVE Inv'
  OBVIOUS
<1>1. CASE Next
  BY <1>1, ReadingStep, OpenStep, FlagStep, AskStep, PressStep DEF Next
<1>2. CASE UNCHANGED vars
  <2> USE <1>2 DEF vars, names, bindings, user, modifiers, effects, outcome, Inv
  <2>1. TypeOK'
    BY DEF TypeOK
  <2>2. HeldModifiers' /\ RunAsNamed'
    BY DEF HeldModifiers, CtrlHeld, ShiftHeld, RunAsNamed, Given
  <2>3. Bound'
    BY DEF Bound, str_key_to_scan
  <2> QED BY <2>1, <2>2, <2>3
<1> QED BY <1>1, <1>2

\* The invariant holds in every state the keyboard comes to.
THEOREM InvariantHolds == Spec => []Inv
BY InitInv, NextInv, PTL DEF Spec

\* The flags, the names, the table and the bytes sent have their types.
THEOREM TypeCorrect == Spec => []TypeOK
<1>1. Inv => TypeOK
  BY DEF Inv
<1> QED BY <1>1, InvariantHolds, PTL

\* No flag of a modifier is stuck while the window has the focus.
THEOREM NoFlagStuck == Spec => []HeldModifiers
<1>1. Inv => HeldModifiers
  BY DEF Inv
<1> QED BY <1>1, InvariantHolds, PTL

\* A key press triggers only what its key and a modifier held are named for.
THEOREM PressRunsAsNamed == Spec => []RunAsNamed
<1>1. Inv => RunAsNamed
  BY DEF Inv
<1> QED BY <1>1, InvariantHolds, PTL
=============================================================================
