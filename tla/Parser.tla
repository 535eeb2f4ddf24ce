------------------------------- MODULE Parser -------------------------------
(***************************************************************************)
(* CPP_Parser (cpp_data.cpp), its tables (table.cpp) and those handlers of *)
(* pdc_func.cpp that steer it: what a byte of the host means depends on    *)
(* the bytes before it.  A command that takes parameters has them          *)
(* collected in CPP_Waitbuf; a handler that reads the header of a block    *)
(* makes the parser collect the block, in CPP_Waitbuf if it fits, else     *)
(* byte by byte.                                                           *)
(*                                                                         *)
(* What the other handlers do to the display is in Window.  The numbers of *)
(* CPP_Cur_State are kept.  States 4, 6 and 0xC are never entered: no      *)
(* entry of a table and no handler that is called sets them.  A NUL is     *)
(* skipped and ENQ only answered, so that neither is a step here.          *)
(***************************************************************************)
EXTENDS Integers

CONSTANTS WaitMax,  \* CPP_WAITBUFFER, the size of CPP_Waitbuf (512)
          Counts    \* numbers that the header of a block may carry

ASSUME ConstantsAssumption ==
  /\ WaitMax \in Nat /\ WaitMax >= 291
  /\ Counts \subseteq 0..9999

VARIABLES state,       \* CPP_Cur_State
          proc,        \* CPP_Waitproc
          Waitlength,  \* CPP_Waitlength
          Indx,        \* CPP_Waitbuf_Indx
          test,        \* gwin_Test_Mode
          flag,        \* gwin_ESC_u_Flag
          fresh,       \* leading cells of CPP_Waitbuf that hold parameters
                       \* of the command in progress
          owed,        \* bytes of the announced block not yet handled
          ran          \* the handler that the last byte called, and the
                       \* value of fresh it found

vars == <<state, proc, Waitlength, Indx, test, flag, fresh, owed, ran>>

NoCall == [proc |-> "none", cells |-> 0]

\* CPP_Waitproc is a null pointer until the first byte sets it.
Init ==
  /\ state = 0 /\ proc = "none" /\ Waitlength = 0 /\ Indx = 0
  /\ test = FALSE /\ flag = FALSE
  /\ fresh = 0 /\ owed = 0 /\ ran = NoCall

-----------------------------------------------------------------------------
(* The tables.  Row 0 is for text, 1 for what follows ESC, 2 for ESC p, 3  *)
(* for ESC DEL.  An entry is a byte, its handler, the number of bytes to   *)
(* collect and the state that follows; a byte without an entry of its own  *)
(* ("other") has a handler that does nothing to the parser.  Bytes that    *)
(* are neither letters nor digits are spelled out.                         *)

Collect(s) == {<<e[1], e[2], e[3], 5>> : e \in s}
Command(s) == {<<e[1], e[2], 0, 0>> : e \in s}
Prefix(b, s) == {<<b, "PDC_Dummy", 0, s>>}

Text ==
  Prefix("ESC", 1) \cup
  Command({<<"BEL", "PDC_Bell">>, <<"BS", "PDC_Backspace">>,
    <<"HT", "PDC_Next_Tab">>, <<"LF", "PDC_Linefeed">>,
    <<"CR", "PDC_Carr_Return">>, <<"US", "PDC_New_Line">>,
    <<"other", "PDC_Dflt_Base_St">>})

EscCommands ==
  Command({<<"rparen", "PDC_Hard_Reset">>, <<"1", "PDC_Set_Tab">>,
    <<"2", "PDC_Reset_Tab">>, <<"less", "PDC_Software_Cf">>,
    <<"greater", "PDC_Software_Id">>, <<"A", "PDC_Cursor_Up">>,
    <<"B", "PDC_Cursor_Down">>, <<"C", "PDC_Cursor_Right">>,
    <<"D", "PDC_Cursor_Left">>, <<"E", "PDC_Clr_All">>,
    <<"G", "PDC_Csr_Antihome">>, <<"H", "PDC_Cursor_Home">>,
    <<"I", "PDC_Next_Tab">>, <<"J", "PDC_Clr_Par">>,
    <<"K", "PDC_Clr_Line">>, <<"L", "PDC_Insert_Line">>,
    <<"M", "PDC_Del_Line">>, <<"N", "PDC_Low_Case_On">>,
    <<"O", "PDC_Low_Case_Off">>, <<"P", "PDC_Del_Ch">>,
    <<"Q", "PDC_Insert_On">>, <<"R", "PDC_Insert_Off">>,
    <<"S", "PDC_Roll_Up">>, <<"T", "PDC_Roll_Down">>,
    <<"U", "PDC_Next_Page">>, <<"V", "PDC_Prev_Page">>,
    <<"W", "PDC_Format_On">>, <<"X", "PDC_Format_Off">>,
    <<"lbracket", "PDC_Protect_Off">>, <<"rbracket", "PDC_Protect_On">>,
    <<"grave", "PDC_Prev_Tab">>, <<"a", "PDC_Sense_Cursor">>,
    <<"b", "PDC_Keylock_Off">>, <<"c", "PDC_Keylock_On">>,
    <<"d", "PDC_Cpy_Dspl_Mem">>, <<"e", "p_error_dump">>,
    <<"s", "PDC_Sense_Print">>, <<"u", "PDC_PrnBufEmpty">>,
    <<"w", "PDC_Long_Sync">>, <<"y", "PDC_Test_On">>,
    <<"z", "PDC_Test_Off">>, <<"lbrace", "PDC_Keyswitches">>,
    <<"other", "PDC_Dflt_Esc_St">>})

\* Mutated: one byte too few is collected for a fill.
EscCollectShort ==
  Collect({<<"F", "PDC_Set_Cursor", 4>>, <<"v", "PDC_Fill_Chr_Mem", 8>>,
    <<"f", "PDC_Wrt_Enh_Mem", 8>>, <<"m", "PDC_Wrt_TChr_Mem", 1>>})

EscCollect ==
  Collect({<<"4", "PDC_Ctl_Prnt_Int", 2>>, <<"5", "PDC_Enh_Ctl_Prnt", 2>>,
    <<"F", "PDC_Set_Cursor", 4>>, <<"Y", "PDC_Ctrl_SVW", 6>>,
    <<"f", "PDC_Wrt_Enh_Mem", 8>>, <<"g", "PDC_Dir_Line_Ins", 4>>,
    <<"h", "PDC_Dir_Line_Del", 4>>, <<"j", "PDC_Set_Scr_Lock", 4>>,
    <<"k", "PDC_Set_Mem_Lock", 4>>, <<"l", "PDC_Rd_Char_Mem", 8>>,
    <<"m", "PDC_Wrt_TChr_Mem", 1>>, <<"n", "PDC_Fill_Enh_Mem", 9>>,
    <<"o", "PDC_Ctrl_Cursor", 3>>, <<"q", "PDC_FreePrntHead", 4>>,
    <<"r", "PDC_Ctrl_Print", 1>>, <<"t", "PDC_Ctrl_Led", 3>>,
    <<"v", "PDC_Fill_Chr_Mem", 9>>, <<"x", "PDC_Swap_Window", 1>>})

Esc == Prefix("ESC", 1) \cup Prefix("p", 2) \cup Prefix("DEL", 3)
       \cup EscCommands \cup EscCollect

\* The keyboard definitions are collected and have empty handlers.
EscP ==
  Prefix("ESC", 1) \cup Command({<<"other", "PDC_Dflt_Def_St">>}) \cup
  Collect({<<"A", "PDC_Def_Pri_Part", 5>>, <<"B", "PDC_Def_Shf_Part", 5>>,
    <<"C", "PDC_Def_Ctl_Part", 5>>, <<"H", "PDC_Def_Typ_Part", 5>>,
    <<"P", "PDC_Def_Pre_All", 5>>, <<"a", "PDC_Def_Pri_All", 291>>,
    <<"b", "PDC_Def_Shf_All", 291>>, <<"c", "PDC_Def_Ctl_All", 291>>,
    <<"h", "PDC_Def_Typ_All", 39>>, <<"p", "PDC_Def_Pre_All", 39>>,
    <<"y", "PDC_E_D_Pref_Cd", 34>>, <<"z", "PDC_Def_VT220_Kbd", 4>>})

EscDel ==
  Prefix("ESC", 1) \cup
  Command({<<"e", "PDC_Video_On">>, <<"o", "PDC_Video_Off">>,
    <<"other", "PDC_Dflt_Compr_St">>}) \cup
  Collect({<<"f", "PDC_CWrt_Enh_Mem", 6>>, <<"l", "PDC_CRd_Char_Mem", 6>>,
    <<"m", "PDC_CWrt_Chr_Mem", 6>>, <<"n", "PDC_CFill_Enh_Mem", 7>>,
    <<"v", "PDC_CFill_Chr_Mem", 7>>})

Table == [s \in 0..3 |-> CASE s = 0 -> Text [] s = 1 -> Esc
                           [] s = 2 -> EscP [] s = 3 -> EscDel]

-----------------------------------------------------------------------------
(* Handlers.  They are called with CPP_Cur_State already set to what       *)
(* follows, and may set it again.                                          *)

Await(p, n) ==
  state' = 5 /\ proc' = p /\ Waitlength' = n /\ Indx' = 0 /\ fresh' = 0

\* The byte stored at CPP_Waitbuf_Indx leaves a gap if that is too high.
Stored == IF Indx = fresh THEN fresh + 1 ELSE fresh
Store == Indx' = Indx + 1 /\ fresh' = Stored

\* The parser goes on with text.
ToText == state' = 0 /\ Store /\ UNCHANGED <<proc, Waitlength>>

\* A header is eight digits, row, column and a number of four, or six with a
\* number of two.  It may hold something else than digits.
Bad == -1
Header == Counts \cup {Bad}
HeaderOf(p) ==
  IF p \in {"PDC_CWrt_Enh_Mem", "PDC_CWrt_Chr_Mem"}
  THEN {c \in Counts : c <= 99} \cup {Bad} ELSE Header

\* Mutated: the bound is off by one.
WriteMemOver(c, stream, body) ==
  IF c = Bad \/ c = 0 THEN ToText /\ owed' = 0
  ELSE /\ owed' = c
       /\ IF c > WaitMax + 1
          THEN state' = stream /\ Waitlength' = c /\ Store /\ UNCHANGED proc
          ELSE Await(body, c)

\* PDC_Wrt_Enh_Mem, PDC_CWrt_Enh_Mem, PDC_Wrt_Chr_Mem, PDC_CWrt_Chr_Mem.
WriteMem(c, stream, body) ==
  IF c = Bad \/ c = 0 THEN ToText /\ owed' = 0
  ELSE /\ owed' = c
       /\ IF c > WaitMax
          THEN state' = stream /\ Waitlength' = c /\ Store /\ UNCHANGED proc
          ELSE Await(body, c)

\* ESC m f: eight digits follow.  ESC m: the byte is the first of the eight.
PDC_Wrt_TChr_Mem(f) ==
  /\ state' = 5 /\ Waitlength' = 8
  /\ IF f THEN Indx' = 0 /\ fresh' = 0 /\ proc' = "PDC_Setup_Comb"
          ELSE Indx' = 1 /\ fresh' = 1 /\ proc' = "PDC_Wrt_Chr_Mem"
  /\ owed' = 0

\* Mutated: the attribute is not counted.
PDC_Setup_CombText(c) ==
  IF c = Bad \/ c = 0 THEN ToText /\ owed' = 0
  ELSE IF c > WaitMax
  THEN /\ state' = 0 /\ Waitlength' = c /\ owed' = 0
       /\ Store /\ UNCHANGED proc
  ELSE Await("PDC_Comb_Chr_Mem", c) /\ owed' = c + 1

\* One byte more than announced: the attribute before the text.  A block
\* that does not fit is not taken, its bytes are read as text.
PDC_Setup_Comb(c) ==
  IF c = Bad \/ c = 0 THEN ToText /\ owed' = 0
  ELSE IF c > WaitMax
  THEN /\ state' = 0 /\ Waitlength' = c + 1 /\ owed' = 0
       /\ Store /\ UNCHANGED proc
  ELSE Await("PDC_Comb_Chr_Mem", c + 1) /\ owed' = c + 1

PDC_Comb_Chr_Mem ==
  /\ state' = 0 /\ Waitlength' = Waitlength - 1
  /\ owed' = owed - Waitlength
  /\ Store /\ UNCHANGED proc

\* Mutated: a count of zero is taken for a count.
PDC_FreePrntHeadZero(c) ==
  IF c = Bad THEN ToText /\ owed' = 0
  ELSE /\ state' = 10 /\ Waitlength' = c /\ owed' = c
       /\ Store /\ UNCHANGED proc

PDC_FreePrntHead(c) ==
  IF c = Bad \/ c = 0 THEN ToText /\ owed' = 0
  ELSE /\ state' = 10 /\ Waitlength' = c /\ owed' = c
       /\ Store /\ UNCHANGED proc

\* The handlers that take the bytes of a block out of CPP_Waitbuf.
Bodies == {"PDC_Wrt_Enh_Body_2", "PDC_Wrt_Chr_Body_2"}
Blocks == Bodies \cup {"PDC_Comb_Chr_Mem"}
Steering == Blocks \cup
  {"PDC_Wrt_Enh_Mem", "PDC_CWrt_Enh_Mem", "PDC_Wrt_Chr_Mem",
   "PDC_CWrt_Chr_Mem", "PDC_Wrt_TChr_Mem", "PDC_Setup_Comb",
   "PDC_FreePrntHead"}

Handle(p) ==
  \/ /\ p \in {"PDC_Wrt_Enh_Mem", "PDC_CWrt_Enh_Mem"}
     /\ \E c \in HeaderOf(p) : WriteMem(c, 8, "PDC_Wrt_Enh_Body_2")
  \/ /\ p \in {"PDC_Wrt_Chr_Mem", "PDC_CWrt_Chr_Mem"}
     /\ \E c \in HeaderOf(p) : WriteMem(c, 9, "PDC_Wrt_Chr_Body_2")
  \/ p = "PDC_Wrt_TChr_Mem" /\ \E f \in BOOLEAN : PDC_Wrt_TChr_Mem(f)
  \/ p = "PDC_Setup_Comb" /\ \E c \in Header : PDC_Setup_Comb(c)
  \/ p = "PDC_Comb_Chr_Mem" /\ PDC_Comb_Chr_Mem
  \/ p = "PDC_FreePrntHead" /\ \E c \in Header : PDC_FreePrntHead(c)
  \/ p \in Bodies /\ ToText /\ owed' = owed - Waitlength
  \/ p \notin Steering /\ ToText /\ UNCHANGED owed

-----------------------------------------------------------------------------
(* One action per kind of byte and state, as in the switch of CPP_Parser.  *)

\* States 0 to 3: the entry says what to collect, or is called at once.
Lookup ==
  /\ state \in 0..3 /\ ~test
  /\ \E e \in Table[state] :
       /\ proc' = e[2] /\ Waitlength' = e[3]
       /\ IF e[4] = 5
          THEN /\ Indx' = 0 /\ fresh' = 0 /\ state' = 5
               /\ ran' = NoCall /\ UNCHANGED <<test, flag>>
          ELSE /\ state' = IF e[2] = "PDC_Cpy_Dspl_Mem" /\ ~flag
                           THEN 11 ELSE e[4]
               /\ test' = (e[2] = "PDC_Test_On")
               /\ flag' = (flag \/ e[2] = "PDC_PrnBufEmpty")
               /\ ran' = [proc |-> e[2], cells |-> 0]
               /\ UNCHANGED <<Indx, fresh>>
  /\ UNCHANGED owed

\* State 5: a byte is stored; with the last one the handler is called.
Keep ==
  /\ state = 5 /\ ~test /\ Indx + 1 # Waitlength
  /\ Store /\ ran' = NoCall
  /\ UNCHANGED <<state, proc, Waitlength, test, flag, owed>>

Finish ==
  /\ state = 5 /\ ~test /\ Indx + 1 = Waitlength
  /\ ran' = [proc |-> proc, cells |-> Stored]
  /\ Handle(proc)
  /\ UNCHANGED <<test, flag>>

BodyOf(s) == CASE s = 8 -> "PDC_Wrt_Enh_Body" [] s = 9 -> "PDC_Wrt_Chr_Body"
               [] s = 10 -> "PDC_FreePrntBody"

\* States 8 to 10: the byte is handled at once.
Stream ==
  /\ state \in 8..10 /\ ~test
  /\ ran' = [proc |-> BodyOf(state), cells |-> 0]
  /\ Waitlength' = Waitlength - 1 /\ owed' = owed - 1
  /\ state' = IF Waitlength' = 0 THEN 0 ELSE state
  /\ UNCHANGED <<proc, Indx, fresh, test, flag>>

\* ESC where bytes are collected: the command is given up for a new one.
Escape ==
  /\ state \in {5, 8, 9, 10} /\ ~test
  /\ state' = 1 /\ owed' = 0 /\ ran' = NoCall
  /\ UNCHANGED <<proc, Waitlength, Indx, test, flag, fresh>>

\* State 11: bytes go to the printer.
PrintByte ==
  /\ state = 11 /\ ~test
  /\ ran' = [proc |-> "PDC_Cpy_Dspl_Prt", cells |-> 0]
  /\ UNCHANGED <<state, proc, Waitlength, Indx, test, flag, fresh, owed>>

\* CAN, anywhere but in the test mode: PDC_Init.
Cancel ==
  /\ ~test
  /\ state' = 0 /\ flag' = FALSE /\ owed' = 0
  /\ ran' = [proc |-> "PDC_Init", cells |-> 0]
  /\ UNCHANGED <<proc, Waitlength, Indx, test, fresh>>

\* Mutated: ESC z leaves the state as it is.
TestByteStays(isEsc, isZ) ==
  /\ test /\ ~(isEsc /\ isZ) /\ state \in {0, 7}
  /\ test' = ~(state = 7 /\ isZ)
  /\ state' = IF isEsc \/ (state = 7 /\ isZ) THEN 7 ELSE 0
  /\ ran' = [proc |-> IF test' THEN "WN_Putc" ELSE "PDC_Test_Off", cells |-> 0]
  /\ UNCHANGED <<proc, Waitlength, Indx, flag, fresh, owed>>

\* The test mode shows every byte; ESC z ends it.  Its switch knows the
\* states 0 and 7 only.
TestByte(isEsc, isZ) ==
  /\ test /\ ~(isEsc /\ isZ) /\ state \in {0, 7}
  /\ test' = ~(state = 7 /\ isZ)
  /\ state' = IF isEsc THEN 7 ELSE 0
  /\ ran' = [proc |-> IF test' THEN "WN_Putc" ELSE "PDC_Test_Off", cells |-> 0]
  /\ UNCHANGED <<proc, Waitlength, Indx, flag, fresh, owed>>

Next == Lookup \/ Keep \/ Finish \/ Stream \/ Escape \/ PrintByte \/ Cancel
        \/ \E isEsc, isZ \in BOOLEAN : TestByte(isEsc, isZ)

Spec == Init /\ [][Next]_vars

-----------------------------------------------------------------------------
Procs == {e[2] : e \in Text \cup Esc \cup EscP \cup EscDel} \cup Steering
         \cup {"none"}
Callees == Procs \cup {"PDC_Wrt_Enh_Body", "PDC_Wrt_Chr_Body",
  "PDC_FreePrntBody", "PDC_Cpy_Dspl_Prt", "PDC_Init", "WN_Putc"}

Ranges ==
  /\ state \in 0..11 /\ proc \in Procs
  /\ Waitlength \in 0..10000 /\ Indx \in 0..WaitMax+1
  /\ fresh \in 0..WaitMax+1 /\ owed \in 0..10000
  /\ ran \in [proc : Callees, cells : 0..WaitMax+1]

\* Lengths and positions in their ranges, whatever the headers carry.
TypeOK == Ranges /\ test \in BOOLEAN /\ flag \in BOOLEAN

\* A byte is stored where CPP_Waitbuf has a cell for it, and before the
\* position at which the handler is called, so that the comparison for
\* equality is met.  The exception is the last byte of an attribute and a
\* text of WaitMax bytes, for which CPP_Waitbuf is one cell short.
InBuffer ==
  state = 5 =>
    /\ Indx < Waitlength
    /\ \/ Indx < WaitMax
       \/ proc = "PDC_Comb_Chr_Mem" /\ Indx = WaitMax

\* The cells of CPP_Waitbuf a handler reads, from the first.
Params(p) ==
  CASE p \in {"PDC_Ctrl_Cursor", "PDC_Ctrl_Print", "PDC_Wrt_TChr_Mem"} -> 1
    [] p = "PDC_Enh_Ctl_Prnt" -> 2
    [] p = "PDC_Ctrl_Led" -> 3
    [] p \in {"PDC_Set_Cursor", "PDC_Dir_Line_Ins", "PDC_Dir_Line_Del",
              "PDC_Set_Scr_Lock", "PDC_Set_Mem_Lock",
              "PDC_FreePrntHead"} -> 4
    [] p \in {"PDC_Ctrl_SVW", "PDC_CWrt_Enh_Mem", "PDC_CWrt_Chr_Mem",
              "PDC_CRd_Char_Mem"} -> 6
    [] p \in {"PDC_CFill_Enh_Mem", "PDC_CFill_Chr_Mem"} -> 7
    [] p \in {"PDC_Wrt_Enh_Mem", "PDC_Wrt_Chr_Mem", "PDC_Rd_Char_Mem",
              "PDC_Setup_Comb"} -> 8
    [] p \in {"PDC_Fill_Enh_Mem", "PDC_Fill_Chr_Mem"} -> 9
    [] OTHER -> 0

\* A block is all of CPP_Waitbuf up to Waitlength, which is decremented for
\* the attribute.
Reads(p) == IF p \in Bodies THEN Waitlength
            ELSE IF p = "PDC_Comb_Chr_Mem" THEN Waitlength + 1 ELSE Params(p)

\* A handler finds in CPP_Waitbuf all the parameters it reads, none of them
\* left there by an earlier command or by one that was given up.
ParametersComplete == ran.cells >= Reads(ran.proc)

\* When the parser is out of a block, the handlers took as many of its bytes
\* as the header announced: whether it was collected or handled byte by byte,
\* none of them is read as text, and no text as a byte of the block.
InBlock == state \in 8..10 \/ (state = 5 /\ proc \in Blocks)
BlockDelivered == InBlock \/ owed = 0

\* The test mode is only in the states its switch knows, so that ESC z can
\* end it, and those of its own are not met outside it: no sequence of bytes
\* makes the terminal ignore all others.
NeverDeaf == IF test THEN state \in {0, 7} ELSE state # 7

\* The bytes are cut into commands as Framing says: a part of a command
\* takes the bytes it began with, one by one.
Mode == IF test THEN "test"
        ELSE IF state = 0 THEN "text"
        ELSE IF state \in 1..3 THEN "prefix"
        ELSE IF state = 11 THEN "print" ELSE "part"
Left == IF state = 5 THEN Waitlength - Indx
        ELSE IF state \in 8..10 THEN Waitlength ELSE 0

Frames == INSTANCE Framing WITH mode <- Mode, left <- Left
CutIntoCommands == Frames!Spec
=============================================================================
