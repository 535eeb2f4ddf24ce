---------------------------- MODULE ParserProofs ----------------------------
(***************************************************************************)
(* Proofs about Parser: what holds of every sequence of bytes, for every   *)
(* size of CPP_Waitbuf that takes the longest entry of the tables, and     *)
(* whatever numbers the headers carry.                                     *)
(***************************************************************************)
EXTENDS Parser, TLAPS

(***************************************************************************)
(* The tables: what a row may hold, entry by entry.                        *)
(***************************************************************************)

Collected(e) == /\ e[3] \in 1..291
                /\ e[2] \notin Blocks /\ Params(e[2]) <= e[3]
Called(e) == e[2] \notin Blocks /\ Params(e[2]) = 0

EntryOK(e) ==
  /\ e[4] = 5 => Collected(e)
  /\ e[4] # 5 => Called(e) /\ e[3] = 0
  /\ e[4] \in {0, 1, 2, 3, 5}
  /\ e[2] \in {"PDC_Test_On", "PDC_Cpy_Dspl_Mem"} => e[4] = 0

\* Commands the tables collect, entry by entry of a list.
LEMMA CollectOK ==
  ASSUME NEW S, \A x \in S : /\ Collected(x)
                             /\ x[2] \notin {"PDC_Test_On", "PDC_Cpy_Dspl_Mem"}
  PROVE  \A e \in Collect(S) : EntryOK(e)
BY DEF Collect, EntryOK, Collected

\* Commands the tables run at once, entry by entry of a list.
LEMMA CommandOK ==
  ASSUME NEW S, \A x \in S : Called(x)
  PROVE  \A e \in Command(S) : EntryOK(e)
BY DEF Command, EntryOK, Called

\* A byte that only moves to another of the tables.
LEMMA PrefixOK ==
  ASSUME NEW b, NEW s \in 1..3
  PROVE  \A e \in Prefix(b, s) : EntryOK(e)
BY DEF Prefix, EntryOK, Called, Params, Blocks, Bodies

\* The first table, for text: nothing in it is collected.
LEMMA TextOK ==
  \A e \in Text : /\ EntryOK(e) /\ e[4] # 5
                  /\ e[2] \notin {"PDC_Test_On", "PDC_Cpy_Dspl_Mem"}
<1> DEFINE S == {<<"BEL", "PDC_Bell">>, <<"BS", "PDC_Backspace">>,
    <<"HT", "PDC_Next_Tab">>, <<"LF", "PDC_Linefeed">>,
    <<"CR", "PDC_Carr_Return">>, <<"US", "PDC_New_Line">>,
    <<"other", "PDC_Dflt_Base_St">>}
<1>1. \A x \in S : Called(x) /\ x[2] \notin {"PDC_Test_On", "PDC_Cpy_Dspl_Mem"}
  BY DEF Called, Params, Blocks, Bodies
<1>2. \A e \in Command(S) : EntryOK(e) /\ e[4] # 5
                  /\ e[2] \notin {"PDC_Test_On", "PDC_Cpy_Dspl_Mem"}
  <2> HIDE DEF S
  <2>1. \A e \in Command(S) : EntryOK(e)
    BY <1>1, CommandOK
  <2>2. \A e \in Command(S) : e[4] # 5 /\ \E x \in S : e[2] = x[2]
    BY DEF Command
  <2> QED BY <1>1, <2>1, <2>2
<1>3. \A e \in Prefix("ESC", 1) : EntryOK(e) /\ e[4] = 1 /\ e[2] = "PDC_Dummy"
  <2>1. \A e \in Prefix("ESC", 1) : EntryOK(e)
    BY PrefixOK
  <2>2. \A e \in Prefix("ESC", 1) : e[4] = 1 /\ e[2] = "PDC_Dummy"
    BY DEF Prefix
  <2> QED BY <2>1, <2>2
<1> QED BY <1>2, <1>3 DEF Text

\* The table after ESC: the commands without parameters.
LEMMA EscCommandsOK == \A e \in EscCommands : EntryOK(e)
<1> DEFINE S == {<<"rparen", "PDC_Hard_Reset">>, <<"1", "PDC_Set_Tab">>,
    <<"2", "PDC_Reset_Tab">>, <<"less", "PDC_Software_Cf">>,
    <<"greater", "PDC_Software_Id">>, <<"A", "PDC_Cursor_Up">>,
    <<"B", "PDC_Cursor_Down">>, <<"C", "PDC_Cursor_Right">>,
    <<"D", "PDC_Cursor_Left">>, <<"E", "PDC_Clr_All">>,
    <<"G", "PDC_Csr_Antihome">>, <<"H", "PDC_Cursor_Home">>,
    <<"I", "PDC_Next_Tab">>, <<"J", "PDC_Clr_Par">>,
    <<"K", "PDC_Clr_Line">>, <<"L", "PDC_Insert_Line">>,
    <<"M", "PDC_Del_Line">>, <<"N", "PDC_Low_Case_On">>,
    <<"O", "PDC_Low_Case_Off">>, <<"P", "PDC_Del_Ch">>,
    <<"Q", "PDC_Insert_On">>, <<"R", "PDC_Insert_Off">>,
    <<"S", "PDC_Roll_Up">>, <<"T", "PDC_Roll_Down">>,
    <<"U", "PDC_Next_Page">>, <<"V", "PDC_Prev_Page">>,
    <<"W", "PDC_Format_On">>, <<"X", "PDC_Format_Off">>,
    <<"lbracket", "PDC_Protect_Off">>, <<"rbracket", "PDC_Protect_On">>,
    <<"grave", "PDC_Prev_Tab">>, <<"a", "PDC_Sense_Cursor">>,
    <<"b", "PDC_Keylock_Off">>, <<"c", "PDC_Keylock_On">>,
    <<"d", "PDC_Cpy_Dspl_Mem">>, <<"e", "p_error_dump">>,
    <<"s", "PDC_Sense_Print">>, <<"u", "PDC_PrnBufEmpty">>,
    <<"w", "PDC_Long_Sync">>, <<"y", "PDC_Test_On">>,
    <<"z", "PDC_Test_Off">>, <<"lbrace", "PDC_Keyswitches">>,
    <<"other", "PDC_Dflt_Esc_St">>}
<1>1. \A x \in S : Called(x)
  BY SMTT(60) DEF Called, Params, Blocks, Bodies
<1>2. \A e \in Command(S) : EntryOK(e)
  <2> HIDE DEF S
  <2> QED BY <1>1, CommandOK
<1> QED BY <1>2 DEF EscCommands

\* The table after ESC: the commands with parameters.
LEMMA EscCollectOK == \A e \in EscCollect : EntryOK(e)
<1> DEFINE S ==
    {<<"4", "PDC_Ctl_Prnt_Int", 2>>, <<"5", "PDC_Enh_Ctl_Prnt", 2>>,
    <<"F", "PDC_Set_Cursor", 4>>, <<"Y", "PDC_Ctrl_SVW", 6>>,
    <<"f", "PDC_Wrt_Enh_Mem", 8>>, <<"g", "PDC_Dir_Line_Ins", 4>>,
    <<"h", "PDC_Dir_Line_Del", 4>>, <<"j", "PDC_Set_Scr_Lock", 4>>,
    <<"k", "PDC_Set_Mem_Lock", 4>>, <<"l", "PDC_Rd_Char_Mem", 8>>,
    <<"m", "PDC_Wrt_TChr_Mem", 1>>, <<"n", "PDC_Fill_Enh_Mem", 9>>,
    <<"o", "PDC_Ctrl_Cursor", 3>>, <<"q", "PDC_FreePrntHead", 4>>,
    <<"r", "PDC_Ctrl_Print", 1>>, <<"t", "PDC_Ctrl_Led", 3>>,
    <<"v", "PDC_Fill_Chr_Mem", 9>>, <<"x", "PDC_Swap_Window", 1>>}
<1>1. \A x \in S : /\ Collected(x)
                   /\ x[2] \notin {"PDC_Test_On", "PDC_Cpy_Dspl_Mem"}
  BY SMTT(60) DEF Collected, Params, Blocks, Bodies
<1>2. \A e \in Collect(S) : EntryOK(e)
  <2> HIDE DEF S
  <2> QED BY <1>1, CollectOK
<1> QED BY <1>2 DEF EscCollect

\* The table after ESC p.
LEMMA EscPOK == \A e \in EscP : EntryOK(e)
<1> DEFINE S ==
    {<<"A", "PDC_Def_Pri_Part", 5>>, <<"B", "PDC_Def_Shf_Part", 5>>,
    <<"C", "PDC_Def_Ctl_Part", 5>>, <<"H", "PDC_Def_Typ_Part", 5>>,
    <<"P", "PDC_Def_Pre_All", 5>>, <<"a", "PDC_Def_Pri_All", 291>>,
    <<"b", "PDC_Def_Shf_All", 291>>, <<"c", "PDC_Def_Ctl_All", 291>>,
    <<"h", "PDC_Def_Typ_All", 39>>, <<"p", "PDC_Def_Pre_All", 39>>,
    <<"y", "PDC_E_D_Pref_Cd", 34>>, <<"z", "PDC_Def_VT220_Kbd", 4>>}
           C == {<<"other", "PDC_Dflt_Def_St">>}
<1>1. \A x \in S : /\ Collected(x)
                   /\ x[2] \notin {"PDC_Test_On", "PDC_Cpy_Dspl_Mem"}
  BY SMTT(60) DEF Collected, Params, Blocks, Bodies
<1>2. \A x \in C : Called(x)
  BY DEF Called, Params, Blocks, Bodies
<1>3. /\ \A e \in Collect(S) : EntryOK(e)
      /\ \A e \in Command(C) : EntryOK(e)
  <2> HIDE DEF S, C
  <2> QED BY <1>1, <1>2, CollectOK, CommandOK
<1>4. \A e \in Prefix("ESC", 1) : EntryOK(e)
  BY PrefixOK
<1> QED BY <1>3, <1>4 DEF EscP

\* The table after ESC DEL.
LEMMA EscDelOK == \A e \in EscDel : EntryOK(e)
<1> DEFINE S ==
    {<<"f", "PDC_CWrt_Enh_Mem", 6>>, <<"l", "PDC_CRd_Char_Mem", 6>>,
    <<"m", "PDC_CWrt_Chr_Mem", 6>>, <<"n", "PDC_CFill_Enh_Mem", 7>>,
    <<"v", "PDC_CFill_Chr_Mem", 7>>}
           C == {<<"e", "PDC_Video_On">>, <<"o", "PDC_Video_Off">>,
    <<"other", "PDC_Dflt_Compr_St">>}
<1>1. \A x \in S : /\ Collected(x)
                   /\ x[2] \notin {"PDC_Test_On", "PDC_Cpy_Dspl_Mem"}
  BY SMTT(60) DEF Collected, Params, Blocks, Bodies
<1>2. \A x \in C : Called(x)
  BY DEF Called, Params, Blocks, Bodies
<1>3. /\ \A e \in Collect(S) : EntryOK(e)
      /\ \A e \in Command(C) : EntryOK(e)
  <2> HIDE DEF S, C
  <2> QED BY <1>1, <1>2, CollectOK, CommandOK
<1>4. \A e \in Prefix("ESC", 1) : EntryOK(e)
  BY PrefixOK
<1> QED BY <1>3, <1>4 DEF EscDel

\* All four tables.
LEMMA TableOK ==
  ASSUME NEW s \in 0..3, NEW e \in Table[s]
  PROVE  /\ EntryOK(e) /\ e[2] \in Procs
         /\ s = 0 => /\ e[4] # 5
                    /\ e[2] \notin {"PDC_Test_On", "PDC_Cpy_Dspl_Mem"}
<1>1. Table[s] = CASE s = 0 -> Text [] s = 1 -> Esc
                   [] s = 2 -> EscP [] s = 3 -> EscDel
  BY DEF Table
<1>2. /\ s = 0 => e \in Text
      /\ s = 1 => e \in Esc
      /\ s = 2 => e \in EscP
      /\ s = 3 => e \in EscDel
  BY <1>1
<1>3. s = 0 \/ s = 1 \/ s = 2 \/ s = 3
  OBVIOUS
<1>4. e[2] \in Procs
  BY <1>2, <1>3 DEF Procs
<1>5. e \in Esc => EntryOK(e)
  <2>1. /\ \A x \in Prefix("ESC", 1) : EntryOK(x)
        /\ \A x \in Prefix("p", 2) : EntryOK(x)
        /\ \A x \in Prefix("DEL", 3) : EntryOK(x)
    BY PrefixOK
  <2> QED BY <2>1, EscCommandsOK, EscCollectOK DEF Esc
<1> QED BY <1>2, <1>3, <1>4, <1>5, TextOK, EscPOK, EscDelOK

(***************************************************************************)
(* The inductive invariant.  The properties of Parser say what holds when  *)
(* a handler has been called; that follows from what holds while its       *)
(* parameters, or a block, are still coming in.                            *)
(***************************************************************************)

Collecting ==
  /\ Indx = fresh /\ Indx < Waitlength
  /\ proc \in Blocks => owed = Waitlength
  /\ proc \in Bodies => Waitlength <= WaitMax
  /\ proc = "PDC_Comb_Chr_Mem" => Waitlength <= WaitMax + 1
  /\ proc \notin Blocks => /\ owed = 0 /\ Waitlength <= 291
                           /\ Params(proc) <= Waitlength

Streaming == Waitlength >= 1 /\ owed = Waitlength

IInv ==
  /\ TypeOK
  /\ NeverDeaf /\ state \notin {4, 6}
  /\ state = 5 => Collecting
  /\ state \in 8..10 => Streaming
  /\ state \notin {5, 8, 9, 10} => owed = 0
  /\ ParametersComplete

\* TypeOK in parts: the provers treat numbers and Booleans apart.
LEMMA TypeParts ==
  /\ TypeOK => Ranges /\ test \in BOOLEAN /\ flag \in BOOLEAN
  /\ Ranges /\ test \in BOOLEAN /\ flag \in BOOLEAN => TypeOK
BY DEF TypeOK

\* The same of the next state.
LEMMA TypePartsNext ==
  Ranges' /\ test' \in BOOLEAN /\ flag' \in BOOLEAN => TypeOK'
BY DEF TypeOK

\* No handler reads more than nine cells of its own.
LEMMA ParamsType == \A p : Params(p) \in 0..9
BY DEF Params

\* What the constants are assumed to be.
LEMMA Sizes == WaitMax \in Nat /\ WaitMax >= 291 /\ Counts \subseteq 0..9999
BY ConstantsAssumption

\* The procedures the actions name are among the parser's.
LEMMA CalleesOK ==
  /\ "none" \in Procs /\ "PDC_Test_Off" \in Procs /\ Steering \subseteq Procs
  /\ Procs \subseteq Callees
  /\ {"PDC_Wrt_Enh_Body", "PDC_Wrt_Chr_Body", "PDC_FreePrntBody",
      "PDC_Cpy_Dspl_Prt", "PDC_Init", "WN_Putc"} \subseteq Callees
<1>1. <<"z", "PDC_Test_Off", 0, 0>> \in EscCommands
  <2> DEFINE S == {<<"rparen", "PDC_Hard_Reset">>, <<"1", "PDC_Set_Tab">>,
    <<"2", "PDC_Reset_Tab">>, <<"less", "PDC_Software_Cf">>,
    <<"greater", "PDC_Software_Id">>, <<"A", "PDC_Cursor_Up">>,
    <<"B", "PDC_Cursor_Down">>, <<"C", "PDC_Cursor_Right">>,
    <<"D", "PDC_Cursor_Left">>, <<"E", "PDC_Clr_All">>,
    <<"G", "PDC_Csr_Antihome">>, <<"H", "PDC_Cursor_Home">>,
    <<"I", "PDC_Next_Tab">>, <<"J", "PDC_Clr_Par">>,
    <<"K", "PDC_Clr_Line">>, <<"L", "PDC_Insert_Line">>,
    <<"M", "PDC_Del_Line">>, <<"N", "PDC_Low_Case_On">>,
    <<"O", "PDC_Low_Case_Off">>, <<"P", "PDC_Del_Ch">>,
    <<"Q", "PDC_Insert_On">>, <<"R", "PDC_Insert_Off">>,
    <<"S", "PDC_Roll_Up">>, <<"T", "PDC_Roll_Down">>,
    <<"U", "PDC_Next_Page">>, <<"V", "PDC_Prev_Page">>,
    <<"W", "PDC_Format_On">>, <<"X", "PDC_Format_Off">>,
    <<"lbracket", "PDC_Protect_Off">>, <<"rbracket", "PDC_Protect_On">>,
    <<"grave", "PDC_Prev_Tab">>, <<"a", "PDC_Sense_Cursor">>,
    <<"b", "PDC_Keylock_Off">>, <<"c", "PDC_Keylock_On">>,
    <<"d", "PDC_Cpy_Dspl_Mem">>, <<"e", "p_error_dump">>,
    <<"s", "PDC_Sense_Print">>, <<"u", "PDC_PrnBufEmpty">>,
    <<"w", "PDC_Long_Sync">>, <<"y", "PDC_Test_On">>,
    <<"z", "PDC_Test_Off">>, <<"lbrace", "PDC_Keyswitches">>,
    <<"other", "PDC_Dflt_Esc_St">>}
  <2>1. <<"z", "PDC_Test_Off">> \in S
    OBVIOUS
  <2>2. \A x \in S : <<x[1], x[2], 0, 0>> \in Command(S)
    BY DEF Command
  <2>3. <<"z", "PDC_Test_Off", 0, 0>> \in Command(S)
    <3> HIDE DEF S
    <3> QED BY <2>1, <2>2
  <2> QED BY <2>3 DEF EscCommands
<1>2. <<"z", "PDC_Test_Off", 0, 0>> \in Esc
  BY <1>1 DEF Esc
<1>3. "PDC_Test_Off" \in Procs
  BY <1>2 DEF Procs
<1> QED BY <1>3 DEF Procs, Callees

\* CPP_Init sets the invariant up.
LEMMA InitInv == Init => IInv
<1> SUFFICES ASSUME Init PROVE IInv
  OBVIOUS
<1>1. TypeOK
  <2>1. Ranges
    BY Sizes, CalleesOK DEF Init, Ranges, NoCall
  <2>2. test \in BOOLEAN /\ flag \in BOOLEAN
    BY Zenon DEF Init
  <2> QED BY <2>1, <2>2, TypeParts
<1>2. ParametersComplete
  BY DEF Init, NoCall, ParametersComplete, Reads, Params, Bodies
<1> QED BY <1>1, <1>2 DEF Init, IInv, NeverDeaf

\* A byte looked up in one of the tables.
LEMMA LookupInv == IInv /\ Lookup => IInv'
<1> SUFFICES ASSUME IInv, Lookup PROVE IInv'
  OBVIOUS
<1>1. PICK e \in Table[state] :
       /\ proc' = e[2] /\ Waitlength' = e[3]
       /\ IF e[4] = 5
          THEN /\ Indx' = 0 /\ fresh' = 0 /\ state' = 5
               /\ ran' = NoCall /\ UNCHANGED <<test, flag>>
          ELSE /\ state' = IF e[2] = "PDC_Cpy_Dspl_Mem" /\ ~flag
                           THEN 11 ELSE e[4]
               /\ test' = (e[2] = "PDC_Test_On")
               /\ flag' = (flag \/ e[2] = "PDC_PrnBufEmpty")
               /\ ran' = [proc |-> e[2], cells |-> 0]
               /\ UNCHANGED <<Indx, fresh>>
  BY DEF Lookup
<1>2. state \in 0..3 /\ ~test /\ owed' = owed /\ owed = 0
  BY DEF Lookup, IInv
<1>3. EntryOK(e) /\ e[2] \in Procs
  BY <1>2, TableOK
<1>4. CASE e[4] = 5
  <2>1. /\ proc' = e[2] /\ Waitlength' = e[3] /\ Indx' = 0 /\ fresh' = 0
        /\ state' = 5 /\ ran' = NoCall /\ test' = test /\ flag' = flag
    BY <1>1, <1>4
  <2>2. Collected(e)
    BY <1>3, <1>4 DEF EntryOK
  <2>3. TypeOK'
    <3>1. Ranges'
      BY <1>2, <1>3, <2>1, <2>2, Sizes, CalleesOK
      DEF Ranges, NoCall, Collected
    <3>2. test' \in BOOLEAN /\ flag' \in BOOLEAN
      BY <2>1, TypeParts, Zenon DEF IInv
    <3> QED BY <3>1, <3>2, TypePartsNext
  <2>4. Collecting'
    BY <1>2, <2>1, <2>2 DEF Collecting, Collected, Blocks
  <2>5. ParametersComplete'
    BY <2>1 DEF NoCall, ParametersComplete, Reads, Params, Bodies
  <2> QED BY <1>2, <2>1, <2>3, <2>4, <2>5 DEF IInv, NeverDeaf
<1>5. CASE e[4] # 5
  <2>1. /\ proc' = e[2] /\ Waitlength' = 0 /\ Indx' = Indx /\ fresh' = fresh
        /\ ran' = [proc |-> e[2], cells |-> 0]
        /\ test' = (e[2] = "PDC_Test_On")
        /\ flag' \in BOOLEAN
        /\ state' = IF e[2] = "PDC_Cpy_Dspl_Mem" /\ ~flag THEN 11 ELSE e[4]
    BY <1>1, <1>3, <1>5 DEF EntryOK, IInv, TypeOK
  <2>2. Called(e) /\ e[4] \in 0..3
    BY <1>3, <1>5 DEF EntryOK
  <2>3. state' \in {0, 1, 2, 3, 11} /\ (test' => state' = 0)
    <3>1. state' = 11 \/ state' = e[4]
      BY <2>1
    <3>2. test' => e[2] = "PDC_Test_On"
      BY <2>1
    <3>3. e[2] = "PDC_Test_On" => e[4] = 0 /\ e[2] # "PDC_Cpy_Dspl_Mem"
      BY <1>3 DEF EntryOK
    <3>4. e[2] = "PDC_Test_On" => state' = e[4]
      BY <3>3, <2>1
    <3>5. test' => state' = 0
      BY <3>2, <3>3, <3>4
    <3>6. state' \in {0, 1, 2, 3, 11}
      BY <3>1, <2>2
    <3> QED BY <3>5, <3>6
  <2>4. TypeOK'
    <3>1. Ranges
      BY TypeParts DEF IInv
    <3>2. Ranges'
      <4>1. /\ proc' = e[2] /\ Waitlength' = 0 /\ Indx' = Indx
            /\ fresh' = fresh /\ ran' = [proc |-> e[2], cells |-> 0]
        BY <2>1
      <4>2. state' \in 0..11
        BY <2>3
      <4>3. owed' = 0 /\ e[2] \in Procs
        BY <1>2, <1>3
      <4> QED BY <3>1, <4>1, <4>2, <4>3, Sizes, CalleesOK DEF Ranges
    <3>3. test' \in BOOLEAN /\ flag' \in BOOLEAN
      BY <2>1, Zenon
    <3> QED BY <3>2, <3>3, TypePartsNext
  <2>5. ParametersComplete'
    BY <2>1, <2>2 DEF ParametersComplete, Reads, Called, Blocks
  <2> QED BY <1>2, <2>1, <2>3, <2>4, <2>5 DEF IInv, NeverDeaf
<1> QED BY <1>4, <1>5

\* A byte kept in CPP_Waitbuf, with more to come.
LEMMA KeepInv == IInv /\ Keep => IInv'
<1> SUFFICES ASSUME IInv, Keep PROVE IInv'
  OBVIOUS
<1>1. /\ state = 5 /\ ~test /\ Indx + 1 # Waitlength /\ Indx' = Indx + 1
      /\ fresh' = Stored /\ ran' = NoCall /\ state' = state /\ proc' = proc
      /\ Waitlength' = Waitlength /\ test' = test /\ flag' = flag
      /\ owed' = owed
  BY DEF Keep, Store
<1>2. Collecting /\ TypeOK
  BY <1>1 DEF IInv
<1>3. Indx \in Nat /\ Waitlength \in Nat /\ fresh' = Indx + 1
  BY <1>1, <1>2 DEF Collecting, TypeOK, Ranges, Stored
<1>4. Indx + 1 < Waitlength /\ Waitlength <= WaitMax + 1
  BY <1>1, <1>2, <1>3, Sizes DEF Collecting, Blocks
<1>5. TypeOK'
  <2>1. Ranges
    BY <1>2, TypeParts
  <2>2. Ranges'
    BY <2>1, <1>1, <1>2, <1>3, <1>4, Sizes, CalleesOK DEF Ranges, NoCall
  <2>3. test' \in BOOLEAN /\ flag' \in BOOLEAN
    BY <1>1, <1>2, TypeParts, Zenon
  <2> QED BY <2>2, <2>3, TypePartsNext
<1>6. Collecting'
  BY <1>1, <1>2, <1>3, <1>4 DEF Collecting
<1>7. ParametersComplete'
  BY <1>1 DEF NoCall, ParametersComplete, Reads, Params, Bodies
<1> QED BY <1>1, <1>5, <1>6, <1>7 DEF IInv, NeverDeaf

\* A byte of a block that is handled byte by byte.
LEMMA StreamInv == IInv /\ Stream => IInv'
<1> SUFFICES ASSUME IInv, Stream PROVE IInv'
  OBVIOUS
<1>1. /\ state \in 8..10 /\ ~test
      /\ ran' = [proc |-> BodyOf(state), cells |-> 0]
      /\ Waitlength' = Waitlength - 1 /\ owed' = owed - 1
      /\ state' = IF Waitlength' = 0 THEN 0 ELSE state
      /\ proc' = proc /\ Indx' = Indx /\ fresh' = fresh
      /\ test' = test /\ flag' = flag
  BY DEF Stream
<1>2. Streaming /\ TypeOK
  BY <1>1 DEF IInv
<1>3. Waitlength' \in 0..10000 /\ owed' = Waitlength' /\ owed' \in 0..10000
  BY <1>1, <1>2 DEF Streaming, TypeOK, Ranges
<1>4. BodyOf(state) \in {"PDC_Wrt_Enh_Body", "PDC_Wrt_Chr_Body",
                        "PDC_FreePrntBody"}
  BY <1>1 DEF BodyOf
<1>5. TypeOK'
  <2>1. Ranges
    BY <1>2, TypeParts
  <2>2. state' \in 0..11 /\ BodyOf(state) \in Callees
    BY <1>1, <1>4, CalleesOK
  <2>3. Ranges'
    BY <2>1, <2>2, <1>1, <1>3, Sizes DEF Ranges
  <2>4. test' \in BOOLEAN /\ flag' \in BOOLEAN
    BY <1>1, <1>2, TypeParts, Zenon
  <2> QED BY <2>3, <2>4, TypePartsNext
<1>6. ParametersComplete'
  <2>2. Params(BodyOf(state)) = 0 /\ BodyOf(state) \notin Blocks
    BY <1>4 DEF Params, Blocks, Bodies
  <2> QED BY <1>1, <2>2 DEF ParametersComplete, Reads, Blocks
<1>7. /\ state' = 0 => owed' = 0
      /\ state' # 0 => Streaming' /\ state' = state
  <2>1. state' = IF Waitlength' = 0 THEN 0 ELSE state
    BY <1>1
  <2>2. CASE Waitlength' = 0
    BY <2>1, <2>2, <1>3
  <2>3. CASE Waitlength' # 0
    <3>1. state' = state /\ Waitlength' >= 1
      BY <2>1, <2>3, <1>3
    <3>2. state # 0
      BY <1>1
    <3> QED BY <3>1, <3>2, <1>3 DEF Streaming
  <2> QED BY <2>2, <2>3
<1> QED BY <1>1, <1>3, <1>5, <1>6, <1>7 DEF IInv, NeverDeaf

\* ESC, the printer state, CAN and the bytes of the test mode.
LEMMA OtherInv ==
  IInv /\ (Escape \/ PrintByte \/ Cancel
           \/ \E isEsc, isZ \in BOOLEAN : TestByte(isEsc, isZ)) => IInv'
<1> SUFFICES ASSUME IInv PROVE (Escape \/ PrintByte \/ Cancel
      \/ \E isEsc, isZ \in BOOLEAN : TestByte(isEsc, isZ)) => IInv'
  OBVIOUS
<1>a. /\ Params("PDC_Cpy_Dspl_Prt") = 0 /\ Params("PDC_Init") = 0
      /\ Params("WN_Putc") = 0 /\ Params("PDC_Test_Off") = 0
      /\ Params("none") = 0
  BY DEF Params
<1>1. Escape => IInv'
  <2> SUFFICES ASSUME Escape PROVE IInv'
    OBVIOUS
  <2>1. TypeOK'
    BY CalleesOK, Sizes DEF Escape, IInv, TypeOK, Ranges, Ranges, NoCall
  <2>2. ParametersComplete'
    BY <1>a DEF Escape, NoCall, ParametersComplete, Reads, Bodies
  <2> QED BY <2>1, <2>2 DEF Escape, IInv, NeverDeaf
<1>2. PrintByte => IInv'
  <2> SUFFICES ASSUME PrintByte PROVE IInv'
    OBVIOUS
  <2>1. TypeOK'
    BY Sizes, CalleesOK DEF PrintByte, IInv, TypeOK, Ranges
  <2>2. ParametersComplete'
    BY <1>a DEF PrintByte, ParametersComplete, Reads, Bodies
  <2> QED BY <2>1, <2>2 DEF PrintByte, IInv, NeverDeaf
<1>3. Cancel => IInv'
  <2> SUFFICES ASSUME Cancel PROVE IInv'
    OBVIOUS
  <2>1. TypeOK'
    <3>1. Ranges
      BY TypeParts DEF IInv
    <3>2. Ranges'
      BY <3>1, Sizes, CalleesOK DEF Cancel, Ranges
    <3>3. test' \in BOOLEAN /\ flag' \in BOOLEAN
      BY TypeParts, Zenon DEF Cancel, IInv
    <3> QED BY <3>2, <3>3, TypePartsNext
  <2>2. ParametersComplete'
    BY <1>a DEF Cancel, ParametersComplete, Reads, Bodies
  <2> QED BY <2>1, <2>2 DEF Cancel, IInv, NeverDeaf
<1>4. ASSUME NEW isEsc \in BOOLEAN, NEW isZ \in BOOLEAN, TestByte(isEsc, isZ)
      PROVE  IInv'
  <2>1. ran' = [proc |-> IF test' THEN "WN_Putc" ELSE "PDC_Test_Off", cells |-> 0]
    BY <1>4 DEF TestByte
  <2>2. /\ state' \in {0, 7} /\ test' \in BOOLEAN
        /\ state' = 7 => test'
    BY <1>4 DEF TestByte
  <2>3. owed' = 0
    BY <1>4 DEF TestByte, IInv
  <2>4. TypeOK'
    BY <1>4, CalleesOK, <2>1, <2>2, Sizes DEF TestByte, IInv, TypeOK, Ranges
  <2>5. ParametersComplete'
    BY <1>a, <2>1 DEF ParametersComplete, Reads, Bodies
  <2> QED BY <2>2, <2>3, <2>4, <2>5 DEF IInv, NeverDeaf
<1> QED BY <1>1, <1>2, <1>3, <1>4

(***************************************************************************)
(* The last byte of a part: the handler is called with all its cells       *)
(* written, and what it awaits next is announced as a whole.               *)
(***************************************************************************)

\* How a block begins: rejected, byte by byte, or collected.
LEMMA WriteMemInv ==
  ASSUME NEW c \in Header, NEW stream \in {8, 9}, NEW body \in Bodies,
         WriteMem(c, stream, body)
  PROVE  \/ /\ state' = 0 /\ owed' = 0 /\ Store
            /\ proc' = proc /\ Waitlength' = Waitlength
         \/ /\ state' = stream /\ Waitlength' = c /\ owed' = c /\ c \in 1..9999
            /\ proc' = proc /\ Store
         \/ /\ state' = 5 /\ proc' = body /\ Waitlength' = c /\ owed' = c
            /\ Indx' = 0 /\ fresh' = 0 /\ c \in 1..9999 /\ c <= WaitMax
<1>1. CASE c = Bad \/ c = 0
  BY <1>1 DEF WriteMem, ToText
<1>2. CASE ~(c = Bad \/ c = 0)
  <2>1. c \in 1..9999
    BY <1>2, Sizes DEF Header
  <2> QED BY <1>2, <2>1, Sizes DEF WriteMem, Await
<1> QED BY <1>1, <1>2

\* What a handler leaves behind.
Handled ==
  \/ /\ state' = 0 /\ owed' = 0 /\ Store
     /\ proc' = proc /\ Waitlength' = Waitlength
     /\ proc # "PDC_Comb_Chr_Mem"
  \/ /\ state' = 0 /\ owed' = 0 /\ Store
     /\ proc' = proc /\ Waitlength' \in 0..10000
     /\ proc \notin Blocks
  \/ /\ state' = 0 /\ owed' = 0 /\ Store
     /\ proc' = proc /\ Waitlength' = Waitlength - 1
     /\ proc = "PDC_Comb_Chr_Mem"
  \/ /\ state' \in 8..10 /\ Waitlength' \in 1..9999 /\ owed' = Waitlength'
     /\ proc' = proc /\ Store /\ proc \notin Blocks
  \/ /\ state' = 5 /\ Waitlength' \in 1..10000 /\ owed' = Waitlength'
     /\ proc \notin Blocks /\ Indx' = 0 /\ fresh' = 0
     /\ \/ proc' \in Bodies /\ Waitlength' <= WaitMax
        \/ proc' = "PDC_Comb_Chr_Mem" /\ Waitlength' <= WaitMax + 1
  \/ /\ state' = 5 /\ Waitlength' = 8 /\ owed' = 0
     /\ proc \notin Blocks /\ Indx' \in {0, 1} /\ fresh' = Indx'
     /\ proc' \in {"PDC_Setup_Comb", "PDC_Wrt_Chr_Mem"}

\* A handler called with its parameters leaves a state of the parser.
LEMMA HandleInv ==
  ASSUME TypeOK, state = 5, Collecting, Handle(proc)
  PROVE  Handled
<1>1. \A c \in Header : c = Bad \/ c \in 0..9999
  BY Sizes DEF Header
<1>2. HeaderOf(proc) \subseteq Header
  BY DEF HeaderOf, Header
<1>3. CASE proc \in {"PDC_Wrt_Enh_Mem", "PDC_CWrt_Enh_Mem",
                    "PDC_Wrt_Chr_Mem", "PDC_CWrt_Chr_Mem"}
  <2>1. PICK c \in Header, stream \in {8, 9}, body \in Bodies :
          WriteMem(c, stream, body)
    BY <1>2, <1>3 DEF Handle, Bodies, Blocks, Steering
  <2>2. proc \notin Blocks
    BY <1>3 DEF Blocks, Bodies
  <2>3. stream \in 8..10
    OBVIOUS
  <2>4. proc # "PDC_Comb_Chr_Mem"
    BY <2>2 DEF Blocks
  <2> QED BY <2>1, <2>2, <2>3, <2>4, WriteMemInv DEF Handled
<1>4. CASE proc = "PDC_Wrt_TChr_Mem"
  <2>1. PICK f \in BOOLEAN : PDC_Wrt_TChr_Mem(f)
    BY <1>4 DEF Handle, Bodies, Blocks, Steering
  <2>2. proc \notin Blocks
    BY <1>4 DEF Blocks, Bodies
  <2> QED BY <2>1, <2>2 DEF PDC_Wrt_TChr_Mem, Handled
<1>5. CASE proc = "PDC_Setup_Comb"
  <2>1. PICK c \in Header : PDC_Setup_Comb(c)
    BY <1>5 DEF Handle, Bodies, Blocks, Steering
  <2>2. proc \notin Blocks
    BY <1>5 DEF Blocks, Bodies
  <2>3. CASE c = Bad \/ c = 0
    BY <1>5, <2>1, <2>3 DEF PDC_Setup_Comb, ToText, Handled
  <2>4. CASE ~(c = Bad \/ c = 0)
    <3>1. c \in 1..9999
      BY <1>1, <2>4
    <3>2. CASE c > WaitMax
      BY <2>1, <2>2, <2>4, <3>1, <3>2 DEF PDC_Setup_Comb, Handled
    <3>3. CASE ~(c > WaitMax)
      <4>1. c + 1 <= WaitMax + 1 /\ c + 1 \in 1..10000
        BY <3>1, <3>3, Sizes
      <4> QED BY <2>1, <2>2, <2>4, <3>3, <4>1
              DEF PDC_Setup_Comb, Await, Handled
    <3> QED BY <3>2, <3>3
  <2> QED BY <2>3, <2>4
<1>6. CASE proc = "PDC_Comb_Chr_Mem"
  <2>1. PDC_Comb_Chr_Mem
    BY <1>6 DEF Handle, Bodies, Blocks, Steering
  <2>2. owed = Waitlength /\ Waitlength \in Int
    BY <1>6 DEF Collecting, Blocks, TypeOK, Ranges
  <2> QED BY <1>6, <2>1, <2>2 DEF PDC_Comb_Chr_Mem, Handled
<1>7. CASE proc = "PDC_FreePrntHead"
  <2>1. PICK c \in Header : PDC_FreePrntHead(c)
    BY <1>7 DEF Handle, Bodies, Blocks, Steering
  <2>2. proc \notin Blocks
    BY <1>7 DEF Blocks, Bodies
  <2>3. CASE c = Bad \/ c = 0
    BY <1>7, <2>1, <2>3 DEF PDC_FreePrntHead, ToText, Handled
  <2>4. CASE ~(c = Bad \/ c = 0)
    <3>1. c \in 1..9999
      BY <1>1, <2>4
    <3> QED BY <2>1, <2>2, <2>4, <3>1 DEF PDC_FreePrntHead, Handled
  <2> QED BY <2>3, <2>4
<1>8. CASE proc \in Bodies
  <2>1. ToText /\ owed' = owed - Waitlength
    BY <1>8 DEF Handle, Bodies, Blocks, Steering
  <2>2. owed = Waitlength /\ Waitlength \in Int
    BY <1>8 DEF Collecting, Blocks, TypeOK, Ranges
  <2>3. proc # "PDC_Comb_Chr_Mem"
    BY <1>8 DEF Bodies
  <2> QED BY <2>1, <2>2, <2>3 DEF ToText, Handled
<1>9. CASE proc \notin Steering
  <2>1. ToText /\ owed' = owed
    BY <1>9 DEF Handle, Bodies, Blocks, Steering
  <2>2. owed = 0
    BY <1>9 DEF Collecting, Steering
  <2>3. proc # "PDC_Comb_Chr_Mem"
    BY <1>9 DEF Steering, Blocks
  <2> QED BY <2>1, <2>2, <2>3 DEF ToText, Handled
<1> QED BY <1>3, <1>4, <1>5, <1>6, <1>7, <1>8, <1>9
        DEF Steering, Blocks, Bodies

\* The last byte of a collection, and its handler.
LEMMA FinishInv == IInv /\ Finish => IInv'
<1> SUFFICES ASSUME IInv, Finish PROVE IInv'
  OBVIOUS
<1>1. /\ state = 5 /\ ~test /\ Indx + 1 = Waitlength
      /\ ran' = [proc |-> proc, cells |-> Stored]
      /\ test' = test /\ flag' = flag /\ Handle(proc)
  BY DEF Finish
<1>2. Collecting /\ TypeOK /\ Ranges
  BY <1>1 DEF IInv, TypeOK
<1>3. Handled
  BY <1>1, <1>2, HandleInv
<1>4. Indx \in Nat /\ Waitlength \in Nat /\ Stored = Waitlength
  BY <1>1, <1>2 DEF Collecting, Ranges, Stored
<1>5. Waitlength <= WaitMax + 1
  BY <1>2, <1>4, Sizes DEF Collecting, Blocks
<1>6. Ranges'
  <2>1. proc \in Callees /\ Waitlength \in 0..WaitMax+1
    BY <1>2, <1>4, <1>5, Sizes, CalleesOK DEF Ranges
  <2>2. ran' \in [proc : Callees, cells : 0..WaitMax+1]
    BY <1>1, <1>4, <2>1
  <2>3. /\ state' \in 0..11 /\ owed' \in 0..10000
        /\ Waitlength' \in 0..10000 /\ proc' \in Procs
    <3>1. "PDC_Setup_Comb" \in Procs /\ "PDC_Wrt_Chr_Mem" \in Procs
          /\ "PDC_Comb_Chr_Mem" \in Procs /\ Bodies \subseteq Procs
      BY CalleesOK DEF Steering, Blocks
    <3>2. /\ proc \in Procs /\ Waitlength \in 1..10000
          /\ Waitlength - 1 \in 0..10000
      BY <1>1, <1>2, <1>4 DEF Ranges
    <3>3. state' \in {0, 5, 8, 9, 10}
      BY <1>3 DEF Handled
    <3>4. proc' \in Procs
      BY <1>3, <3>1, <3>2 DEF Handled
    <3>5. Waitlength' \in 0..10000
      <4>1. \/ Waitlength' = Waitlength \/ Waitlength' = Waitlength - 1
            \/ Waitlength' \in 0..10000 \/ Waitlength' \in 1..9999
            \/ Waitlength' \in 1..10000 \/ Waitlength' = 8
        BY <1>3 DEF Handled
      <4>2. CASE Waitlength' = Waitlength
        BY <4>2, <3>2
      <4>3. CASE Waitlength' = Waitlength - 1
        BY <4>3, <3>2
      <4>4. CASE Waitlength' \in 0..10000
        BY <4>4
      <4>5. CASE Waitlength' \in 1..9999
        BY <4>5
      <4>6. CASE Waitlength' \in 1..10000
        BY <4>6
      <4>7. CASE Waitlength' = 8
        BY <4>7
      <4> QED BY <4>1, <4>2, <4>3, <4>4, <4>5, <4>6, <4>7
    <3>6. owed' = 0 \/ owed' = Waitlength'
      BY <1>3 DEF Handled
    <3>7. owed' \in 0..10000
      <4>1. CASE owed' = 0
        BY <4>1
      <4>2. CASE owed' = Waitlength'
        BY <4>2, <3>5
      <4> QED BY <3>6, <4>1, <4>2
    <3> QED BY <3>3, <3>4, <3>5, <3>7
  <2>4. Indx' \in 0..WaitMax+1 /\ fresh' \in 0..WaitMax+1
    <3>1. \/ Store
          \/ Indx' \in {0, 1} /\ fresh' = Indx'
      BY <1>3 DEF Handled
    <3>2. CASE Store
      <4>1. Indx' = Waitlength /\ fresh' = Waitlength
        BY <1>1, <1>4, <3>2 DEF Store
      <4> QED BY <2>1, <4>1
    <3>3. CASE Indx' \in {0, 1} /\ fresh' = Indx'
      <4>1. WaitMax \in Nat
        BY Sizes
      <4>2. CASE Indx' = 0
        BY <3>3, <4>1, <4>2
      <4>3. CASE Indx' = 1
        BY <3>3, <4>1, <4>3
      <4> QED BY <3>3, <4>2, <4>3
    <3> QED BY <3>1, <3>2, <3>3
  <2> QED BY <2>2, <2>3, <2>4 DEF Ranges
<1>7. TypeOK'
  <2>1. test' \in BOOLEAN /\ flag' \in BOOLEAN
    BY <1>1, <1>2, Zenon DEF TypeOK
  <2> QED BY <1>6, <2>1, TypePartsNext
<1>8. state' = 5 => Collecting'
  <2> SUFFICES ASSUME state' = 5 PROVE Collecting'
    OBVIOUS
  <2>1. CASE /\ Waitlength' \in 1..10000 /\ owed' = Waitlength'
             /\ Indx' = 0 /\ fresh' = 0
             /\ \/ proc' \in Bodies /\ Waitlength' <= WaitMax
                \/ proc' = "PDC_Comb_Chr_Mem" /\ Waitlength' <= WaitMax + 1
    BY <2>1, Sizes DEF Collecting, Blocks, Bodies
  <2>2. CASE /\ Waitlength' = 8 /\ owed' = 0
             /\ Indx' \in {0, 1} /\ fresh' = Indx'
             /\ proc' \in {"PDC_Setup_Comb", "PDC_Wrt_Chr_Mem"}
    <3>1. proc' \notin Blocks /\ Params(proc') = 8
      BY <2>2 DEF Blocks, Bodies, Params
    <3> QED BY <2>2, <3>1 DEF Collecting, Blocks
  <2> QED BY <1>3, <2>1, <2>2 DEF Handled
<1>9. state' \in 8..10 => Streaming'
  <2> SUFFICES ASSUME state' \in 8..10 PROVE Streaming'
    OBVIOUS
  <2>1. Waitlength' \in 1..9999 /\ owed' = Waitlength'
    BY <1>3 DEF Handled
  <2>2. Waitlength' >= 1
    BY <2>1
  <2> QED BY <2>1, <2>2 DEF Streaming
<1>10. /\ state' \in {0, 5, 8, 9, 10}
       /\ state' \notin {5, 8, 9, 10} => owed' = 0
  BY <1>3 DEF Handled
<1>11. ParametersComplete'
  <2>1. ran'.proc = proc /\ ran'.cells = Waitlength
    BY <1>1, <1>4
  <2>2. proc \notin Blocks => Params(proc) <= Waitlength
    BY <1>2 DEF Collecting
  <2>3. proc \in Bodies => Waitlength' = Waitlength
    BY <1>3 DEF Handled, Blocks, Bodies
  <2>5. CASE proc \in Bodies
    BY <1>4, <2>1, <2>3, <2>5 DEF ParametersComplete, Reads
  <2>6. CASE proc = "PDC_Comb_Chr_Mem"
    <3>1. Waitlength' = Waitlength - 1
      BY <1>3, <2>6 DEF Handled, Blocks, Bodies
    <3>2. proc \notin Bodies
      BY <2>6 DEF Bodies
    <3>3. Reads(ran.proc)' = Waitlength' + 1
      BY <2>1, <2>6, <3>2 DEF Reads
    <3> QED BY <1>4, <2>1, <3>1, <3>3 DEF ParametersComplete
  <2>7. CASE proc \notin Blocks
    <3>1. Waitlength >= Params(proc)
      BY <1>4, <2>2, <2>7, ParamsType
    <3> QED BY <2>1, <2>7, <3>1 DEF ParametersComplete, Reads, Blocks
  <2> QED BY <2>5, <2>6, <2>7 DEF Blocks
<1> QED BY <1>1, <1>7, <1>8, <1>9, <1>10, <1>11 DEF IInv, NeverDeaf

-----------------------------------------------------------------------------
\* What is not changed keeps the invariant.
LEMMA StutterInv == IInv /\ UNCHANGED vars => IInv'
<1> SUFFICES ASSUME IInv, UNCHANGED vars PROVE IInv'
  OBVIOUS
<1>1. /\ state' = state /\ proc' = proc /\ Waitlength' = Waitlength
      /\ Indx' = Indx /\ test' = test /\ flag' = flag /\ fresh' = fresh
      /\ owed' = owed /\ ran' = ran
  BY DEF vars
<1>2. TypeOK'
  BY <1>1 DEF IInv, TypeOK, Ranges
<1>3. ParametersComplete'
  BY <1>1 DEF IInv, ParametersComplete, Reads
<1> QED BY <1>1, <1>2, <1>3 DEF IInv, NeverDeaf, Collecting, Streaming

\* The inductive invariant holds after every sequence of bytes.
LEMMA Invariance == Spec => []IInv
<1>1. IInv /\ [Next]_vars => IInv'
  BY LookupInv, KeepInv, FinishInv, StreamInv, OtherInv, StutterInv DEF Next
<1> QED BY InitInv, <1>1, PTL DEF Spec

\* The lengths stay in their ranges: TypeOK.
THEOREM ParserTypeCorrect == Spec => []TypeOK
<1>1. IInv => TypeOK
  BY DEF IInv
<1> QED BY Invariance, <1>1, PTL

\* Every byte is stored inside CPP_Waitbuf, but for the last one of an
\* attribute and a text of WaitMax bytes, and before the end of the part.
THEOREM StoresInside == Spec => []InBuffer
<1>1. IInv => InBuffer
  <2> SUFFICES ASSUME IInv, state = 5 PROVE
        /\ Indx < Waitlength
        /\ \/ Indx < WaitMax
           \/ proc = "PDC_Comb_Chr_Mem" /\ Indx = WaitMax
    BY DEF InBuffer
  <2>1. Collecting /\ Indx \in Nat /\ Waitlength \in Nat /\ WaitMax \in Nat
    BY Sizes DEF IInv, TypeOK, Ranges
  <2>2. CASE proc = "PDC_Comb_Chr_Mem"
    BY <2>1, <2>2 DEF Collecting
  <2>3. CASE proc \in Bodies
    BY <2>1, <2>3 DEF Collecting
  <2>4. CASE proc \notin Blocks
    BY <2>1, <2>4, Sizes DEF Collecting
  <2> QED BY <2>2, <2>3, <2>4 DEF Blocks
<1> QED BY Invariance, <1>1, PTL

\* No handler reads a cell that an earlier command left behind.
THEOREM ParametersAreComplete == Spec => []ParametersComplete
<1>1. IInv => ParametersComplete
  BY DEF IInv
<1> QED BY Invariance, <1>1, PTL

\* The bytes of a block that was announced are all handled as its bytes, and
\* no other byte is.
THEOREM BlocksAreDelivered == Spec => []BlockDelivered
<1>1. IInv => BlockDelivered
  BY DEF IInv, BlockDelivered, InBlock, Collecting
<1> QED BY Invariance, <1>1, PTL

\* No sequence of bytes makes the terminal deaf to all others.
THEOREM NeverIsDeaf == Spec => []NeverDeaf
<1>1. IInv => NeverDeaf
  BY DEF IInv
<1> QED BY Invariance, <1>1, PTL

(***************************************************************************)
(* The bytes are cut into commands as Framing says.                        *)
(***************************************************************************)

\* How the parser's state reads as Framing's.
LEMMA ModeType == IInv =>
  /\ test => Mode = "test"
  /\ ~test => /\ state = 0 => Mode = "text" /\ Left = 0
              /\ state \in 1..3 => Mode = "prefix" /\ Left = 0
              /\ state = 5 => Mode = "part" /\ Left = Waitlength - Indx
              /\ state \in 8..10 => Mode = "part" /\ Left = Waitlength
              /\ state = 11 => Mode = "print" /\ Left = 0
BY DEF Mode, Left

\* A looked-up byte is read, or begins a part.
LEMMA LookupCuts == IInv /\ IInv' /\ Lookup => Frames!Next
<1> SUFFICES ASSUME IInv, IInv', Lookup PROVE Frames!Next
  OBVIOUS
<1>1. PICK e \in Table[state] :
       /\ proc' = e[2] /\ Waitlength' = e[3]
       /\ IF e[4] = 5
          THEN /\ Indx' = 0 /\ fresh' = 0 /\ state' = 5
               /\ ran' = NoCall /\ UNCHANGED <<test, flag>>
          ELSE /\ state' = IF e[2] = "PDC_Cpy_Dspl_Mem" /\ ~flag
                           THEN 11 ELSE e[4]
               /\ test' = (e[2] = "PDC_Test_On")
               /\ flag' = (flag \/ e[2] = "PDC_PrnBufEmpty")
               /\ ran' = [proc |-> e[2], cells |-> 0]
               /\ UNCHANGED <<Indx, fresh>>
  BY DEF Lookup
<1>2. state \in 0..3 /\ ~test
  BY DEF Lookup
<1>3. /\ EntryOK(e)
      /\ state = 0 => /\ e[4] # 5
                     /\ e[2] \notin {"PDC_Test_On", "PDC_Cpy_Dspl_Mem"}
  BY <1>2, TableOK
<1>4. /\ state = 0 => Mode = "text"
      /\ state # 0 => Mode = "prefix"
  BY <1>2 DEF Mode
<1>5. CASE e[4] = 5
  <2>1. state' = 5 /\ Indx' = 0 /\ Waitlength' = e[3] /\ test' = test
    BY <1>1, <1>5
  <2>2. e[3] \in Nat \ {0} /\ state # 0
    BY <1>3, <1>5 DEF EntryOK, Collected
  <2>3. Mode' = "part" /\ Left' \in Nat \ {0}
    BY <1>2, <2>1, <2>2 DEF Mode, Left
  <2> QED BY <1>4, <2>2, <2>3 DEF Frames!Next, Frames!Begin
<1>6. CASE e[4] # 5
  <2>1. /\ state' = IF e[2] = "PDC_Cpy_Dspl_Mem" /\ ~flag THEN 11 ELSE e[4]
        /\ test' = (e[2] = "PDC_Test_On")
    BY <1>1, <1>6
  <2>2. e[4] \in 0..3 /\ (state = 0 => state' = e[4] /\ ~test')
    <3>1. e[4] \in 0..3
      BY <1>3, <1>6 DEF EntryOK
    <3>2. state = 0 => e[2] # "PDC_Test_On" /\ e[2] # "PDC_Cpy_Dspl_Mem"
      BY <1>3
    <3>3. state = 0 => state' = e[4]
      BY <2>1, <3>2
    <3>4. state = 0 => ~test'
      BY <2>1, <3>2
    <3> QED BY <3>1, <3>3, <3>4
  <2>3. state' \in {0, 1, 2, 3, 11}
    BY <2>1, <2>2
  <2>4. Left' = 0
    BY <2>3 DEF Left
  <2>5. Mode' \in {"text", "prefix", "print", "test"}
    BY <2>3 DEF Mode
  <2>6. state = 0 => Mode' \in {"text", "prefix"}
    BY <2>2, <2>3 DEF Mode
  <2> QED BY <1>4, <2>4, <2>5, <2>6 DEF Frames!Next, Frames!Read
<1> QED BY <1>5, <1>6

\* A kept byte is taken by its part.
LEMMA KeepCuts == IInv /\ IInv' /\ Keep => Frames!Next
<1> SUFFICES ASSUME IInv, IInv', Keep PROVE Frames!Next
  OBVIOUS
<1>1. /\ state = 5 /\ ~test /\ state' = 5 /\ ~test'
      /\ Indx + 1 # Waitlength
      /\ Indx' = Indx + 1 /\ Waitlength' = Waitlength
  BY DEF Keep, Store
<1>2. Indx \in Nat /\ Waitlength \in Nat /\ Indx < Waitlength
  BY <1>1 DEF IInv, TypeOK, Ranges, Collecting
<1>3. Mode = "part" /\ Mode' = "part"
  BY <1>1 DEF Mode
<1>4. Left = Waitlength - Indx /\ Left' = Waitlength - (Indx + 1)
  BY <1>1 DEF Left
<1>5. Left > 1 /\ Left' = Left - 1
  BY <1>1, <1>2, <1>4
<1> QED BY <1>3, <1>5 DEF Frames!Next, Frames!Take

\* What is left of a part that is not complete.
LEMMA Remaining ==
  ASSUME NEW a \in Nat, NEW b \in Nat, a < b
  PROVE  b - a \in Nat \ {0}
OBVIOUS

\* The last byte of a collection ends a part, or begins the next.
LEMMA FinishCuts == IInv /\ IInv' /\ Finish => Frames!Next
<1> SUFFICES ASSUME IInv, IInv', Finish PROVE Frames!Next
  OBVIOUS
<1>1. /\ state = 5 /\ ~test /\ ~test' /\ Indx + 1 = Waitlength
      /\ Handle(proc)
  BY DEF Finish
<1>2. Indx \in Nat /\ Waitlength \in Nat
  BY DEF IInv, TypeOK, Ranges
<1>3. Handled
  BY <1>1, HandleInv DEF IInv
<1>4. Mode = "part" /\ Left = 1
  BY <1>1, <1>2 DEF Mode, Left
<1>5. state' \in {0, 5, 8, 9, 10}
  BY <1>3 DEF Handled
<1>6. CASE state' = 0
  <2>1. Mode' = "text" /\ Left' = 0
    BY <1>1, <1>6 DEF Mode, Left
  <2> QED BY <1>4, <2>1 DEF Frames!Next, Frames!Last
<1>7. CASE state' = 5
  <2>1. Indx' \in Nat /\ Waitlength' \in Nat /\ Indx' < Waitlength'
    BY <1>7 DEF IInv, TypeOK, Ranges, Collecting
  <2>2. Waitlength' - Indx' \in Nat \ {0}
    BY <2>1, Remaining
  <2>3. Mode' = "part" /\ Left' \in Nat \ {0}
    BY <1>1, <1>7, <2>2 DEF Mode, Left
  <2> QED BY <1>4, <2>3 DEF Frames!Next, Frames!Last
<1>8. CASE state' \in 8..10
  <2>1. Waitlength' \in Nat /\ Waitlength' >= 1
    BY <1>8 DEF IInv, TypeOK, Ranges, Streaming
  <2>2. Mode' = "part" /\ Left' \in Nat \ {0}
    BY <1>1, <1>8, <2>1 DEF Mode, Left
  <2> QED BY <1>4, <2>2 DEF Frames!Next, Frames!Last
<1> QED BY <1>5, <1>6, <1>7, <1>8

\* A byte of a block is taken by its part, or ends it.
LEMMA StreamCuts == IInv /\ IInv' /\ Stream => Frames!Next
<1> SUFFICES ASSUME IInv, IInv', Stream PROVE Frames!Next
  OBVIOUS
<1>1. /\ state \in 8..10 /\ ~test /\ ~test'
      /\ Waitlength' = Waitlength - 1
      /\ state' = IF Waitlength' = 0 THEN 0 ELSE state
  BY DEF Stream
<1>2. Waitlength \in Nat /\ Waitlength >= 1
  BY <1>1 DEF IInv, TypeOK, Ranges, Streaming
<1>3. Mode = "part" /\ Left = Waitlength
  BY <1>1 DEF Mode, Left
<1>4. CASE Waitlength = 1
  <2>1. state' = 0
    BY <1>1, <1>4
  <2>2. Mode' = "text" /\ Left' = 0
    BY <1>1, <2>1 DEF Mode, Left
  <2> QED BY <1>3, <1>4, <2>2 DEF Frames!Next, Frames!Last
<1>5. CASE Waitlength # 1
  <2>1. state' = state /\ Left > 1
    BY <1>1, <1>2, <1>3, <1>5
  <2>2. Mode' = "part" /\ Left' = Waitlength - 1
    BY <1>1, <2>1 DEF Mode, Left
  <2> QED BY <1>3, <2>1, <2>2 DEF Frames!Next, Frames!Take
<1> QED BY <1>4, <1>5

\* The other bytes are read, or give a part up.
LEMMA OthersCut ==
  IInv /\ (Escape \/ PrintByte \/ Cancel
           \/ \E isEsc, isZ \in BOOLEAN : TestByte(isEsc, isZ)) => Frames!Next
<1> SUFFICES ASSUME IInv PROVE (Escape \/ PrintByte \/ Cancel
      \/ \E isEsc, isZ \in BOOLEAN : TestByte(isEsc, isZ)) => Frames!Next
  OBVIOUS
<1>1. Escape => Frames!Next
  <2> SUFFICES ASSUME Escape PROVE Frames!Next
    OBVIOUS
  <2>1. Mode = "part" /\ Mode' = "prefix" /\ Left' = 0
    BY DEF Escape, Mode, Left
  <2> QED BY <2>1 DEF Frames!Next, Frames!GiveUp
<1>2. PrintByte => Frames!Next
  <2> SUFFICES ASSUME PrintByte PROVE Frames!Next
    OBVIOUS
  <2>1. Mode = "print" /\ Mode' = "print" /\ Left' = 0
    BY DEF PrintByte, Mode, Left
  <2> QED BY <2>1 DEF Frames!Next, Frames!Read
<1>3. Cancel => Frames!Next
  <2> SUFFICES ASSUME Cancel PROVE Frames!Next
    OBVIOUS
  <2>1. Mode # "test" /\ Mode' = "text" /\ Left' = 0
    BY DEF Cancel, Mode, Left
  <2> QED BY <2>1 DEF Frames!Next, Frames!Cancel
<1>4. ASSUME NEW isEsc \in BOOLEAN, NEW isZ \in BOOLEAN, TestByte(isEsc, isZ)
      PROVE  Frames!Next
  <2>1. test /\ state' \in {0, 7} /\ (state' = 7 => test')
    BY <1>4 DEF TestByte
  <2>2. Mode = "test" /\ Mode' \in {"test", "text"}
    BY <2>1 DEF Mode
  <2>3. Left' = 0
    BY <2>1 DEF Left
  <2> QED BY <2>2, <2>3 DEF Frames!Next, Frames!Read
<1> QED BY <1>1, <1>2, <1>3, <1>4

\* Whatever the host sends, it is cut into text, prefixes and parts that take
\* the number of bytes they began with.
THEOREM CutsIntoCommands == Spec => CutIntoCommands
<1>1. Init => Frames!Init
  <2> SUFFICES ASSUME Init PROVE Frames!Init
    OBVIOUS
  <2>1. state = 0 /\ ~test
    BY DEF Init
  <2> QED BY <2>1 DEF Frames!Init, Mode, Left
<1>2. IInv /\ IInv' /\ [Next]_vars => [Frames!Next]_(Frames!framingVars)
  <2> SUFFICES ASSUME IInv, IInv', [Next]_vars
               PROVE  [Frames!Next]_(Frames!framingVars)
    OBVIOUS
  <2>1. CASE UNCHANGED vars
    <3>1. /\ state' = state /\ Waitlength' = Waitlength /\ Indx' = Indx
          /\ test' = test
      BY <2>1 DEF vars
    <3>2. Mode' = Mode /\ Left' = Left
      BY <3>1 DEF Mode, Left
    <3> QED BY <3>2 DEF Frames!framingVars
  <2>2. Next => Frames!Next
    BY LookupCuts, KeepCuts, FinishCuts, StreamCuts, OthersCut DEF Next
  <2> QED BY <2>1, <2>2
<1> QED BY <1>1, <1>2, Invariance, PTL DEF Spec, CutIntoCommands, Frames!Spec
=============================================================================
