# DOPT in TLA+

DOPT is a Windows terminal emulator for a host on a serial line.  It receives
the host's commands, keeps the display memory they act on, draws a window of
it on the screen, and sends what the user types.  Plugin DLLs ("modules") run
commands bound to keys and show short messages over the screen ("banners").

This directory holds TLA+ models of the program, configurations for TLC and
proofs for TLAPS.  All of it is translated from the C++ source under `src/src`;
paths below are relative to it.  The repository has no tests; the only other
statements about the program are the comments in the source and in the `.CFG`
files, the texts of messages, and a few `_ASSERT`s.

## 1. Inventory

### Threads

| thread | runs | talks to the others by |
|---|---|---|
| main | `WinMain`, `WaitingMessages`, `WndProc`, the parser, the display, all calls of `Comm` and `CModuleBase` | waits for four events and for window messages |
| one per module | `ThreadRoutine` (`base/mcore.cpp`), the plugin's functions | `hStart`, `hRead`, `hExit`, the shared `hWrite`, two queues |
| banners | `ThreadProc` (`base/messages.cpp`) | the lock `m_BannerShared`, `SendMessage` to the main thread |
| the serial driver (system) | `ReadFile`, `WriteFile`, `WaitCommEvent` | two manual-reset events |

### Components

| component | state | operations | what is hard | what makes it correct |
|---|---|---|---|---|
| plugin modules: `CModuleBase`, `CModule`, `CCommand` | list of modules, per module four events and two locked queues | `Insert`, `Init`, `ExecuteCommandIfFound`, `ExecuteModule`, `Clear`, `ThreadRoutine` | threads, try-locks, a shared auto-reset event, a limit per drain, `TerminateThread` | one command at a time, none lost or doubled; answers are taken; no thread in a deleted module; shutdown ends |
| sending: `Comm::Write`, `WriteFlush` | buffer, `m_WriteStatus`, one overlapped write | `Write`, `WriteFlush`, `Close` | the driver reads the buffer while `Write` appends; partial, failed and refused writes | accepted bytes go out in order, none skipped; bytes do not wait with nothing running |
| receiving and the main loop: `Comm::Select`, `Read`, `WaitingMessages` | driver's queue, `BufferIO`, `bUpdateComplete` | one per event, message dispatch | bytes that arrive between two calls; which event is served first | bytes reach the parser in order, each once; the loop always listens |
| protocol parser: `CPP_Parser`, `Table` | state, `CPP_Waitbuf`, `CPP_Waitproc`, `CPP_Waitlength` | one per byte | commands cut by reads, given up in the middle, headers with lengths, test mode | bytes are cut into commands as announced; handlers find their parameters; it never goes deaf |
| display memory and window: `WN_*`, `PDC_*` | memory of lines, window, cursor, memory and screen locks | about sixty commands | window arithmetic, partial redraws | the screen shows the memory; the window stays inside; locked lines stay |
| console: `GConsole` | cell arrays and their old copies, marks, two counters and an event, cursor, caret, GDI objects | `Print`, `Output*`, `Clear`, `CursorPos`, `Update`, `Init`, `Close`, `BitBlt` | marks against old copies, an event signalled only from zero, two memories of the caret, cursor one beyond the edge, failed resize | what was written is drawn in whole and seen; the caret is at the cursor; writes stay in the arrays |
| banners: `CMessages` | list of windows with an age | `Insert`, `Clear`, `Poll`, constructor, destructor | second thread, windows owned by the first, shutdown | no freed banner is used, no window is left behind, old ones go |
| keyboard: `keyboard_init`, `keyboard_input` | table of codes, names of keys, shift and control flags, language, count of keys; a bound key per module | table at start, key down and up, focus, the question before the exit | flags kept over lost key-ups, repeat counts, names with modifiers, repeated lines | no modifier is stuck; a press does what the configuration names |
| start-up: `WinMain`, `init_dopt_emulation`, `CModuleBase::Init` | - | one call after another, with messages on the console and waits for modules | failures in the middle; a loop that waits for the screen | start-up reaches the main loop or ends |
| options, configuration: `parse_argument` | table of options | parsing at start | sequential text parsing | the options are those of the file |
| printer functions, `IODevice.Write` wrappers | - | empty or one line | - | - |

### How they interact

    host --> driver --> Comm::Read --> BufferIO --> CPP_Parser --> PDC_*/WN_*
                                                                     |
    user --> WndProc --> keyboard_input --> CModuleBase              v
                 |            |                 |  ^            GConsole --> Update
                 |            v                 v  |                         (EVENT_SCREEN)
                 |       Comm::Write <-- ExecuteModule <-- module threads
                 v            |                 |
             CMessages <------|-----------------+
                              v
                           driver --> host

`WaitingMessages` waits for the events of the modules, the screen, reading and
writing, in this order of precedence, and dispatches window messages after each.

## 2. Modules

| module | models | abstract specification | proofs |
|---|---|---|---|
| `ModuleBase` | plugin modules | `ModuleService` | `ModuleBaseProofs` |
| `CommWrite` | sending | `ByteStream` | `CommWriteProofs` |
| `Receive` | receiving, main loop | - | `ReceiveProofs` |
| `Parser` | protocol parser | `Framing` | `ParserProofs` |
| `Window` | display memory and window | - | `WindowProofs` |
| `Messages` | banners | - | `MessagesProofs` |
| `Console` | console, start-up, drawing in the main loop | `Picture` | `ConsoleProofs` |
| `Keyboard` | keyboard, what a key press triggers | - | `KeyboardProofs` |

`MC*.tla` and `MC*.cfg` give the constants their values for TLC.  A definition
whose comment begins with "Mutated" is a faulty variant of the definition that
follows it; it is used in no specification, and shows that a property would
notice the fault.

**ModuleBase.**  `main` is where the main thread stands in `Init`,
`ExecuteCommandIfFound`, `ExecuteModule` or `Clear`; `thr[m]` is where `m`'s
thread stands in `ThreadRoutine`.  An action is what happens between two points
where another thread can see a difference: an event set or reset, a lock taken
or released, a queue entry.  The main thread's accesses to a queue are one step,
a module's take and release the lock in two, since `free_item` may terminate the
thread in between.  What a command says is data: only the kinds of queue entries
are kept.  Left out: `CModuleBase::Remove` and `ExecuteCommandIfFound()` without
a key, which nothing calls; failed allocations; that `MSGQUEUE` swallows a
`WM_QUIT` and, when there was no message, looks at an uninitialised `msg`
(`base/mcore.cpp:375`); its value only decides whether start-up is cut short,
which `InitQuit` allows at any point.

**CommWrite.**  `Write` and `WriteFlush` are actions; the driver takes the bytes
of a transmission out of the buffer one by one (`Transmit`), ends it (`Complete`),
or fails it (`Abort`), and `WriteFile` itself may refuse.  Bytes are numbered as
they are accepted.  Left out: `COM_file`, the mode that replays a file.

**Receive.**  `pc` is where `WaitingMessages` is: waiting, between the two
driver calls of `Read` ("fetch"), before `Select`, or dispatching messages.  The
driver's queue, its memory of what occurred, the pending `WaitCommEvent` and the
event are variables, since bytes arrive between any two calls.  `ExecuteModule`,
`WriteFlush` and `CPP_Parser` are only served here; their effect is in their own
modules.

**Parser.**  One action per kind of byte and state.  `Table` is `Table[4][256]`
of `dopt/table.cpp` with bytes named by what they select: an entry is byte,
procedure, length, next state.  `fresh` and `owed` are bookkeeping for the
properties: how much of `CPP_Waitbuf` belongs to this command, and how much of a
block is still to come.  Handlers that do not touch the parser's state only are
recorded (`ran`); those that do (block writes, the printer header, the test mode)
are modelled.  What the handlers do to the display is in `Window`.  The states 4,
6 and 0xC, which no table and no handler enters, are left out.

**Window.**  The memory is a function from lines to texts, the screen from screen
lines to what they show.  The window, the locks and the cursor's line are the
code's `SVW_Row`, `MLU`, `MLL`, `SLU`, `SLL`, `Cur_Row`; `curs` is the line the
console was told.  Handlers that chain calls (set the cursor, then redraw, then
set it again) are compositions of functions on a record `Display`, one action per
handler.  What the user does to the console behind the terminal's back is here as
well: a resize makes it anew and redraws all (`Resize`), the reset key clears it
(`Reset`).  Left out: cells of a line, attributes, protection, tab stops, the
status line, commands that only answer.

**Messages.**  The main thread's `Insert` takes the lock, puts in line by line,
and gives it back; `Poll` visits the list in the other thread and, to close a
window, waits in "sending" until the main thread, in its loop, runs `MyFunc`.
Banners are numbered as they are inserted, at the end of the list, so the list is
a set of numbers.  Left out: geometry (which banners a new one overlaps is any
subset), painting, and the limit `mmsg`, which `WinMain` sets to none.

**Console.**  The main thread from `WinMain` to the end, as far as it writes on the
console: `pc` is where it stands in start-up, in `message` (printing, or waiting for
`Update`), in `WaitingMessages`, or among the window messages.  `Print` is modelled
character by character, since its place in the arrays (`offset`) and the cursor go
on by themselves; the `Output*` functions are one action, `Output`.  A character and
its attribute are one value, and the counters `m_Dirty` and `m_fCursor`, which are
only compared with zero, are Booleans.  The bit array is a set of marked cells;
`unset`, which assigns to the whole word, and `set`, which goes one too far, are
`Remarked` and `Output`.  The caret of Windows is what the code can see of it: how
often it is hidden, where it was put.  Two kinds of undefined behaviour are choices:
`Print` beyond its arrays goes on or crashes (`PrintOutside`), and `MSGQUEUE` with no
message may find `WM_QUIT` in an uninitialised `msg` (`QueueMisread`).  Handlers of the
host write any cells and set any cursor inside the screen.  Left out: fonts, colours,
GDI, the size of the window, `METHOD_NEW`, which is not compiled.

**Keyboard.**  A name in the configuration, `ctrl+KEY_F3`, is a sequence of modifiers
and the name of a key; a key is its scan code and its extended bit.  `focus` and `held`
are the keys in fact: the window sees key messages only while it has the focus, and the
flags `ctrl` and `shift` follow the messages.  One action per kind of key message, with
everything `keyboard_input` does in `Press`: the reset key, the layout key, the banners,
the modules, the bytes.  Which modules are busy is open (see `ModuleBase`); a module's
key is set by its own thread, at any time after start (`OpenModule`).

## 3. Runs

| run | question | bounds | why they are enough |
|---|---|---|---|
| `modules` | are commands neither lost nor doubled, answers not forgotten, deleted modules quiet; does each module implement `ModuleService` | 2 modules on one key, 2 presses, queues of 3, drain limit 2 | a queue fills up, a drain reaches its limit with both modules having output, a press meets a busy module |
| `modules_live` | are commands answered, answers taken; does shutdown end | queues of 2, drain limit 4, 1 press | the limit is reached only by a module that fills its queue while it is drained |
| `serial_write` | is the buffer what was not sent; does the line carry the accepted bytes in order | buffer 3, writes of 1-2, 5 bytes, 2 failures | a write meets a running transmission, a full buffer, a partial and a failed one |
| `serial_full` | does `Write` keep all it is given | the same | expected violation |
| `receive` | do bytes reach the parser in order, is none forgotten, is everything served | reads of 2, queue of 4, 6 bytes, 1 failure, 2 inputs | the queue holds more than one read; three reads would fill `BufferIO`; a resize may fail |
| `parser` | are bytes cut into commands as announced | the code's size 512; headers 0, 1, 99, 100, 511, 512, 513, and not a number | all byte kinds in all states, and each side of every limit in the handlers |
| `window_text` | does the screen show the memory, do locked lines stay | 4 lines, 2 on the screen, 2 texts, 2 columns | all commands in any order; the locks meet and cross |
| `window_locks` | does the window stay inside, does the cursor follow | 6 lines, 3 on the screen | both ends locked with a line between, paging by a screen |
| `cursor_assert` | is the console's cursor on the screen | 4 lines, 2 on the screen | expected violation |
| `console` | is all that was written drawn in whole, and seen; is the caret at the cursor; do the loops of start-up end; does `Print` stay in the arrays | 2 columns, 3 lines of which 2 are drawn, words of 3 bits, 2 texts, 1 module, 1 second, 1 input | a word holds cells of two lines and cells that are not drawn; a text is longer than a line and than what is left of the screen; the input may be any resize, uncovering, reset, layout key or close, at any time |
| `keyboard` | is no modifier stuck, does a press trigger only what is configured | 5 keys, of which Ctrl and Alt share a flag; a table of 2 lines of 3; 2 names, 1 module, 4 presses | names and keys listed twice, names shared by the module and the terminal, the fourth press clears the banners |
| `banners` | is nothing freed used, no window left, does shutdown end | 2 messages of 0-2 lines | a banner is polled while others are put in, replaced and cleared |

The two runs that expect a violation each show a difference between the code
and what the repository says of it:

* `serial_full`: a comment in `Write` says "FIXED add flush if full"; the code stops at the first byte that does not fit and returns the full length.
* `cursor_assert`: `PDC_Set_Scr_Lock` uses `a1` although `WN_Calc_Dspl` did not set
  it, when the cursor's line is not displayed; the line it passes on may be
  negative, which `GConsole::CursorPos` asserts against.

### Fairness

* `ModuleBase`: the main thread runs, and every module's thread runs outside the
  plugin's own functions.  Those may block for ever; properties that need them to
  return say so.  Threads of Windows are scheduled preemptively.
* `CommWrite`: the main loop calls `WriteFlush` while its event is set, the driver
  ends transmissions (the code sets write timeouts), and a line that can send does
  so in the end (strong fairness, since a transmission may end by timeout first).
* `Receive`: the main thread runs.  Nothing is assumed of the line and the user;
  the number of inputs is bounded, which stands for a user who does not press keys
  without pause.
* `Messages`: both threads run, and `Poll`, which tries the lock once a second, is
  not unlucky for ever (strong fairness).
* `Console`: the main thread runs (`Work`), a handler of the host's bytes ends
  (`ParseEnd`), and the screen's event is served when it is signalled again and again
  (strong fairness: only the event of the modules comes before it, and a module does
  not signal in every turn).  The inputs of the user are bounded, as above.
* `Parser`, `Window`, `Keyboard`: safety only; they are sequential.

`TypeOK` of each module is proved for all values of the constants (section 5) and is no
property of a run.

## 4. What holds, with its exceptions

The exceptions are part of the properties: without them the code violates them.

* A module's output waits without an event after `ExecuteModule` gave up at its
  limit of 100 entries; the next event, of any module, brings it (`cut`).
* Shutdown hangs in the destructor of a queue if `TerminateThread` hit a thread
  that held the queue's lock (`Orphaned`).
* Shutdown hangs if, when the loop has ended, `Poll` is closing a banner: it
  waits in `SendMessage` for the main thread, which waits for it in `~CMessages`
  (`ShutdownEnds` of `Messages`).
* If `WriteFile` refuses at once after resetting the event, `m_WriteStatus` stays
  set and nothing more is sent (`io = "refused"`).
* Bytes that `Read` leaves in the driver's queue, more than 1024 or behind an
  error of the line, wait until another byte arrives (`left`).  `DOPT.CFG` sets
  the queue to 0x4000.
* After a resize that fails the console has no buffers; its event stays signalled
  and comes before reading and sending (`~ready`).  The reset key then never
  returns ("hung").
* Because the screen's event comes before reading, `bUpdateComplete` is always
  TRUE when bytes are read: `BufferIO` never holds bytes between two events, and
  the branch that parses it early (`base/gdopt.cpp:140`) is not reached
  (`ReadWhenDrawn`).
* `CPP_Waitbuf` is one cell short for an attribute followed by 512 characters: the
  limit is tested before the attribute is counted (`InBuffer`).
* A block of `ESC m f` that is too large is rejected, and its bytes are read as
  text; state 0xB is left by CAN only.
* The wrap counter of a block write counts one cell too many per line, so the last
  line of a long write is not redrawn ("skipped").
* `Ctrl_SVW` with a column that is refused moves the window without the cursor
  (`strayed`).
* A resize and the reset key put the console's cursor in the corner; it follows the
  cursor's line again when the host sets it (`strayed`).  The reset key clears the
  screen and not the memory; the lines come back when they are redrawn ("skipped").
* `PDC_Set_Mem_Lock` admits locks that meet or cross.  Scrolling then moves a
  negative number of lines (`crashed`), or, when they just meet, blanks a line of
  the upper lock; `LockedRowsKept` asks for a line between them.  A line feed
  moves characters but not their attributes.  Block writes past the end of memory
  and `Clr_Line` in format mode on the last line are not modelled.
* `Insert` raises `currentModuleCount` and then compares it plus one with the
  capacity, so one place of the list of modules is never used.
* The message about a bad configuration is printed before there is a console, and
  `message` waits for its `Update` for ever: the program hangs with the configuration's
  error instead of returning -1 (`base/gdopt.cpp:47`, `base/options.cpp:206`,
  `base/util.cpp:37`).  `Responsive` speaks of a program with a console.
* `CModuleBase::Init` hands `CursorPos` what `Print` left, which may be one beyond the
  last column; `CursorPos` asserts less than that, in a debug build.
* `bStart` is not reset between modules, so after one that started a later one that
  timed out is reported as Ok (`base/mcore.cpp:393`); the texts are data here.
* The caret of an enabled cursor stays unseen after its size changes, since `CreateCaret`
  makes a hidden one and `old_cursor` says it is shown, and after a resize while it is
  disabled (`misled`).
* `PrintInside` needs at most one more line than columns (80 columns, 27 lines).
  On the last line `Print` writes beyond its arrays before it looks.  `Update` draws
  `SCRROW + 1` lines whatever `CONSOLE_row` says; the model assumes that it is not less.
* Of the modifiers of a name only the first counts, as often as there are modifiers
  (`shift+ctrl+X` is `shift+X`), and releasing one of two Ctrl keys clears the flag that the
  other holds: `HeldModifiers` says that a flag is not set without a key, not the
  converse.
* Of several lines of the keyboard's table for one key or name the last counts, where
  a message of the code says that only the first does (`base/kbd.cpp:212`).
* A repeat count that is even sends nothing, a key without a code sends a zero, and a
  bound key is sent as well.  The label CYRILLIC goes with a reset while the layout stays.

## 5. Proofs

For all values of the constants that satisfy the `ConstantsAssumption` of each
module (sizes are positive, the screen is shorter than the memory, `CPP_Waitbuf`
takes the longest entry of the tables, 291).

* **ModuleBaseProofs** proves `TypeOK`, `CommandHandshake`, `NoStrandedOutput` and
  `FreedIsQuiet`.  The invariant joins them with where each thread may be while
  `hRead`, `hExit` and the locks have a value; none of the four is inductive alone,
  since the handshake needs to know that a module that is not executing touches
  no queue.
  Two results more rest on it.  `ServiceImplemented`: every module implements
  `ModuleService`.  The steps of `ThreadRoutine` and of the plugin map to a step of the
  service of one module, everything else to none; needed besides is what a thread has
  left to push (`TodoShape`: ENTER, or the rest of an answer with LEAVE as its end), since
  `Push` moves one entry at a time and the service must not see one twice or out of turn.
  `NobodyBlocked`, the safety half of the liveness runs: the main thread never
  comes to a lock that a serving module holds (`MainNeverWaits`, but for those
  `TerminateThread` left taken), and a module with a command always has a step to take
  (`CommandMoves`); needed besides, that only a module bound to its key gets one (`KeyPlace`).
* **CommWriteProofs** proves `TypeOK`, `BufferIsUnsent`, `NoStall`, and that the
  sending side implements `ByteStream`.  The invariant is `TypeOK`,
  `BufferIsUnsent` and two parts more: `StatusInv`, what the status of the port
  says of the transmission, and `WireInv`, that the bytes confirmed (accepted, less
  those in the buffer, plus those a running or unacknowledged transmission sent)
  are the latest byte on the line unless a transmission failed, and never more.
  `LineCorrect` says what follows for the bytes: each accepted byte is on the line or in the
  buffer (`NothingLost`), the line carries each once and in order while the driver
  reports no failure (`OnceInOrder`), and a byte that is not out yet is being sent or
  will be looked at (`UnsentMoves`).  Its invariant `LineInv` says that no byte before the
  latest is missing on the line, which the order in `ByteStream` alone does not.
* **WindowProofs** proves `TypeOK`, `WindowInside`, `CursorFollows`,
  `ScreenShowsMemory`, `LockedRowsKept`.  The invariant: while the cursor's line
  is a line of the memory, the display is good (the window inside its bounds,
  every screen line showing its memory line, the cursor on its line) and the
  screen locks are within the memory locks.  The lemmas say what each redrawing
  function does to a display whose other lines are right; each command is then a
  composition of them.  Two results say how far the finding of run `cursor_assert`
  reaches: the terminal's cursor leaves the memory by `PDC_Set_Scr_Lock` only, and only when
  the window had been moved away from its line (`CursorIsKept`, an action property);
  and as long as it has not, what `CursorPos` asserts holds (`CursorIsAsserted`).
* **ParserProofs** proves `TypeOK`, `InBuffer`, `ParametersComplete`,
  `BlockDelivered`, `NeverDeaf` and the implementation of `Framing`.  Needed
  besides: every entry of the tables asks for at least the parameters its handler
  reads; in state 5 what is collected is this command's, from its first cell, and
  its length is that of the announced block; in states 8 to 10 the length is what
  is owed.
* **ReceiveProofs** proves `TypeOK`, `InOrder`, `ReadWhenDrawn`, `Listening` and
  `NoStrand`.  Needed besides: bytes a call of `Read` will not bring
  are known to the loop or recorded by the driver (`Noted`); `Read` asks only for
  bytes that are in the queue (`Asked`); the screen's event is signalled as long as
  the screen is not complete, and it is complete while a read is under way (`Drawn`).
  From the same invariant: the loop rests with bytes in the queue only if it knows of
  them (`RestsKnowingly`), and the branches of `WaitingMessages` that buffer bytes are
  never taken with a byte to buffer (`BytesParsedAtOnce`, an action property).
* **ConsoleProofs** proves `TypeOK`, `ScreenTrue`, `CaretTrue`, `PrintInside` and that the
  console implements `Picture`.  The invariant: a cell that differs from its old copy is
  marked and something is to be updated (`Marks`); a valid window shows what was drawn
  (`Glass`); a counter that is not zero has its event (`Signals`); what `old_cursor` says of
  the caret (`Caret`); and `Print`'s place is ahead of the cursor by no more than the
  lines it has come down (`Lag`).  `ScreenTrue` alone is not inductive: it says nothing
  while the event is signalled.
* **KeyboardProofs** proves `TypeOK`, `HeldModifiers` and `RunAsNamed`.  Needed besides: a chord
  that is bound is the one its name had when the table was read, and nothing is bound
  before (`Bound`), since the table may still give the name to another key.
* **MessagesProofs** proves `TypeOK`, `PollOnListed`, `WindowsListed`.  Needed
  besides: the lock is held by the main thread in `Insert`, or by `Poll`, never
  both; the thread ends only when it was told to; a banner being closed is out of
  the list.  From the same invariant: the two are never in the list at once (`ListIsShared`);
  a message is dropped only while `Poll` looks through the list (`OnlyPollLoses`); and
  a round of `Poll` only goes forward in a list that does not grow, so that it ends
  (`PollGoesForward`).

Only model-checked: the liveness properties (fairness and ENABLED are out of the
prover's reach).  Every other property of a passing run is a theorem.  The
statements that the proof modules define themselves (`NobodyBlocked`, `LineCorrect`,
`CursorIsKept`, `CursorIsAsserted`, `RestsKnowingly`, `BytesParsedAtOnce`, `ListIsShared`,
`OnlyPollLoses`, `PollGoesForward`) are no property of a run: they follow from the
inductive invariants and speak of every step and state of the same modules.

## 6. Not modelled, and the plan

1. **Terminal**: composition of `Receive`, `Parser` and `Window`: bytes in the queue to lines
   on the screen.  So far the three meet by assumption: `Receive` serves a parser, `Parser`
   records the handlers, `Window` and `Console` take them in any order, which is more than
   a parser can send.
2. **Cells**: attributes and protected fields of format mode, tab stops, the status line.

Left out, with the reason:

* Options and configuration (`base/options.cpp`, `base/value.cpp`): parsed once, by one
  thread, before anything else runs, and not changed afterwards.  What depends on them is
  a constant (sizes, limits), an input (the names of keys, the file's success or failure), or
  assumed in a `ConstantsAssumption`.  Three values that `DOPT.CFG` lists for the font,
  EXTRALIGHT, DEMIBOLD and HEAVY, are unknown to `console_font_define`; with one of them the
  configuration is bad, and the program hangs as told in section 4.
* `COM_file`, the mode that replays a file; debug output, which is logging.
* The printer functions and wrappers of `IODevice.Write`: empty or one line.
* Resources, fonts and GDI drawing.
