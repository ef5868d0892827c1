# A verification development for tn5250

tn5250 is a 5250 telnet terminal emulator and printer daemon: `curses/tn5250`
and `win32/tn5250-win` show the screens of an AS/400, `lp5250d` prints its
spooled files, and both are built on `lib5250`. This directory holds TLA+
modules translated from that code, TLC configurations that check them on small
instances, and TLAPS proofs for instances of any size.

Line numbers refer to the sources under `src/`; `PROJECT.json` maps every
definition to its lines, lists the runs, the mutants that show that each
property can fail, the hazards of the code and the findings.

## 1. The system

| Component | State | Operations | Interacts with |
|---|---|---|---|
| Event loop and keyboard (`display.c`, `session.c`) | `keystate`, `indicators`, `keySRC`, `key_queue`, `read_opcode` | `waitevent`, `do_keys`, `do_key`, `do_aidkey`, `handle_aidkey`, every host command | terminal (events), stream (records), display buffer (fields) |
| Message line (`display.c`, `session.c`, `dbuffer.c`) | `saved_msg_line`, `msg_line`, the row named by the header | Write Error Code, `indicator_clear(INHIBIT)`, `display_update`, Clear Unit | keyboard, display buffer |
| Printer session (`printsession.c`) | the record in hand, `newjob`, the output command's pipe | main loop, start-up response, Print Complete | stream, output command |
| Streams (`stream.c`, `telnetstr.c`, `sslstream.c`) | decoder state, `sb_buf`, record being formed, list of records, socket | open, connect, `get_byte`, `do_verb`, `sb`, `handle_receive`, `get_record`, `send_packet` | socket or OpenSSL, sessions |
| Display buffer and format table (`dbuffer.c`, `field.c`, half of `display.c`) | cells, cursor, fields, MDT, insert cursor | navigation, insert, delete, field exit, word wrap, roll | keyboard, orders |
| Orders and structured fields (`session.c`) | none of their own (one `static` flag) | SOH, SBA, SF, RA, EA, IC, MC, WEA, TD, WDSF | display buffer, GUI constructs |
| Save and restore (`wtd.c`, `session.c`) | a buffer being written | Save Screen, Save Partial Screen | display buffer, host |
| GUI constructs (`window.c`, `menu.c`, `scrollbar.c`) | circular lists and counts | create, redefine, remove, hit test, choose | display buffer, terminal |
| Macros (`macro.c`) | recording and execution state, 24 key lists, a file | record, play back, read and write the file | `do_keys`, type-ahead queue |
| SCS interpreter and converters (`scs.c`, `scs2ascii.c`, `scs2ps.c`, `scs2pdf.c`) | position, page layout, buffered text, offsets in the file | one callback per control | standard input and output |
| Configuration, printer daemon main, character maps, terminals, Windows programs, traces | see `PROJECT.json` | | |

The program is one thread. Concurrency comes from outside: what the operator
types and what the host sends interleave at `waitevent`, socket reads and
writes end after any byte, several records may complete in one read, and the
process may die.

What is hard in this code, and is therefore what the properties are about:

- *Two writers of one state.* The key state is assigned by keys and by host
  commands, the lights by a different set of statements; nothing keeps them
  together but the order of calls. The same holds of the format table, which
  the host redefines while the user edits, and of the lists and their counts.
- *Stale state.* A saved row, an error code, a verb, a field-exit light or a
  pending read that was valid when it was stored and is used after something
  changed; one index for recording and playing macros.
- *Order.* Keys typed ahead against records that lock and unlock; keys and data
  reported by one call; records against print jobs.
- *Bounds.* A ring that wraps; fields at the last cell; text that wraps over the
  parts of a field; offsets counted beside a file.
- *Round trips.* A screen to orders and back, a macro to text and back, a record
  to escaped bytes and back.
- *Waiting.* A loop that handles one thing per wait; searches round a list.
- *Crashes and partial failures.* A record confirmed before it is written, and
  written to a buffer; short writes; an address that does not answer.

What makes each component correct:

- Keyboard: lights tell the truth about the key state; keys typed ahead are
  handled once, in order, not while locked, and not left behind; fields leave
  only in answer to a read and only from an unlocked keyboard.
- Message line: the covered row comes back; message, copy and light agree.
- Printer: each job gets its records in order; a confirmed record is printed
  unless the program is killed while its job is open.
- Streams: records arrive as sent, however reads are cut, in both directions;
  each negotiation is answered once.
- Format table: the host hears of every change; text moves only inside the
  field that is edited; the cursor's searches end.
- Orders: fields stay on the screen; formats change only behind a locked
  keyboard.
- Save and restore: interpreting a saved screen restores it.
- GUI constructs: counts agree with lists; every choice can be reached.
- Macros: what is recorded is what is played.
- Converters: text stands where the stream puts it; the PDF can be read.

## 2. The modules

| Module | Models | Extends or uses |
|---|---|---|
| `TypeAhead` | what a type-ahead queue promises (abstract) | |
| `KeyRing` | the ring of `key_queue`, head and tail; refines `TypeAhead` | `TypeAhead` |
| `Dialog` | the half-duplex dialog as the host sees it (abstract) | |
| `Keyboard` | event loop, keys, host commands; refines `Dialog` | `TypeAhead`, `Dialog` |
| `Macro` | macros in the loop that feeds keys, over the ring | `KeyRing` |
| `MessageLine` | error messages and the row they cover | |
| `PrintSession` | `lp5250d`'s main loop with a host and crashes | |
| `RecordStream` | records arrive intact (abstract) | |
| `TelnetStream` | the decoder of `telnet_stream_get_byte` and `handle_receive`; refines `RecordStream` | `RecordStream` |
| `TelnetConnection` | connecting, answers as bytes, packets, and the host that decodes them | `TelnetStream` |
| `SslStream` | the choice of stream and the stream over OpenSSL | `TelnetConnection` |
| `DisplayBuffer` | cells, cursor and fields as operators on a record | |
| `WordWrap` | laying out the text of word-wrapped fields | `DisplayBuffer` |
| `Orders` | commands and orders that write a screen | `DisplayBuffer` |
| `FieldEditing` | the keys that edit and move, and what the host is sent | `WordWrap`, `Orders` |
| `SavedScreen` | the orders made of a screen and their interpretation | `Orders` |
| `WriteToDisplay` | host and user writing, saving and restoring a screen | `SavedScreen` |
| `Constructs` | windows, menus, scroll bars, saved and restored too | `SavedScreen` |
| `ScsControls`, `Scs` | the controls and the interpreter of print streams | |
| `ScsToText`, `ScsToPdf` | the text, PostScript and PDF converters | `ScsControls` |
| `PrintFormats` | a converter run over a stream | `Scs`, `ScsToText`, `ScsToPdf` |
| `MC*` | constants and bounds for TLC | |
| `Screen_proofs` | lemmas on cells, and induction and recursion over the numbers | `Orders` |
| other `*_proofs` | theorems about the module of that name; `Display_proofs` about `KeyRing`, `Macro` and `MessageLine`, `Printing_proofs` about `PrintSession` and `PrintFormats`, `TelnetStream_proofs` about both streams | |

### Keyboard

`pc` is the place of the event loop: `loop` (top of `waitevent`'s loop), `wait`
(in `terminal_waitevent`), `keys` (in `do_keys`), `host` (in
`session_handle_receive`), `exit`, `aborted` (an assertion failed). One action is
one handler with everything it calls: `HandleQueuedKey` is `do_key` on the head
of the queue and the move of the head; `PressHelp` the automatic Help;
`TypeKey` one turn of `do_keys`; `ReadCmd`, `WriteToDisplay`, ... one command of
the host with its control characters.

Whether a character fits, a field is full or the cursor stands in a field is any
outcome the code has for the key (`TypeCharacter`, `LeaveField`, ...); which one
it is is decided by the fields, in `FieldEditing`. Keys with the same effect on
what is kept share a name; the comments of the module say which. A host step is
one command, so a record is several steps in a row; several records in one read
are the same. `READ` covers the three read commands, `BAD_COMMAND` every reply
that only reports an error. `session->invited` is left out because nothing reads
it.

### Type-ahead queue and macros

`Keyboard` uses the queue of `TypeAhead`; `KeyRing` is the code's ring. That the
two agree, overflow included, is the property `FifoQueue` and is proved, so the
keyboard's results hold of the ring.

`Macro` puts `macro.c` on top of the ring. `mac` is `display->macro`: `rstate`,
`estate`, the function key, the index `tle` and the keys by function key.
`TypeKey` is a turn of `do_keys` for a key of the terminal, `Play` one for a key
of a macro, `Serve` the handling of a queued key, `KeyEvent` and `NoMoreKeys` the
start and the end of `do_keys`. A macro is written to the file and read back as
lines of characters (`Written`, `Loaded`): a key with a name as `[NAME]`, a long
macro on several lines. `recorded` is history: what was typed for each key.

### Message line

Rows are abstract texts. `saved` is the copy with the width it was made at (a
copy of 80 columns put back into 132 reads past its end: `Debris`). The header
row is any number, also one off the screen, as `dbuffer_msg_line` expects.
`covered` is a history variable: the row and text the first error since the
light went on has covered, and nothing once the header has changed or a second
error came.

### Printer session

A record is its number in the script the host sends. The host is external: it
sends while at most `Window` records are unanswered. `GetRecord(n)` is one turn
of the loop when `n` complete records (0 if only part of one) have arrived;
`SendPrintComplete` and the step behind it are separate because the process may be
killed between them. A record is written with `fprintf` to a stream from `popen`,
which is buffered: `WriteData(n)` puts it behind the records in `buffered` and
passes the oldest `n` of them on to the output command, in `jobs`. `EndJob` is
`pclose`, which passes on the rest. The end of the connection calls `exit`, which
flushes too (`SocketClosed`); `Killed` loses the buffer. A record of which the
command has only some bytes counts as buffered.

### Streams

The host is external and sends tokens: a byte of a record, an end of record, a
command, a verb with its option, a sub-negotiation. `Encode` gives their bytes.
`ReadByte` takes the next byte; `NoMoreData` may happen after any byte and
forgets the local variable `verb`; `at` and `off` say how far the host's script
was read. Bytes are model values for the ones telnet gives a meaning to, and
`x` for the others.

`TelnetConnection` adds the way there and the way back, on real byte values.
`link` says where the connection is (`connecting`, `connected`, `failed`), and
`addresses` what a name resolved to. A packet is a header and data
(`PacketBytes`), escaped; `WriteSome` is one `send` of any length up to `Room`.
`host` decodes what it gets, and keeps the records and answers. An answer to a
negotiation goes out in one `send`, whose result the code does not look at;
`whole` is false once one was cut short or held the byte that was never set.

`SslStream` begins with `Open`, which chooses by prefix. For an SSL stream the
context, the handshake and the certificate's checks come in between; writing
hands OpenSSL the rest until it is taken, and a session that is `broken` cannot
end that loop. The decoder is another copy of the same code, so the module uses
the operators of `TelnetStream`, and its map entries name the copy.

### Screens

`DisplayBuffer` holds the functions of `dbuffer.c` and `field.c` as operators on a
record `d`: `data`, `cur`, `ic`, `fields`, `mdt`, `header`. Rows and columns are
one address. Cells hold `Nul`, `Blank`, `Attr`, `Dup`, letters and digits: what
the editing functions tell apart.

`FieldEditing` is a dialog of a host with a format and a user. A key is one
action with the checks at the head of `do_key`, its function and all it calls:
`Type` is `interactive_addch` with shifting, wrapping, field adjustment and auto
enter. `phase` is `input`, `inhibited` (an operator error), `locked` or `hung` (a
search of the cursor that does not end). `record` is what the last answer held,
`unseen` the fields whose text the host cannot know from its answers and from what
it cleared itself.

`Orders` holds each order and command as an operator on a unit (the display
buffer, the lock, the read in force, the static word-wrap flag and the error an
order was refused with). `WriteToDisplay` lets a host use them, with keys of a
user in between. `SavedScreen` writes a screen as orders as `wtd.c` does, with its
runs, and performs orders; the data stream's bytes are one record per order.
`Constructs` adds the lists `windows`, `menus` and `bars` with their counts, the
structured fields that change them and the arrows that choose.

### Print streams

`ScsControls` has an operator for each handler of `scs.c` on a printer record:
the bytes left to read, the fields of `Tn5250SCS` and what is on paper. `Scs` is
the dispatch, with the callbacks as constant operators, and each converter
instantiates it with its own: `scs2ascii` puts the bytes of a transparent control
out, the other two take the library's handler, which only reads them. `ScsToPdf`
keeps what the code counts
(`filesize`, `streamsize`, the object list) beside what is written, so that the
two can be compared. `PrintFormats` runs one converter over one stream, a control
at a time, and reads the strings of the PDF back as a reader does (`Marks`): a
backslash makes the next character plain, a parenthesis without one breaks the
string, and a backslash that filled the buffer hides its end.

## 3. The runs

| Run | Question | Instance | Distinct states |
|---|---|---|---|
| `keyboard_all` | Do the key state and the indicators agree, is no typed key left behind, and do fields go to the host only in answer to a read? | all 22 keys, all 13 commands, queue of 2 slots, `uninhibited` on | 474 k |
| `keyboard_queue` | Without `uninhibited`: do errors report themselves and send no fields, and are typed-ahead keys served? | 7 keys, 4 commands, queue of 3 slots | 57 k |
| `keyboard_assert` | Does the assertion before a queued key hold? (violated) | 2 keys, 2 commands | stops at the counterexample |
| `message_line_ok` | Does the covered row come back however the light goes out? | 2 and 3 rows, 2 texts, 2 messages | 81 k |
| `print_ok` | Do jobs get their records in order, and are the confirmed records that a crash loses the end of the open job? | 4 scripts of up to 7 records, window 2 | 1.4 k |
| `print_stuck` | Does a job that the host sent end? (violated) | one job, window 1 | stops at the counterexample |
| `telnet_ok` | Reads and writes ending after any byte: are the records formed, each negotiation answered once, and the packets whole and in order at the host? | every well-formed concatenation of 3 of 18 phrases, plain and SSL, 4 name resolutions, 4 certificates: 20,024 initial states | 3.26 M |
| `editing` | Do the screen, the modified-data tags and what the host gets agree, and does every cursor search end? | 5 formats on 4×5 cells, 2 contents, 3 typed characters, 4 keys | 56 k |
| `write_to_display` | Do fields stay on the screen, and does the stream made for the host rebuild the screen? | 3×4 cells, 3 steps | 814 k |
| `constructs` | Do counts and lists keep together up to the known fault, and can every choice be reached? | 4×10 cells, 5 steps, 2 windows, 2 menus | 632 k |
| `macro` | Does the ring stay a queue, and does a macro play what was recorded? | ring of 3, 2 function keys, 6 typed keys, 2 files | 2.25 M |
| `print_formats` | Does text stand where the printer would put it, and does the cross-reference table point at the objects? | 3 converters, 64,333 streams, buffer of 3 | 430 k |

Why the bounds are enough.

- *Keyboard.* There is no counter besides the queue; two slots make it full with
  one key and three let it hold two unlike keys, which is what order, loss and
  draining need. *Macros*: a ring of three slots overflows; two function keys
  whose names begin alike are what the search by prefix confuses, two keys in a
  macro and lines of five characters break a macro over lines, and six typed keys
  are a whole recording and a playback, or two recordings.
- *Message line.* A header row that differs from the last row and two messages,
  one to be covered by the other.
- *Printer.* Two jobs, an empty one and Clear at each place cover the transitions
  of `newjob`; two unanswered records are the fewest that can arrive together. The
  buffer has no size: at each record any number of the oldest may go out.
- *Streams.* Three phrases put every construct between two others; reads are cut
  at every byte and writes at 3 and 60. A packet of 245 bytes has a length whose
  low byte is 0xFF, which is escaped. Addresses: none, one that answers, one after
  a refusal, and one for which no socket can be made.
- *Editing.* Five formats have every kind of field, of one to three cells:
  upper case, right adjusted with blanks and zeros, signed, digits, magnetic
  reader, bypass, continued and word-wrapped over three rows, auto enter, field
  exit required and cursor progression. Four keys fill a field, leave it, and
  change what is left; or change a field, send it, let the host clear it and
  change it again.
- *Orders.* Twelve cells, three orders, keys or commands after an empty or a
  written screen: enough for a field over another, one that does not fit and one
  changed in between, and then a save, one more step and the restore.
- *Constructs.* Five steps: two of a kind, one removed, a save and a restore.
- *Print streams.* Every control stands between letters and next to every other;
  streams of up to four controls that move on the paper fill a buffer of three
  characters and change pages with text before, between and after. Up to six
  letters and parentheses bring every escape to the end of that buffer.

The bounds are named in the configurations: `MaxKeys`, `MaxSteps`, `MaxTyped`,
`Window` and `Room`, and the sizes of screens, rings and buffers.

`AnswersTheHost`, `OneErrorIsUndone` and `PacketsArrive` are stated with their
exceptions: the verb of an answer is open for DONT and WONT (the code sends a
byte it never set) and when a read ended between verb and option; a cleared
screen or a second error undoes the promise of the first; and a host that got
only part of an answer decodes nothing after it. `RestoreGivesBack` names, cell by
cell, what a restored screen may differ in; its comment says why. `HostAgrees`
leaves signed fields out of the one command that sends their last digit twice.
`ChoicesReached` is about menus whose texts kept their length. `TextInPlace` ends,
in a PDF, at a parenthesis whose backslash had no room for it in the buffer; up to
there the text is right. `XrefRight` compares when counters are reset, the bytes
that end a stream, the numbering of objects and the references; that a function
adds the number of bytes it has just written is taken from the code (`Object` and
`InStream` add one number to what is counted and to what is written).

The instances leave out what is known to break the properties, and section 5
lists it: a 0xFF before a 0xF0 in a sub-negotiation, a continued field whose last
part has one cell, progression numbers of fields that are not there, a word-wrapped
field before a restore, a `[` in a macro's text, a backslash in the text of a PDF,
raw bytes before a horizontal position. The print streams keep the controls that
end the program (`Fatal`): a converter that has ended so is in the state `dead` and
promises nothing.

`write_to_display`, `constructs` and `print_formats` do not check for deadlock:
their behaviours stop at the bound of steps or at the end of the input.

### Fairness

`keyboard_queue` uses `FairSpec`: weak fairness of the event loop (the program
runs), of `EndOfKeys` (what was typed at one time is finite; `do_keys` reads until
the terminal has no key) and of `EndOfRecords` (the records received at one time
are finite). Nothing is assumed of the operator or the host. `print_ok` and
`print_stuck` assume weak fairness of the loop, of the discovery of a closed
connection (`select` reports it) and of the host sending what its window allows.
The last one is a hypothesis about the host that makes `EveryRecordHandled` easier
to satisfy: the record stays unhandled although the host does all it may.

The remaining runs check safety and assume no fairness. That the cursor's
searches end is a safety property here (`SearchesEnd`): a search is one step, and
one that does not end leads to the phase `hung`.

## 4. The proofs

TLAPS proves, for every value of the constants allowed by the modules'
assumptions:

- `Keyboard_proofs`. The inductive invariant `IInv` is the type invariant with
  `ErrorStateInhibits`, `LockedShowsXSystem`, `HelpNamesTheError` (together
  `KbInv`) and `QueuedOnlyWhileLocked`. The safety properties need each other:
  that an error state is inhibited after `do_key` depends on what the state was
  when the key was let through. A key is handled in two stages, the tests at the
  head of `do_key` and its switch, so the lemmas say what a key function does
  from a *consistent* pair of key state and lights, which is what the tests
  leave; every step then preserves the invariant and is a step of `Dialog`
  (`StepOutcome`). From it: `TypeCorrect`, `ErrorsInhibit`, `LockIsShown`,
  `HelpIsTruthful`, `NoKeyLeftBehind`, `KeyboardIsHalfDuplex` (the refinement),
  and the action properties `ErrorsKeepTheFields` and `KeysAreHeld`.
- `Display_proofs`. For the ring alone, `IInv` adds to the types that the slots
  between the indices were written; `RingIsFifo` shows that `Enqueue`, `Dequeue`
  and `Clear` are `Put`, `Take` and `Flush` of the abstract queue, for any size.
  For the loop with macros, `MacInv` is `RecordingIntact` with the fields of the
  macro record: a recording can begin only when nothing plays and a playback only
  when nothing is recorded, although both may be asked for by keys that waited in
  the ring. One lemma for each function of `macro.c`, one case for each step.
  For the message line, `LineIInv` adds that the covered row is the message line
  and that the copy holds its text; `OneErrorUndone` follows.
- `Printing_proofs`. `JobsInOrder` and `OnlyOpenJobLoses` are not inductive. `IInv`
  adds where every record of the script is (`InTransit`: handled, received or on
  the wire, with no gap), what the place in the loop and `newjob` say of the
  script and of the buffer (`LoopInStep`), and that no record after the last one
  taken is confirmed (`Counted`, which counts answers with `Rank`, the number of
  answered records so far). `JobsInOrder` speaks of what was written (`Written`),
  which a flush does not change (`PassedOn`). While the program runs, a confirmed
  record that no command has read is in the buffer or in hand, and so behind all
  that was printed and of the open job (`MissingAreLast`); a kill leaves that as it
  is. `JobsKeepOrder` and `CrashLosesOpenJob` hold for every script of jobs, every
  window and every moment at which the buffer goes out. `DocumentRight` is about
  the PDF. While pages are written, what the
  code counts is what it wrote: `filesize` is the length of the file, every entry
  of the object list the place where its object begins, and streams alternate
  with the objects that hold their lengths. Every control of the interpreter
  keeps this (`Writing`, with `Open` for a page begun). At the end the remaining
  objects are made in a fixed order (`Named`), and every reference is to the
  number its object has in it (`Referred`). So the offsets, lengths, pages and
  references of the file are right for every stream of controls, size of the
  buffer and length of what is written for a control.
- `TelnetStream_proofs`. `DecoderInStep` says which decoder state goes with the
  place in the host's script, `RecordBegun` that a record has bytes once data
  was sent; with them each byte is a step of `RecordStream` or a stutter.
  `StreamInvariance` carries this to `SslStream`, whose own steps (choosing the
  stream, the handshake, writing, the host's decoding) leave the decoder alone.
  `RecordsArriveIntact` and `QuestionsAnswered` are stated for that specification,
  so of plain and SSL streams. They assume that every script is well formed
  (`TelnetAssumption`) and has no 0xFF before a 0xF0 in a sub-negotiation
  (`SafeSb`), the fault of section 5; the instance's scripts satisfy both.
- `FieldEditing_proofs`. A key may search round the list of fields, shift text over
  the parts of a field, lay out wrapped text and fill a field. For each of these a
  lemma says that its result is in `Edited(d)`, the screens with the format of `d`
  but for the modified-data tags, cursor and text. The searches walk over
  the circular list and the first landing that fits is a field of it (or the
  search is `Hung`); the way of a shift stays in the parts it goes through
  (`ShiftWayIs`), which is counted along them (`ShiftCountIs`); the layout of
  words writes to places of the parts. Then every key ends in a screen of
  `Edited`, an error or an answer (`Ended`), and says what became of the light for
  field exit (`FerSet`). `IInv` is this with the fields the host does not know and
  the place of the cursor while field exit is required: `FerAtFieldEnd` alone is
  not inductive, since the host's answer keeps the light and must find it off.
  From it `EditingTypeCorrect` and `FerRight`, for every size, format and text.
  `ProtectedStays` is the action property: no key writes a cell outside the
  fields the user may enter. It needs more of a format, and says so: no word wrap
  (a text that overflows is written past its field), no protected number (Field-
  signs it, section 5), parts of a field protected together.
- `WriteToDisplay_proofs`. `IInv` says that the unit is in `Units` (a screen of
  cells whose fields all end on it, a read the host may issue) and that the saved
  orders are in `OrdersKept`. The second part is needed because `Restore` carries
  them out: a field of the saved screen is defined again where the stream puts it,
  and `FieldsStayOnScreen` would fail if saving could write an order with an
  address off the screen. One lemma for each order and key says that it keeps a
  unit a unit; `SavedScreen`'s stream is a fold over the cells, so its lemma is an
  induction over them, and that of `Restore` one over the orders. `FormatStays`
  goes through the steps that change the table and finds the keyboard locked.
- `Constructs_proofs`. `IInv` says that the lists are sequences (`Listed`), that the
  counts go with them and a menu bar's number is its place (`Counted`), and that
  the saved orders can be carried out (`Sent`). The count of windows is only
  known to be zero when the list is empty, because removing one window lowers
  the count only (section 5). Restoring writes menu bars one after the other, so
  `CountsAgree` needs an induction over the saved orders.

`Screen_proofs` makes the last three, and the proof about the PDF, possible. The
induction theorems of the library
have an operator as a parameter, which the provers cannot instantiate; here they
are stated with sets and functions. `Induction` says that a set with 0 and the
successor of each of its numbers holds all of them, and follows from the
library's theorem on well-founded relations, in its form for sets; `Recursion`, that a
function over the numbers with a given first value and a given step exists, as
long as the values stay in a set. What a search or a fold *returns* is then
proved as membership in a set (`Units`, `OrdersKept`), for which closure under one
step is enough.

The assumptions are named in the modules that declare the constants:
`WriteToDisplayAssumption` types the orders a host may send (addresses are on the
screen, because `Orders` refuses the others before it acts; the rows of Roll are
on the screen, which the code does not check but asks of the host),
`ConstructsAssumption` types windows and menus, `PrintFormatsAssumption` says that
streams are sequences of controls, and `ScsToPdfAssumption` that the lengths of
what is written are numbers. `FieldEditingAssumption` is the longest: the formats
are well formed (`IsFormat`), with fields that end on the screen and do not
overlap, parts in order, and no part but the last ending in the last
column, because shifting does not step from such a part to the next (section 5).
TLC evaluates each in the runs.
Each inductive invariant was checked by TLC on its run's instance before it was
proved.

### Only model-checked

- *Liveness*: `HelpIsAutomatic`, `QueueIsServed`, `KeepsUp`.
- *Editing*: `EditsSplice`, `WrapKeepsText` and the other action properties on keys
  say what a shift or a layout leaves in each cell, not only which cells it
  writes; `ProtectedTextStays` for formats with word wrap. `HostAgrees` is not true
  of every format: a wrapped text that overflows is not in the record, and "null
  modified fields" clears the first part of a continued field only. `SearchesEnd`
  would need hypotheses on progression numbers, on the entries of fields and on
  the home position that no code enforces. The instances have room, and numbers
  that are there.
- *Restored contents*: `RestoreGivesBack` and `WindowsComeBack` compare what two
  recursions return, cell by cell.
- `ChoicesReached` does not hold for every value of the constants: a menu list that
  comes back from a restore as a bar may have more choices than the screen has
  room for, since only definition checks that they fit. The instance has room.
- `PacketsArrive` and `PlaysBack` rest on encodings (escaping, names in brackets)
  whose decoders would have to be proved inverse for every sequence. `NoUnwrittenSlot`
  and `FifoQueue` are proved for the ring alone and checked under the macros,
  where a whole macro goes to the ring in one step.
- *Print streams*: `TextInPlace`. Three converters put text on three kinds of paper,
  and the positions in between matter.

No module declares a recursive operator.

## 5. Findings and known faults

Two findings are shown by runs that expect a violation:

1. `keyboard_assert`: an inhibited keyboard can become unlocked without the light
   going out: an error, then a Write to Display that locks and one that unlocks.
   The next key fails the assertion at `display.c:1291` and ends the program.
2. `print_stuck`: the printer loop handles one record per wait; the second of two
   that arrive together may never be handled (`printsession.c:292`).

Modelling showed more, which the modules reproduce or the instances leave out:

- *Keyboard.* The option `uninhibited` is not looked at in the pre-help state
  (`display.c:1308`, against `doc/tn5250rc.5:182`). A key too many empties the
  type-ahead ring although the code tests for a full one (`display.c:1236`).
- *Message line.* A second error message before the reset saves the first one and
  leaves it on the screen (`display.c:2489`, against `session.c:751`).
- *Streams.* An escaped 0xFF in a sub-negotiation leaves the decoder in a state
  where 0xF0 ends it early (`telnetstr.c:756`). A short `send` of an answer loses
  its rest (551). A name that does not resolve frees a pointer that was never set
  (366). Over SSL, writing is tried for ever after a lasting error
  (`sslstream.c:1039`), and a failed handshake is reported as success (557).
- *Editing.* Deleting never steps into a last part of one cell (`dbuffer.c:720`).
  From a part that ends in the last column neither insertion nor deletion steps to
  the next part: the column is 0 when it is compared (715, 808).
  "Null modified fields" clears the first part of a continued field only
  (`session.c:864`). Field- does not look at bypass (`display.c:1714`). Read Input
  Fields sends the last digit of a signed field twice (`session.c:525`). A word
  that does not fit the last part is written past it (`display.c:3057`), and the
  search for the cursor behind it may not end (3103). The searches for a
  progression number end only if a field that can be entered has it (706, 788).
- *Orders.* Erase to Address leaves the cursor one row below
  (`session.c:2147`, against the comment at 2135). Transparent Data counts its room
  from the row above (2006). Move Cursor refuses row and column 1 and never moves
  the cursor (2034). The word-wrap flag is static (1530).
- *Save and restore.* The master MDT is not saved, the run that reaches the end
  of the screen is not written, a field at the first cell is lost, and NULs that
  are skipped leave the blank attribute of the field before.
- *Constructs.* Removing one window lowers the count and keeps the list
  (`session.c:3486`). Remove All and Clear Unit Alternate leave the menu bars
  (1143). A menu bar redefined with more choices uses a choice that is not there
  (2881); longer texts overlap. A saved menu bar comes back as type "bar"
  and with only its first row's text skipped (`wtd.c:492`).
- *Macros.* A `[` in the text reads back as the key whose name begins so
  (`macro.c:189`); a code above 127 reads back negative (437). A macro started from
  the ring plays only at the next key (`display.c:362`). The keys behind one that
  locks the keyboard go to the ring and may overflow it (`macro.c:809`).
- *Printer session.* The host takes records for printed that are still in the
  buffer of the pipe: a program that is killed loses all of the open job that no
  command has read, also when the end of the job was confirmed
  (`printsession.c:301`, 320-329).
- *Print.* Transparent bytes put out by `scs2ascii` do not count for its column
  (`scs2ascii.c:239`); `scs2ps` and `scs2pdf` drop them (`scs.c:253`). When the
  buffer of `scs2pdf` is full, a backslash goes out without its parenthesis
  (`scs2pdf.c:1270`-1288), and a backslash of the text is not escaped (1270): both
  break the string. SCG and SIL are called without a printer and follow a null pointer
  (`scs.c:1430`, 1595); a font of width 0 (879) and a new line before the line
  density is set (`scs2pdf.c:620`) divide by zero. In `scs2ascii` a return puts
  nothing out and a horizontal position to the left is one column off (211). In
  `scs2ps` the last page is not shown and vertical positions have no effect
  (252, 210). In `scs2pdf` relative positions move nothing.

## 6. Plan

Done, in this order: the keyboard with queue and dialog; message line; printer
session; streams, receiving, sending and over SSL; display buffer, editing and
word wrap; orders, save and restore; constructs; macros; print streams.

What is left, by what it would add:

1. `HostAgrees` for formats without word wrap, and the part of `SearchesEnd` that
   does not depend on progression numbers, on top of the lemmas of
   `FieldEditing_proofs`.
2. `KeysAreHeld` for the macros' loop.
3. The records' bytes of the host's writes on top of `TelnetConnection`.

### Not modelled

- Configuration, the daemon's main program, character maps: text read or tables
  looked up at start. The options that matter are constants of the modules.
- Terminals and the Windows programs: drawing through curses or the window
  system; the events they report are inputs of `Keyboard`. The Windows printer
  program repeats the loop of `PrintSession`.
- Trace files: they replay a session for debugging, and the stream type that does
  so is left out of `SslStream`.
- Commands to a PC inside the screen (`display.c:3141`): off unless
  `allow_strpccmd` is set; each update of the display may then run a command and
  press Enter if a read is pending, whatever the key state.
- Pull-down menus and selection lists beyond their choices, borders and colours
  of constructs, ideographic fields: they change what is drawn.
- The metrics of the PDF's fonts, and the options of the converters.
