# OSGODS kernel: a TLA+ verification project

`src/student-distrib` is a small 32-bit x86 kernel: six processes, three
terminals that take turns on one CPU, a keyboard, an RTC device, a read-only file
system, and ten system calls. Its difficulty is that almost every handler runs
with interrupts on somewhere in the middle, and that a timer tick switches stacks
underneath it. This directory models it from the interrupt controllers to the
programs of `src/syscalls`, checks it with TLC and proves its safety with TLAPS.

## 1. The system

| Component | Source | State | Operations | Modelled in |
|---|---|---|---|---|
| Processes and scheduler | execute.c | the PCB table (`active`, `parent_id`, `tid`, `saved_esp`, `tss_esp0`), `pid`, `curr_pcb`, `scheduled_terminal`, per terminal `pcb_ptr` and `count_pcb` | `execute`, `halt`, `create_pcb`, `context_switch`, `determine_which_pcb_empty`, `scheduler` | Process, ProcessPreempt |
| Timer | pit.c | - | `pit_intr_handler`: EOI, `memory_switch`, `scheduler` | Tick of Process, ProcessPreempt, Screen |
| Paging | page.c | `page_dir[32]` (the program at 128MB), `page_dir[33]`, video pages | `set_up_paging`, `set_vid_map`, `map_video_page` | `page` of Process; `vid_map` of Screen |
| File descriptors | syscall.c | eight descriptors a process: flag, inode, position, operation table | `open`, `close`, `read`, `write`, `getargs`, `vidmap` | Descriptors; results and errors in Syscalls; `vidmap` in Screen |
| RTC driver | rtc.c | the rate, the selected register; ticks are counted in the descriptors' positions | `rtc_open`, `rtc_read`, `rtc_write`, `rtc_intr_handler` | Descriptors |
| Keyboard | keyboard.c | `key_buffer`, `keyb_index`, modifier keys | `keyb_intr_handler`, `update_keyb_buf`, `clean_keyb_buffer` | Input, Screen |
| Terminals | terminal.c | `curr_terminal_num` (on display), the read signal, saved lines, saved screens | `terminal_read`, `terminal_write`, `terminal_switch` | Input; screens in Screen |
| Screen | lib.c, cursor.c | `video_mem`, cursor, `line_is_full`, `prev_screen_x`, `display_buf` | `putc`, `clear`, `memory_switch` | Console (one terminal, all of `putc`), Screen (many terminals, one line) |
| File system | filesystem.c | none but positions (image is read-only) | `read_dentry_by_name/index`, `read_data`, `file_read`, `dir_read` | FileSystem, Syscalls; positions in Descriptors |
| Interrupt controller | i8259.c | two masks | `enable_irq`, `disable_irq`, `send_eoi` | Interrupts |
| Entry and boot | syscall_handler.S, intr_wrapper.S, idt.c, kernel.c | descriptor tables | dispatch, wrappers, exceptions, boot order | Interrupts, Syscalls, Shell; Boot of Process |
| Commands | execute.c (`parse_cmd`, checks, status) | argument, status | command line to process, status to shell | Shell |
| User programs | src/syscalls, src/fish | local variables | their `main()` | Programs; any program at all in the other modules |

**How they interact.** User programs enter through interrupt 0x80, a trap gate:
a system call starts with interrupts *on*. The timer, the keyboard and the RTC
use interrupt gates and start with interrupts off. The tick sends its EOI first,
redirects the screen, and calls `scheduler()`, which stores `esp`/`ebp` in the
current PCB, moves to the next terminal, and jumps to that terminal's saved stack
(or calls `execute("shell")` if the terminal has no process yet). `execute()`
stores the caller's stack pointer in the *same* two PCB fields, so that `halt()` of
the child can jump back into it. `set_up_paging()`, which all three call, begins
with `cli()` and ends with `sti()`, so it ends its caller's critical section. The
RTC interrupt walks over all PCBs and counts ticks in descriptors it finds by
inode -1. The keyboard interrupt fills one buffer for all terminals and raises one
signal for all readers; `terminal_switch()` runs inside it.

**What is hard.** PROJECT.json lists the hazards line by line. They are of six
kinds: (1) ticks inside `execute`, `halt` and `scheduler`; (2) long sequences of
execute, halt and restart over several terminals, against a counter that decides
what is a base shell; (3) one PCB field that two mechanisms save a stack pointer in;
(4) an interrupt handler that writes into other processes' descriptors; (5) one
line buffer and one signal between a reader that waits with interrupts on, a
handler, and a terminal switch that turns interrupts on twice; (6) globals that say
where the next character goes, redirected by every key and tick under a program that is writing. Where
nothing is concurrent there are edges: blocks, buffers, full tables, the corners of the screen, and a
status that passes through five functions.

**What makes each part correct.** *Processes*: the processes of a terminal are a
call chain, counted exactly; whoever runs has its own program and stack;
whoever does not run can be resumed in the frame it stopped in; every terminal
keeps a shell and gets its turn; no terminal's handler touches another terminal.
*Descriptors and RTC*: a tick reaches RTC descriptors only, and no tick is left for
a later owner; reads return. *Input*: each terminal
behaves as if it had its own line, which it should keep over switches (it does not quite, section 5), and a read returns one
entered line of its own terminal. *Screen*: output goes to the screen of
the terminal it belongs to, and all of it is there; the cursor is at the end of the text. *Files and
commands*: a program that reports success has written what it is for, and the shell learns how it ended.
*Interrupts*: a line in service belongs to one handler, and every line is served.

## 2. Modules

| Module | What it is |
|---|---|
| Process | The process layer; a handler is one step, ticks come in user mode. |
| Sessions | Its abstract specification: three call stacks that take turns. |
| ProcessRefinement | The mapping from PCB table and links to call stacks. |
| ProcessProofs | The inductive invariant, the theorems about Process, and each step of Process as a step of Sessions. |
| MC_Process | Puts the above together for one run of TLC. |
| ProcessPreempt | The process layer with handlers cut where interrupts are on, and with kernel stacks. |
| PreemptProofs | The theorems about ProcessPreempt: which ticks do no harm, and that without them it implements Process, step by step. |
| ProcessPreemptRefinement | Without ticks inside the kernel it implements Process. |
| Descriptors | Descriptor tables and the RTC driver. |
| DescriptorsProofs | The theorems about Descriptors: types and ticks. |
| LineInput | Abstract: every terminal has a line of its own. |
| Input | Keyboard, `terminal_switch` and `terminal_read` with the one shared buffer. |
| InputProofs | The theorems about Input: types, lines that do not mix, and each step of Input as a step of LineInput. |
| Screen | Who writes on which screen: `putc`, keys, `terminal_switch`, `memory_switch`, `vidmap`. |
| ScreenProofs | The theorems about Screen. |
| Console | `putc` on a whole screen, against the text it should show. |
| ConsoleProofs | The theorems about Console. |
| FileSystem | A disk image, the lookups and `read_data`, as functions; `FileBytes` is their reference. |
| Syscalls | Every system call on files as a function of disk and descriptor table, and the dispatch. |
| Shell | One terminal's processes: the shell, `parse_cmd`, the checks of `execute`, statuses. |
| Programs | The programs of src/syscalls as such processes. |
| MC_Programs | Two disks and the command lines for them. |
| ProgramsProofs | The theorems about Programs, and so about FileSystem, Syscalls and Shell, for every disk. |
| Interrupts | The two 8259s, the boot that programs them, and nested handlers. |
| InterruptsProofs | The theorems about Interrupts. |

Operators named `Bug_...` are mutants: a slip (a forgotten store, an off-by-one, a
wrong register) in the definition of similar name. Nothing uses them; replacing the
definition by its mutant makes TLC report the property that PROJECT.json pairs with it.

### Process

One action per handler: `Boot` (entry() of kernel.c), `Execute`, `ExecuteFails`,
`Halt`, `HaltBase`, and the tick as `TickResume`, `TickLaunch`, `TickNoBlock` after the
three outcomes of `scheduler()`. `LoadProcess` is what they share: `create_pcb()`,
the saving of the parent's stack pointer, and `context_switch()`.

* A PCB pointer, a kernel stack and a program page are one to one with the slot, so
  all are modelled by the slot number.
* `saved_esp` holds the *kind* of frame it points to and `kstack[s]` the frame that
  is on top of slot s's stack: "execute", "tick", or "user" for none. `Resumable`
  compares them.
* `count_pcb` is `uint32_t` (types.h:63): it wraps at the constant `MaxCount`.
  The check `count_pcb<0` (execute.c:125) therefore never fires and has no action.
* A check in `execute()` that fails leaves only the global `pid` changed. The check
  at line 86 (whole file read) cannot fail on a well-formed image and is left out.
* `halt()` also clears a video mapping flag (Screen), closes descriptors (Descriptors) and
  returns a status (Shell).

`QuietNext` is the machine used as intended: no command is entered before every
terminal has its base shell, which takes the first two ticks. Without this, programs
could fill the table first; `TickNoBlock` is what the code would then do
(`scheduler()` ignores the result of `execute()`, execute.c:304, and the process it interrupted
goes on under the next terminal's name). TypeOK is proved with it.

### ProcessPreempt

The same handlers, cut at each `sti()`: control points `exec` (after `set_up_paging` in
`execute`), `enter` (before `context_switch`), `head` (start of `halt`), `tail` (after `set_up_paging` in
`halt`), `sched` (after `set_up_paging` in `scheduler`). The rest of `scheduler()` has interrupts on and is cut again where it
matters to a tick: `SwitchStack` loads the stack pointer (308-315) and leads to `esp`, `SwitchTss` sets `tss.esp0` (316-317) and
leads to `leave`, and `LeaveSwitch` is its `leave`/`ret` (318-321). `Windows` is the set of control points at
which a tick may land; choosing one at a time shows what each of them costs. Kernel stacks are sequences of
suspended contexts; a context stays in memory after it was resumed until something
is pushed over it, as on the real stack. Where the code would store or jump into
memory that is not modelled the model stops (`Intact`, `TopIntact`), and `NeverLost` says that it does not come to that. The violation runs do not
check deadlock for this reason. A tick that finds no slot for a
shell is left out: with ticks at leave only it is never enabled, because until every terminal has had its turn no
terminal has a second process.

### Descriptors

A call is one action where it touches its own descriptor in a way an interrupt
cannot tell; `rtc_read` is cut into its wait and its reset, and the register select
and data write of `rtc_open` and `rtc_write` are two actions, because the interrupt handler
selects register C in between. Every process may be at any step of a call, since ticks switch
between them anywhere. A name is modelled by the inode `open()` stores for it. `halt()`
of a base shell leaves its descriptors open, as in the code; `create_pcb()` resets them.
`due` is a history variable: has an interrupt come since this descriptor was opened or last read?

### Input

`terminal_read()` is cut at each access to shared state, and `terminal_switch()` where it
turns interrupts on. A tick there leaves the keyboard handler suspended on the
stack of the program it interrupted (`switch.host`), and no key comes until it is done, because the EOI
is sent last. Each key is tagged with the terminal on display when it was typed
(history). `Patient` describes the user: TRUE if they wait, before the next key, until the
program on display has asked for input and no entered line is pending. `terminal_read` ignores its
`nbytes`, so the model has none. What is typed beyond the length of
`key_buffer` is not modelled either; `MaxLine` stays within it. A line that fills the buffer is thrown away
by the read, which LineInput has as lines over `Longest`.

`terminal_init()` keeps the saved lines in a local array (terminal.c:128, 139) on the boot stack, which begins at the same address as the kernel
stack of process 0 (boot.S, execute.c:207). So whenever terminal 0 has the turn any saved key may turn into `Junk` (`Spoil`), and saving a line that is not empty may
overwrite something process 0 needs (`SwitchOverwrites`): after that, `lost`, nothing more is modelled. A line is taken to be
saved at its length: `keyb_buffer_index` is in terminal_list, which is static. LineInput promises as little: a line that waits keeps its
length and its terminal, not its keys.

### Screen

`vram` holds the VGA frame and each terminal's saved page; `video_mem` is the frame `putc()` writes to
and `screen_x` the cell. A frame is one line, a character is the terminal it belongs to. `terminal_write()` keeps
interrupts off and is one step; a character that the kernel prints with interrupts on (`halt`,
`terminal_bad_read`) is cut into drawing, advancing the cursor and storing it; `vidmap()` into its three accesses to
shared state; the keyboard handler where `terminal_switch()` turns interrupts on and at its own
`sti()`. `Windows` names those places at which ticks may come. `out` is history: how many characters the line should
have, or Lost once one of the events named in `OutputShown` disturbed that terminal. What a
program draws through its map is not kept, only where it would go. `halt()` looks at the display (`HaltLook`) and then clears the two flags (`HaltClear`), for
whichever process of the terminal ends, the one that called `vidmap()` or a child it executed; `mapped` is history: has a program of the terminal
called `vidmap()`, and has no `halt()` taken its map since. A page fault on a missing map ends in `halt()` too.

### Console

The variables of `putc()` for one terminal that is alone: the code has one `display_buf`, `line_is_full` and `prev_screen_x` for all (section 5). `display_buf` is the sequence of what is stored up to
`display_buf_index`: beyond it the array is always 0, since a backspace clears its entry and a full buffer is cleaned
whole. `text` is history, and `Starts` the reference: where each item of a text is, counted from its beginning and not
from tables. `keyb_index` counts the keys a Backspace may erase, including a Tab that found no room and was not shown.
Two things are left out by guards because the code then fails (section 5): a Backspace without anything in `display_buf`
(`InBuffer`), and a Ctrl-L while a row is marked full (`NoRowFull`).

### FileSystem, Syscalls, Shell, Programs

A disk is a function from block numbers to blocks, laid out as `file_system_init()` reads it, so a wrong block
number reads a wrong block. `ReadData` is `read_data()` with its first block, whole blocks and rest. A call
returns a value, the bytes it put into the buffer, and the table. Positions move as in the code, one byte is one
element, and a string comparison stops where `strncmp` does.

A process of Shell is its program, where it is in `main()`, its argument and its descriptors; `stack` is the terminal's call chain
(Process shows that this is what the PCB links are). The other terminals are left out: they share only the disk, which nobody
writes. What a program is, is read from the disk: an entry, the magic number, an entry point, all through `ReadData`, so that a wrong
lookup runs a wrong program. `parse_cmd()` refuses an argument that is too long but not a first word: one of 32 characters is written past the local arrays of
`execute()` (61-62), and so is the NUL of an argument of exactly 128. Such a line may do no harm and be refused (`ShellRead`) or end the terminal (`ShellOverrun`, program counter
"lost"), since what lies behind the arrays is the compiler's choice. A step of a program is a call, or calls that come together. `out` is the data a program
writes, without its fixed messages. The buffers of programs are modelled as what `read()` returned and left of the rest, with `Stale`
for bytes nobody wrote. syserr's calls go through `SystemCall` by number.

### Interrupts

A byte sent to a port is the set of its bits, and the two chips take it as their data sheet says
(the external part): ICW1 starts an initialisation that takes two or three more bytes, after which bytes are masks. The kernel sends
the master no ICW4, so the model decides what the next byte means. A request is passed on if it is not masked and nothing of
its priority or above is in service. The boot is a sequence of phases (`boot`); the rounds in which `i8259_init()` masks the lines are steps of their own (`loop`), because
the first of them writes the mask that the master takes for its ICW4. A handler is a frame on the stack of the process it interrupted; `at` says how far it is. The tick's
handler sends its EOI and leaves for the next process, whose own frames go on.

## 3. Runs

| Run | Spec | Bounds | Result |
|---|---|---|---|
| process | Process!QuietSpec | 5 slots, 3 terminals | passes, 15 799 states |
| preempt | RefSpec | 4 slots, 2 terminals, no tick in the kernel | passes, 196 941 states |
| preempt_ticks | Spec | 3 slots, 2 terminals, ticks at leave, at most 2 contexts a stack | passes, 227 137 states |
| preempt_switch | Spec | as preempt_ticks, ticks at esp | KernelKnowsWho violated |
| preempt_halt | Spec | 3 slots, 2 terminals, ticks at head, at most 1 context a stack | OneBaseShell violated |
| preempt_exec | Spec | 4 slots, 2 terminals, ticks at exec, at most 2 contexts a stack | RunsOwnProgram violated |
| descriptors | Spec | 2 processes (one a base shell), 4 descriptors | passes, 298 884 states |
| input | Spec | 2 terminals, buffer and lines of 3 keys, patient user | passes, 202 104 states |
| screen | Spec | 2 terminals, 2 cells, ticks in the handler at memory, end | passes, 6 460 424 states |
| console | Spec | 3 by 3 screen, 3 keys a line, Ctrl-L with up to 3 characters out | passes, 824 012 states |
| programs | Spec | 2 disks, 34 command lines, 3 processes, names of 3 characters, arguments of 4 | passes, 1 814 states |
| interrupts | Spec | 2 processes, 3 handlers a stack, no tick in phase 6 of the boot | passes, 20 502 states |

**What they show.**

* `process`: with atomic handlers the process layer is right. The invariants relate counter
  and table (`CountMatches`), links and pointers (`CallChain`, `ParentAlive`), the CPU's page and TSS and
  the PCB (`OwnMemory`), saved pointers and stacks (`Resumable`), and show that a shell always finds a slot
  (`NoFailingPath`). `Isolation` is about steps, `PreemptedRunsAgain` is liveness, and
  `ImplementsSessions` says that nothing else happens to the terminals' call stacks.
* `preempt`: the same handlers, cut and on real stacks, implement the atomic ones if no
  tick comes inside them. What Process sees of the cut handlers is the state at the last moment in user mode
  (history variable `seen`). Process is thus a sound abstraction of everything but nested ticks.
* `preempt_ticks`: a tick that cuts `scheduler()` short once `tss.esp0` is set is harmless to *who runs with what*, to the base shells, and to the
  contexts on the stacks, however such ticks nest. PreemptProofs proves this for all sizes. (It may still starve a process, see section 5.)
* `preempt_switch`: a few instructions earlier the same tick is not harmless. The stack is the next process's, `tss.esp0` the last one's, and line 288 saves
  it in the wrong PCB. The tick windows before, `sched` and `enter`, lose a saved context (section 5).
* `preempt_halt`: `halt()` counts its process out before it closes it, with interrupts on. A round of ticks in between starts
  a second base shell. With 4 slots and ticks at enter as well, this also breaks RunsOwnProgram; 3 slots do not show that.
* `preempt_exec`: the disagreement between code and comments that matters
  most. For ticks at `tail` alone (4 slots) the same property fails, and KernelKnowsWho, NeverLost and OneBaseShell with it.
* `descriptors`: descriptors and ticks are right in every interleaving. A read of a second RTC descriptor of one process does
  not return while the first is open, because the handler stops at the first (rtc.c:34).
* `input`: one buffer and one signal implement a line for each terminal
  for a patient user, also when it overflows, but for the keys that process 0 writes over while a line is saved. That for any other user lines at least do not mix is proved (LinesCorrect), without a run.
* `screen`: text never gets on another terminal's screen, screens survive switches,
  and nothing is missing except after the events that `OutputShown` lists: those are the cases where the
  handler leaves another terminal's cursor in `screen_x`. At the start of a turn the video map is that of the terminal, if the terminal still has one.
* `console`: three tables that scroll and wrap differently together remember enough to undo any
  character, within the exclusions above.
* `programs`: what a user sees. `OutputAsPromised` compares what cat, ls, grep and counter wrote with references that look
  at the disk byte by byte, and so checks `read_data`, the lookups, positions, descriptors and the programs' buffering together.
  `StatusReported` follows a status from `main()` to the shell's message. `SysErrPasses` are the project's own tests of errors, run
  each alone and all in a row. `CommandsEnd` is liveness: the positions reach the end.
* `interrupts`: `ControllersReady` is about the boot (the controllers, at the first instruction with interrupts on, are programmed
  as the masks in memory say), `OneAtATime` relates the chips to the stacks of all
  processes, `EveryLineServed` is liveness: an EOI that a switched-out keyboard handler still owes blocks the lines below it only until
  that process's next turn.

**Why the bounds are enough.** Five slots for three terminals let two terminals compete for the last
slots with a full table and chains of three; a chain longer than three or a fourth terminal adds no new
kind of step (and the safety part is proved for all sizes). In ProcessPreempt two
terminals suffice for a tick to interrupt a handler and another to come back to it; nesting is cut at
`MaxDepth` = 2 (deeper nesting and more slots are covered by the proof). MaxCount = 6 exceeds every number of processes, so that only a wrong
decrement wraps. Four descriptors leave two beside stdin and stdout, so that one
can be the second RTC descriptor; `TickCap` = 1 is enough because `rtc_read` only asks whether the count is 0.
`Length` and `NumEntries` of 1 reach end of file in one read, and reads of 1 and 2 units
reach it exactly and beyond. Two terminals and lines of up to three keys are enough for a line that is edited, saved and loaded by a
switch, entered, and too long. On a screen of two cells a lost, doubled or misplaced character shows; two terminals give a displayed one and one in the background.
On a 3 by 3 screen rows fill, scroll with a full and an unfinished row above the last, and `display_buf`
(9 entries) is cleaned in the middle of texts; three keys erase over a row's edge. Blocks of 2 bytes, buffers of 4 and files of 0, 2,
3, 6 and 7 bytes give reads that end at, before and after block and buffer boundaries, blocks out of order, and lines that straddle both;
one disk has a full directory (18 entries) and lines longer than the buffer. Three processes fill the table by a shell started from the shell. Names of 3 characters and arguments of 4 give lines that just fit, that overrun each of the two arrays by one, and that are refused.
Two processes and three handlers let a tick leave a keyboard handler behind, a second key wait, and the RTC nest in both.
`TickPhases` leaves out a tick between `terminal_init()` and `file_system_init()` (see section 5).

**Fairness.** Process: weak fairness of the tick; the PIT runs freely and user mode never
masks it. Nothing is assumed of programs, which may loop for ever. ProcessPreempt: a handler goes on
(weak), and the tick, which stays pending in the PIC while interrupts are off, is taken if it can be again
and again (strong). Descriptors: the RTC goes on interrupting, since the handler reads register C each time,
and a process in a call goes on, which PreemptedRunsAgain of Process justifies. Input: ticks go on,
and what a program or suspended handler can do in each of its turns it does (strong,
because it only has the CPU in its turns). Programs: cat, ls and grep go on with their calls (weak), by
PreemptedRunsAgain; programs that wait for a user, and pingpong, which has no end, need not. Interrupts: the timer raises its line for
ever and a handler goes on (weak), a pending line is accepted if interrupts are on again and again (strong), and each process
gets on with its frames in its turns (strong): between two ticks there is time for more than the tick's handler, as the timer's period is
longer than a switch. Screen and Console have safety properties only and assume nothing.

**Deadlock** is checked except in the violation runs, where the model stops in states that stand for a jump into memory that is not modelled, and in input and
programs, which stop when process 0 or the shell is lost to an overwritten stack.

## 4. Proofs

Eight modules hold theorems. Each has one or two inductive invariants (`IInv`, `DInv` and `TInv`, `PInv`, `SInv`, `AInv`), a lemma per action or
group of actions that keeps it, and short theorems that read the properties of the runs off it. They hold for every value of the
constants; an assumption beyond those of the component's module is named at the theorem and here.

**Processes** (ProcessProofs; `SizeAssumption`: at least one terminal, no more terminals than slots, and a counter with room for every slot):

* `TypeCorrect`: `Spec => []TypeOK`, with no assumption on the users;
* for `QuietSpec`: `CountCorrect`, `ChainCorrect`, `ParentCorrect`, `MemoryCorrect`, `ResumeCorrect`,
  `LaunchCorrect` (the invariants of run `process`) and `IsolationCorrect` (the action property).

None of these is inductive alone. `CallChain` says who is whose child, but a
terminal's links could form a chain and a separate ring of processes without a base; a base shell that
halts would then not leave an empty terminal, and `halt()` would count one too many. To
exclude a ring one would follow the links, which needs induction. The proof instead
gives each process a position (`Order(pos)`): a base shell has position 0, a child one more than its
parent, the front process `count_pcb - 1`, every position is below `count_pcb`, and no two processes of a terminal
share one. `CallOrder` says that such a `pos` exists; each step
exhibits the new one. The invariant `IInv` adds: `Started` (before the first process nothing is set up), `Contexts`
(saved frames, stated with Front instead of Children), and `OneEach` (while a terminal has no base
shell no terminal has a second process), which needs QuietNext and gives `NoFailingPath`.
`InitInv` and `NextInv` (one lemma per action) give `Inductive`; the `...FromInv` lemmas read
each property off it. `LoadFacts`, `LoadCount`, `BaseOrder`, `ChildOrder` and `HaltOrder` are about
the shared body of execute and the three ways a chain changes. Cardinalities use the library's FiniteSetTheorems.
`BoundedStrengthening` is the same strengthening with positions below `MAX_PCB`, in a form TLC can evaluate; it holds in the
configuration of run `process`, but as `Inductive` proves it no run repeats it.

**Ticks inside the kernel** (PreemptProofs; for every `MaxDepth`). `PreemptOwnProgram`, `PreemptKnowsWho`, `PreemptOneShell` and `PreemptNeverLost` assume
`Windows \subseteq {"leave"}`: ticks in user mode, and in `scheduler()` after line 317. The assumption is what the code needs, since a tick at any other
control point breaks one of the four (runs `preempt_exec`, `preempt_halt`, `preempt_switch`; section 5). The invariant has, besides positions as above, with the counter read as `Height` because `halt()`
counts first and closes later:

* `Here`: what holds at each control point. At `exec` the slot found is free and mapped, and a shell's slot is the one after the base shells.
* `BasesLow`: the base shells have the first slots. That is why a base shell that restarts finds its *own* slot, and so goes on using its own kernel stack;
  nothing in the code says so, it follows from the order of the first ticks and of `determine_which_pcb_empty()`.
* `Stopped`, `Callers`: what is written on the stacks. A process that waits for its turn is `Paused`: its own kernel stack holds, from its start to the depth in `saved_esp`, the
  contexts of the ticks that stopped it (`Ticks`), the first in user mode and the rest while it was being switched to, and its PCB holds its own `tss_esp0`. A parent has
  its `execute` context at the start of its own stack as long as its child is there (`Called`).

`BoundedIInv` is the same in TLC's reach; it holds in the configurations of the runs preempt and preempt_ticks.

**Sessions** (end of ProcessProofs). `SessionsImplemented` is the refinement, for `QuietSpec`: `Promised!Init /\ [][Promised!Next]_(...)`, each handler or tick
is one step of three call stacks that take turns, or a stutter. The mapping follows parent links from the front process (`Callers`, a recursive function). `ClimbsUp` unfolds it:
with the positions of `IInv` it yields, for every terminal, *the* sequence of its processes in the order of their positions (`StackUnique`), as long as `count_pcb` says (`Stacks`).
So each of the ways a chain changes, `OpenStep`, `CallStep`, `ReturnStep`, `RestartStep` and `PassStep`, is an Append, a Front or no change of that sequence.

**Handlers are atomic** (end of PreemptProofs; assumes `Windows = {}`, as run `preempt` does). `HandlersImplemented` is the refinement:
`RefSpec => Atomic!Init /\ [][Atomic!QuietNext]_(Atomic!vars)`. The last step of a handler (the iret of `context_switch()`, the `leave`/`ret` of
`halt()` and of `scheduler()`) is the whole handler of Process, every other step is a stutter. So the theorems about Process, for `QuietSpec`, hold of what
ProcessPreempt shows in user mode. To the invariant above `AInv` adds:

* `Flat`: every saved context is at the start of its process's own stack. With `Paused`, the ones of ticks were then taken in user mode, and `scheduler()`
  always resumes user code.
* `Sees`: for each control point, what the handler has made so far of the state seen. `execute()` is entered in three `Ways`: by a call (`entry()` included), by a base
  shell that halts, by a tick. `Loading` is what each hands over; `Begun` and `Created` relate it to the state before and after `create_pcb()`. `Counting`, `Closing` and
  `Switching` are the same for `halt()` and `scheduler()`. A restarting shell needs `Places`: its terminal's counter is 0 then, so `execute()` takes it for a base shell.

**Descriptors** (DescriptorsProofs; `DescriptorAssumption`): `NoStaleTickCorrect`, `MovesOnlyRtcCorrect` and `DescriptorTypesCorrect`, for every number of
processes, descriptors, files and frequencies. The invariant `DInv` adds to `NoStaleTick`
the `Shape` of the tables and `FoundByInode`: the interrupt handler looks for inode -1 while `rtc_read()` goes by the
operation table, and the two agree because `open()` stores them together and no file has that inode (`Inodes` are
naturals). Without it a tick could move a file's position, or miss the descriptor whose tick is `due`. `OneEntry` is shared by the calls
that change one descriptor. `TInv` adds that a position is within what its operation table
stands for (`Within`), which makes "no read leaves a position behind the end of file" part of the type; `RateType` shows that the loop of `rtc_write()` finds a rate
from 6 to 15 for every frequency that passes its tests.

**Input** (InputProofs). `InputTypeCorrect` and `LinesCorrect` hold for every number of terminals, buffer size and line bound, and
for any user (`Patient` either way). `LinesNotMixed` is inductive together with the types; what carries it is `Shown`, which changes
at the step of `terminal_switch()` that loads the line and not at the one that changes `curr_terminal_num`. Keys of saved lines may turn into junk at any moment (`Spoil`);
that never makes them another terminal's.
`LinesImplemented` is the refinement: for a patient user (as in run `input`) `Spec => Lines!Init /\ [][Lines!Next]_(Lines!vars)`, one
step of LineInput or a stutter for each step of Input, where LineInput lets the keys of a line that waits turn into junk as well. Its invariant `PInv` says what patience buys in a kernel with one signal and one buffer: `SignalWaits` (an entered line
waits for the reader of the terminal on display, and no switch is in progress), `OneReader` (one reader at a time is past the signal, and what it has copied
is what is still in the buffer), `QuietSwitch` (during a switch no reader is past the signal, and the line that was saved has the length of the one in the buffer until the other is loaded).

**Screen** (ScreenProofs; any number of terminals and any width). `ScreenTypeCorrect`, `TextCorrect`, `OutputCorrect` and `KeptCorrect` assume
`"display" \notin Windows`, as the run does: with such a tick the properties fail (terminal.c:173, section 5). `TurnCorrect` needs no such assumption: its invariant `FlagTells` says that a terminal's flag is set exactly
while a program of it has called `vidmap()` and no `halt()` has taken the map since, whichever terminals and processes halt in between. `SInv`: `VideoRight` (who runs has `video_mem` at its own terminal's screen, unless the keyboard handler it was interrupted by has
redirected it), `CursorRight` (where the end of a line that is not Lost is: in `x_cursor` while the terminal waits, in `screen_x` while it
runs, and one off in the middle of a character), `LinesRight`, and `SwitchLoses` (only a terminal whose text is already given up is interrupted by a switch).
`TextNotMixed` alone is not inductive: a character goes to `video_mem`, and that this is the writer's screen is VideoRight.

**Interrupts** (InterruptsProofs; any number of processes and any depth of nesting). `InterruptsTypeCorrect`, `OneAtATimeCorrect` and `ControllersCorrect` hold for
every choice of `TickPhases`. `IInv`: `Programming` (masks and chips after each phase and each round of the loop of `i8259_init()`; the master
has taken the first round's mask for ICW4, and the second round's write gives it all masks), `Quiet` (nothing is requested or in service before `init_rtc()`),
`Served` (of all handlers on all stacks exactly one owes the EOI of a line in service, and the cascade line is in service while a line of the slave is).

**Console** (ConsoleProofs; a screen, a `display_buf`, a line and a text of any size). `ConsoleTypeCorrect` and `ScreenCorrect`. The invariant `IInv` says how the screen and the
memories of `putc()` go with the text, whose items begin at the cells the reference gives (`ShowsAll`, `Shows`):

* `Straight`: no Tab reaches the end of its row, since `putc()` refuses one that would; a Backspace can count back four cells.
* `Marked`: the cells hold what the text puts there, and the cursor.
* `Exits`: where a row was left, `line_is_full` and `prev_screen_x` say how: full, or by an Enter in that column. This is what lets a Backspace go up a row.
* `Remembers`: `display_buf` and the text agree as far back as both go.

`ScreenShowsText` alone is not inductive: a Backspace is undone by the memories, not by the cells. After a scroll it holds of the text
without its first row, whose other items begin a row further up (`Scrolled`, `RowUp`). `ConsoleAssumption` asks for a screen of two rows, with room for more than a Tab in each.

**Programs** (ProgramsProofs; for every set of disks, block and buffer size, number of processes and descriptors, and any lines typed). The assumptions `FileSystemAssumption`,
`SyscallAssumption`, `ShellAssumption` and `ProgramsAssumption` say what the code takes for granted: the images are well formed (`WellFormed`: entries name inodes, files have the blocks their length
needs, names fit and are not repeated), have a shell, and "." as their only directory; a line fits the buffers.

* `ReadsTheFile`: `read_data()` is `SubSeq` of the file, whatever first part of a block, whole blocks and rest it is made of. The lookups, `Read`, `Open` and `Close` have lemmas of the same kind.
* `ProgramsTypeCorrect`: the invariant is `IInv(S) == Base /\ Doing(Top, S)`. `Base` types the chain of processes and each table (`Tables`: an open file names an inode of the disk); `Doing` says
  where each program may be with which local variables, and that it returns a status of the set `S`.
* `StatusCorrect`: the same invariant, with `S` the statuses that are no 15 modulo 256. That is the hypothesis, and it is needed: `halt()` takes a 15 for an exception (execute.c:159). A line that overruns the arrays of `execute()` may end the terminal (`ShellOverrun`), after which nothing is reported; in the other outcome
  the theorem holds for it as for every line.
* `SysErrCorrect`: each of the eight tests, call by call, leaves the table it began with and fails where it should (`EachTest`). It assumes `MAX_FILE_NUM` = 8, as in the code, since the number of opens is
  written into syserr, and `Prepared` disks: "." is there and none of the wrong names is.
* `PromisesKept`: what cat, ls, grep and counter have written is the promise. `OutputPart` adds to `IInv` what each has done *so far*. cat has copied the file up to the descriptor's position; ls has written the names
  before it; counter's numbers come out of `itoa()` backwards, and reversed are the decimal form (`ItoaIs`). grep is the hard one. It holds what was read and not searched in `data`, and `Scanned` says:
  this is the part of the file from a *cut* to the position, a cut being the beginning of a line, and what grep has written for this file is what the lines before the cut give. A buffer moves the cut
  to the start of its last line (`CutAgain`), between cuts the lines and matches of the buffer are those of the file (`SamePiece`, `MoreMatches`), and after a read of 0 bytes the cut is the end (`FileScanned`).
  A full buffer without a newline would break this; lines no longer than the buffer (`ShortLines`, in the property) exclude it except where the line ends right there (`FullBuffer`).

**Induction.** The library's induction theorems cannot be used here, as they take an operator. Where a proof needs induction (`Callers`, the starts of a text, the folds of `FlattenSeq`, the digits of a number), it takes the least
counterexample: a non-empty set of naturals has a least element (lemma `Smallest`, from `WFMin` and `NatLessThanWellFounded`), and the step below it gives the contradiction. A recursive function is
unfolded after a function with that equation has been shown to exist.

**Only model-checked.** Liveness is beyond the prover: `PreemptedRunsAgain`, `ReachesUserAgain`, `FirstRtcReturns`, `CommandsEnd`, `EveryLineServed`, and the fairness part of the
refinements `ImplementsSessions`, `HandlersAreAtomic` and `ImplementsLines`. Every invariant and every action property of the passing runs is a theorem.

## 5. Not modelled, and known disagreements without a run

Not modelled: which character a key with Shift or Caps Lock stands for; the rate of the timer; the fixed kernel pages; boot assembly and
descriptor tables (straight-line set-up); registers saved by the wrappers; string and print helpers; fish and blink, which draw on the
video map (where that map points is in Screen); signal handlers, which `set_handler` accepts and nothing calls; programs that search files with NUL
bytes; tests.c (switched off in kernel.c:174-177); ece391emulate.c (the programs on Linux); createfs and elfconvert (binaries).

Where a module leaves something out because the code does otherwise, it says so where the guard or the exception is.
These were found that way or while reading; the definitions named here are in the modules, and adding them to the run's
configuration, or lifting the bound, shows the counterexample:

* `RateIsSet` (Descriptors): an RTC interrupt between the two port writes of `rtc_write()` selects register C and the new rate is lost,
  although the call returns 4 (rtc.c:151; "effect: change the frequency of the RTC", rtc.c:123).
* `MappedWhileRunning` (Screen): `terminal_switch()` maps the page of the terminal that is next, with its vidmap flag, and the
  keyboard handler puts `video_mem` back but not the map (terminal.c:176; "set vid_map when pit handler executed", page.c:137).
* `NeverLost` with `Windows` = {"sched"} or {"enter"} (ProcessPreempt): `scheduler()` (execute.c:301) and `execute()` (92) have set `curr_pcb` to the next process when
  `set_up_paging()` has turned interrupts on; a tick there stores the handler's context over that process's own, on the stack of the process before, where it is soon overwritten
  and then jumped to. At every other place inside a handler but leave the properties of run `preempt_ticks` fail too: at exec, head and esp as the three violation runs
  show, at tail all four. `ReachesUserAgain` fails even with {"leave"}: a tick may cut short every switch to a process, if it comes at that very moment each time.
* `ReturnsOwnLine` with `Patient` = FALSE (Input): keys between Enter and the copy are returned with the line (terminal.c:89).
* `TextNotMixed` and `OutputShown` with "display" in `Windows` (Screen): a tick at the first `sti()` of `terminal_switch()` (terminal.c:173).
* `MapIsKept` (Screen): `halt()` clears the video flag of its terminal and of the displayed one, whoever set them (execute.c:147-150). A program that
  has called `vidmap()` loses its map when a child it has executed ends, and when a mapped program of another terminal ends while it is on display.
* `LinesKept` (Input): `terminal_list[].keyb_buffer` points into a local array of `terminal_init()` (terminal.c:128, 139), on the boot stack, which begins at
  0x800000 (boot.S) as the kernel stack of process 0 does (execute.c:207). System calls and ticks of process 0 overwrite the lines `terminal_switch()` has saved there (171), and a
  saved line overwrites what process 0 has on that stack.
* `FrameKept` (Programs): `parse_cmd()` copies the first word of a line into `filename[FILE_NAME_SIZE]` without a bound (execute.c:61, 377-380), so a word of 32 characters writes past it; an argument
  of exactly 128 puts its NUL behind `argument` (62, 389).
* `ExceptionReported` (Programs; with 15 among `Statuses` for its second half): every exception handler calls `halt(0)` (idt.c:79-309, `halt(VECTOR)` is commented out), so `execute()` returns 0 and the shell says nothing, although
  execute.c:44 has "256 for exception" and ece391shell.c:30 a message for it. The 256 is what a program gets that returns 15 (execute.c:159).
* `ScreenShowsText` without `NoRowFull` (Console): `clear()` does not reset `line_is_full`, and a later Backspace over an Enter goes to the
  last column of the row above (lib.c:33, 256). Without `InBuffer`: `putc('\b')` right after `display_buf` was cleaned reads and writes
  `display_buf[-1]` (lib.c:248), and a Tab that scrolled away takes the cursor left of the screen (lib.c:250).
* Console is one terminal's screen with tables of its own. In the code `display_buf`, `line_is_full` and `prev_screen_x` (lib.c:184-188) are shared by all terminals, and `terminal_switch()` exchanges the cell
  contents and the cursor but not them: after a switch, or after output of a program in the background, a Backspace goes by what another terminal has printed. `ScreenShowsText` says nothing of that.
* `ShellsFindFiles` with 6 in `TickPhases` (Interrupts): `init_rtc()` turns interrupts on (rtc.c:67), and a tick after `terminal_init()` and before
  `file_system_init()` (kernel.c:163-165) would launch a shell from a file system that is not there.
* `OutputAsPromised` without `FullBootBlock`: `dir_read()` returns 0 for the 63rd entry (filesystem.c:233), so ls does not list it. Without
  `ShortLines`: grep searches lines longer than its buffer in pieces, and looks at the byte after a full buffer (ece391grep.c:33).
* `open()` is said to return 0 (syscall.c:76) and returns the descriptor (115); with a full process table `execute()` returns 0 and the shell
  says nothing (execute.c:53); the PIT divisor's low byte is computed with `&&` (pit.c:17).

## 6. Plan

Done: Process with Sessions, ProcessPreempt, Descriptors, Input with LineInput, Screen, Console, Interrupts, and FileSystem with Syscalls, Shell and Programs, each with its proofs.

Left: fish on the video map of Screen, and modifier keys.
