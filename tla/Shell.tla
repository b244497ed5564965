--------------------------------- MODULE Shell ---------------------------------
(***************************************************************************)
(* The processes of one terminal: the shell, the programs it starts with   *)
(* execute(), and what comes back from halt().                             *)
(*                                                                         *)
(* Which program runs is read from the disk, as in execute().  The other   *)
(* terminals share nothing with this one but the disk, which nobody writes *)
(* (Process, Descriptors, Input and Screen are about what they do share).  *)
(* Module Programs adds what each program does.                            *)
(***************************************************************************)
EXTENDS Syscalls, SequencesExt

CONSTANTS
  Disks,         \* the images that may be in memory
  Lines,         \* what a user types, without the Enter
  MAX_PCB,       \* processes, 6 in the code
  MAX_ARGUMENT_SIZE,  \* of the argument that execute() keeps, 128 in the code
  Space,         \* the character ' '
  Magic,         \* the characters an executable begins with
  EntryPoint,    \* where its entry point is, from 0
  ShellName,     \* "shell"
  ExitCommand    \* "exit"

(* The program a file holds is what its entry point says.                   *)
ProgramOf(image, name) == ReadData(image, DentryByName(image, name).inode_id, EntryPoint, 1)[1]

(* The images have a file "shell", and it is the shell.                      *)
ASSUME ShellAssumption ==
  /\ MAX_PCB \in Nat \ {0} /\ MAX_ARGUMENT_SIZE \in Nat
  /\ \A image \in Disks : WellFormed(image) /\ ProgramOf(image, ShellName) = "shell"
  /\ \A line \in Lines : IsString(line)

VARIABLES
  disk,     \* the image
  stack,    \* the processes, from the base shell to the one that runs
  out,      \* what the program that was started last has written
  message,  \* what the shell said about it
  ended     \* history: how it ended

vars == <<disk, stack, out, message, ended>>

Top      == Last(stack)
Become(p) == stack' = [stack EXCEPT ![Len(stack)] = p]
At(program, pc) == Top.program = program /\ Top.pc = pc

(* What a new process starts with; v holds the local variables of main().   *)
NewProcess(program, argument) ==
  [program |-> program, pc |-> "main", argument |-> argument, fds |-> FreshTable, v |-> <<>>]

Init ==
  /\ disk \in Disks
  /\ stack = <<NewProcess("shell", <<>>)>>
  /\ out = <<>> /\ message = "none" /\ ended = <<"none">>

Puts(text)  == out' = out \o text
Quiet       == UNCHANGED <<out, message, ended>>
Return(p, status) == Become([p EXCEPT !.pc = "return", !.v = [status |-> status]])

-----------------------------------------------------------------------------
(* parse_cmd(): the first two words of a line.                              *)
From(line, i)     == SubSeq(line, i, Len(line))
WordStart(line)   == LET S == {i \in 1 .. Len(line) : line[i] # Space}
                     IN  IF S = {} THEN Len(line) + 1 ELSE Least(S)
WordEnd(line)     == LET S == {i \in WordStart(line) .. Len(line) : line[i] = Space}
                     IN  IF S = {} THEN Len(line) + 1 ELSE Least(S)
FirstWord(line)   == SubSeq(line, WordStart(line), WordEnd(line) - 1)
Argument(line)    == FirstWord(From(line, WordEnd(line)))

(* It refuses an argument that does not fit, but copies the first word        *)
(* unbounded, and each with a NUL behind it: a word of FILE_NAME_SIZE      *)
(* characters or more, and an argument that just fits, write past the      *)
(* local arrays of execute() (61-62).                                      *)
ArgumentFits(line) == Len(Argument(line)) <= MAX_ARGUMENT_SIZE
Overruns(line) ==
  Len(FirstWord(line)) >= FILE_NAME_SIZE \/ Len(Argument(line)) = MAX_ARGUMENT_SIZE

(* The checks of execute(): an entry of that name, whose file is long enough  *)
(* and begins with the magic number.                                       *)
Header(dentry)     == ReadData(disk, dentry.inode_id, 0, Len(Magic) + 1)
Executable(name) ==
  /\ Found(disk, name)
  /\ Len(Header(DentryByName(disk, name))) = Len(Magic) + 1
  /\ SubSeq(Header(DentryByName(disk, name)), 1, Len(Magic)) = Magic
(* The shell's words for what execute() returned.                           *)
Message(rval) == CASE rval = -1  -> "no such command"
                   [] rval = 256 -> "program terminated by exception"
                   [] rval \notin {-1, 0, 256} -> "program terminated abnormally"
                   [] OTHER      -> "none"

Bug_OneMore == Len(stack) > MAX_PCB
TableIsFull == Len(stack) = MAX_PCB

(* The shell reads a line and gives it to execute(), which returns at once if *)
(* it fails: with 0, if the table of processes is full.                    *)
ShellRead(line) ==
  /\ At("shell", "main")
  /\ line \notin {ExitCommand, <<>>}
  /\ out' = <<>>
  /\ IF TableIsFull
     THEN message' = Message(0) /\ ended' = <<"full">> /\ UNCHANGED stack
     ELSE IF ~ArgumentFits(line) \/ ~Executable(FirstWord(line))
     THEN message' = Message(-1) /\ ended' = <<"refused">> /\ UNCHANGED stack
     ELSE /\ stack' = Append(stack, NewProcess(ProgramOf(disk, FirstWord(line)), Argument(line)))
          /\ message' = "none" /\ ended' = <<"runs">>
  /\ UNCHANGED disk

(* The same, when parse_cmd() has overwritten something of execute()'s frame   *)
(* that is still needed: what follows is not modelled, and nothing of this *)
(* terminal is enabled any more.  What lies behind the arrays is the       *)
(* compiler's choice, so ShellRead may happen for such a line too.         *)
ShellOverrun(line) ==
  /\ At("shell", "main")
  /\ line \notin {ExitCommand, <<>>}
  /\ ~TableIsFull /\ Overruns(line)
  /\ Become([Top EXCEPT !.pc = "lost"])
  /\ out' = <<>> /\ message' = "none" /\ ended' = <<"lost">>
  /\ UNCHANGED disk

ShellExit ==
  /\ At("shell", "main")
  /\ Return(Top, 0)
  /\ Quiet /\ UNCHANGED disk

(* halt(): the parent's execute() returns the low byte of the status, but 256 *)
(* for 15.  A base shell starts anew.                                      *)
Bug_Status(status) == IF status % 256 = 0 THEN 256 ELSE status % 256
ReturnValue(status) == IF status % 256 = 15 THEN 256 ELSE status % 256

Halt(status, how) ==
  IF Len(stack) = 1
  THEN stack' = <<NewProcess(ProgramOf(disk, ShellName), <<>>)>> /\ UNCHANGED <<out, message, ended>>
  ELSE /\ stack' = Front(stack)
       /\ message' = Message(ReturnValue(status))
       /\ ended' = how
       /\ UNCHANGED out

(* main() returns into _start, which calls halt() with what it returned.    *)
Leave == /\ Top.pc = "return"
         /\ Halt(Top.v.status, <<"exit", Top.v.status>>)
         /\ UNCHANGED disk

(* An exception: its handler calls halt() too.                              *)
Exceptions         == 0 .. 31
HandlerStatus(vec) == 0
Fault(vec) == Halt(HandlerStatus(vec), <<"exception">>) /\ UNCHANGED disk
=============================================================================
