------------------------------- MODULE Programs -------------------------------
(***************************************************************************)
(* The programs of src/syscalls, as processes of module Shell.             *)
(*                                                                         *)
(* A step of a program is one system call, or calls that always come       *)
(* together; a loop without a call belongs to the step before it.  `out'   *)
(* is the data a program writes: its fixed messages are left out.          *)
(***************************************************************************)
EXTENDS Shell

CONSTANTS
  BUFSIZE,        \* the buffer of cat and grep, 1024 in the code
  SCREENWIDTH,    \* of pingpong, 79 in the code
  Letters,        \* the characters that pingpong moves, in their order
  Newline, Dot, Colon, Wall,   \* the characters '\n', '.', ':' and '|'
  RtcName,        \* "rtc"
  Stale,          \* what a buffer holds where nothing was written
  Statuses,       \* what some other program returns
  Digits,         \* the characters '0' to '9'
  Limits,         \* how far counter counts, for '0', '1' and '2'
  NearMisses      \* names that syserr tries, close to names of files

(* The one directory is "."; buffers take a name and an argument.            *)
ASSUME ProgramsAssumption ==
  /\ BUFSIZE \in Nat /\ BUFSIZE >= FILE_NAME_SIZE /\ BUFSIZE >= MAX_ARGUMENT_SIZE
  /\ \A image \in Disks : \A i \in 1 .. Len(Entries(image)) :
       Entries(image)[i].file_type = DIR_TYPE <=> Entries(image)[i].file_name = <<Dot>>
  /\ Dot # NUL
  /\ Limits \in Seq(Nat) /\ Statuses \subseteq Int /\ Len(NearMisses) \in Nat
  /\ \A i, j \in 1 .. 10 : Digits[i] = Digits[j] => i = j

Go(pc, fds, v) == Become([Top EXCEPT !.pc = pc, !.fds = fds, !.v = v])

(* A loop that reads ends with 0 at the end of the file, with 3 at an error. *)
AtEnd(r)     == r.ret \in {0, Fail}
EndStatus(r) == IF r.ret = 0 THEN 0 ELSE 3

Directory == Open(disk, Top.fds, <<Dot>>)

(* The bytes a program finds in its buffer after a call that returned r.    *)
Buffer(r) == [i \in 1 .. r.ret |-> IF i <= Len(r.data) THEN r.data[i] ELSE Stale]

(* A string ends at its first NUL (ece391_strlen).                          *)
CString(s) == LET S == {i \in 1 .. Len(s) : s[i] = NUL}
              IN  IF S = {} THEN s ELSE SubSeq(s, 1, Least(S) - 1)

-----------------------------------------------------------------------------
CatOpen ==
  /\ At("cat", "main")
  /\ LET name == Getargs(Top.fds, Top.argument, BUFSIZE)
         file == Open(disk, Top.fds, name.data)
     IN  IF name.ret # 0 THEN Return(Top, 3)
         ELSE IF file.ret = Fail THEN Return(Top, 2)
         ELSE Go("copy", file.fds, [fd |-> file.ret])
  /\ Quiet /\ UNCHANGED disk

CatCopy ==
  /\ At("cat", "copy")
  /\ \E r \in {Read(disk, Top.fds, Top.v.fd, BUFSIZE)} :
       IF AtEnd(r) THEN Return(Top, EndStatus(r)) /\ UNCHANGED out
       ELSE Go("copy", r.fds, Top.v) /\ Puts(Buffer(r))
  /\ UNCHANGED <<disk, message, ended>>

LsOpen ==
  /\ At("ls", "main")
  /\ IF Directory.ret = Fail THEN Return(Top, 2)
     ELSE Go("list", Directory.fds, [fd |-> Directory.ret])
  /\ Quiet /\ UNCHANGED disk

LsName ==
  /\ At("ls", "list")
  /\ \E r \in {Read(disk, Top.fds, Top.v.fd, FILE_NAME_SIZE)} :
       IF AtEnd(r) THEN Return(Top, EndStatus(r)) /\ UNCHANGED out
       ELSE Go("list", r.fds, Top.v) /\ Puts(Append(Buffer(r), Newline))
  /\ UNCHANGED <<disk, message, ended>>

-----------------------------------------------------------------------------
GrepOpen ==
  /\ At("grep", "main")
  /\ LET search == Getargs(Top.fds, Top.argument, BUFSIZE)
     IN  IF search.ret # 0 THEN Return(Top, 3)
         ELSE IF Directory.ret = Fail THEN Return(Top, 2)
         ELSE Go("list", Directory.fds, [search |-> search.data, dir |-> Directory.ret])
  /\ Quiet /\ UNCHANGED disk

(* The next name; do_one_file() opens its file unless it begins with a dot.  *)
GrepName ==
  /\ At("grep", "list")
  /\ \E r \in {Read(disk, Top.fds, Top.v.dir, FILE_NAME_SIZE)} :
     \E name \in {CString(Buffer(r))} :
     \E file \in {Open(disk, r.fds, name)} :
       IF AtEnd(r) THEN Return(Top, EndStatus(r))
       ELSE IF name[1] = Dot THEN Go("list", r.fds, Top.v)
       ELSE IF file.ret = Fail THEN Return(Top, 3)
       ELSE Go("scan", file.fds, [search |-> Top.v.search, dir |-> Top.v.dir,
                                  name |-> name, fd |-> file.ret, data |-> <<>>])
  /\ Quiet /\ UNCHANGED disk

(* The inner loop of do_one_file(): the lines of a text, the last of which    *)
(* may lack its newline.                                                   *)
Newlines(text)   == {i \in 1 .. Len(text) : text[i] = Newline}
LineAt(text, i)  == LET S == {j \in Newlines(text) : j >= i}
                    IN  SubSeq(text, i, IF S = {} THEN Len(text) ELSE Least(S) - 1)
LineStarts(text) == {i \in 1 .. Len(text) : i = 1 \/ text[i - 1] = Newline}
LastStart(text)  == CHOOSE i \in LineStarts(text) : \A k \in LineStarts(text) : k <= i
(* What is left over for the next read: an unfinished line, unless the file   *)
(* has ended or it fills the buffer.  (The code also looks at the byte     *)
(* after a full buffer, which it never read: taken not to be a newline.)   *)
Bug_LeftoverLost(text, cnt) == <<>>
Leftover(text, cnt) ==
  IF cnt = 0 \/ text = <<>> \/ Last(text) = Newline \/ LastStart(text) = 1 THEN <<>>
  ELSE From(text, LastStart(text))

Occurs(s, line)  == \E i \in 1 .. Len(line) - Len(s) + 1 : SubSeq(line, i, i + Len(s) - 1) = s
(* What grep prints of a text: the file's name and the line, for each match.  *)
Matches(search, name, text) ==
  LET From1[i \in 1 .. Len(text) + 1] ==
        IF i > Len(text) THEN <<>>
        ELSE IF i \in LineStarts(text) /\ Occurs(search, LineAt(text, i))
        THEN name \o <<Colon>> \o LineAt(text, i) \o <<Newline>> \o From1[i + 1]
        ELSE From1[i + 1]
  IN  From1[1]

Bug_NeverDone(cnt) == FALSE
FileDone(cnt)      == cnt = 0

GrepScan ==
  /\ At("grep", "scan")
  /\ \E r \in {Read(disk, Top.fds, Top.v.fd, BUFSIZE - Len(Top.v.data))} :
     \E text \in {Top.v.data \o Buffer(r)} :
     \E rest \in {Leftover(text, r.ret)} :
     \E lines \in {SubSeq(text, 1, Len(text) - Len(rest))} :
       LET main == [search |-> Top.v.search, dir |-> Top.v.dir]
       IN  IF r.ret = Fail THEN Return(Top, 3) /\ UNCHANGED out
           ELSE /\ Puts(Matches(Top.v.search, Top.v.name, lines))
                /\ IF FileDone(r.ret) THEN Go("list", Close(r.fds, Top.v.fd).fds, main)
                   ELSE Go("scan", r.fds, [Top.v EXCEPT !.data = rest])
  /\ UNCHANGED <<disk, message, ended>>

-----------------------------------------------------------------------------
TestPrint ==
  /\ At("testprint", "main")
  /\ Return(Top, 0)
  /\ Quiet /\ UNCHANGED disk

Hello ==
  /\ At("hello", "main")
  /\ \E line \in Lines : Puts(Append(line, Newline))
  /\ Return(Top, 0)
  /\ UNCHANGED <<disk, message, ended>>

(* counter counts as far as the digit typed says; just Enter counts nothing.  *)
Choice(line) == IF Len(line) = 1 THEN {i \in 1 .. Len(Limits) : Digits[i] = line[1]} ELSE {}
CounterChoose ==
  /\ At("counter", "main")
  /\ \E line \in Lines :
       IF line # <<>> /\ Choice(line) = {} THEN Return(Top, 0)
       ELSE Go("count", Top.fds, [i |-> 0, max |-> IF line = <<>> THEN 0
                                                  ELSE Limits[Least(Choice(line))]])
  /\ Quiet /\ UNCHANGED disk

(* ece391_itoa(): the digits from the last to the first, then ece391_strrev.  *)
Backwards(n) ==
  LET Low[k \in 0 .. n] == IF k = 0 THEN <<>> ELSE <<Digits[(k % 10) + 1]>> \o Low[k \div 10]
  IN  Low[n]
Bug_Itoa(n) == Backwards(n)
Itoa(n)     == IF n = 0 THEN <<Digits[1]>> ELSE Reverse(Backwards(n))

CounterCount ==
  /\ At("counter", "count")
  /\ IF Top.v.i < Top.v.max
     THEN Puts(Append(Itoa(Top.v.i + 1), Newline)) /\ Go("count", Top.fds, [Top.v EXCEPT !.i = @ + 1])
     ELSE Return(Top, 0) /\ UNCHANGED out
  /\ UNCHANGED <<disk, message, ended>>

(* sigtest: set_handler() does nothing, and writing to NULL is a page fault.  *)
SigTest ==
  /\ At("sigtest", "main")
  /\ IF Getargs(Top.fds, Top.argument, BUFSIZE).ret # 0 THEN Return(Top, 3)
     ELSE \E line \in Lines : Go("bad", Top.fds, [name |-> line])
  /\ Quiet /\ UNCHANGED disk
PAGE_FAULT == 14
SigFault == At("sigtest", "bad") /\ Fault(PAGE_FAULT)

(* pingpong has no end.  `out' is the last line it wrote: from STARTLOOP to  *)
(* LOOPMAX - 1 and back, then with the next letter.                        *)
STARTLOOP == 2
LOOPMAX   == SCREENWIDTH - 1
World(j, letter) == [i \in 0 .. SCREENWIDTH |->
  CASE i \in {1, SCREENWIDTH - 1} -> Wall
    [] i = SCREENWIDTH            -> Newline
    [] i = j                      -> Letters[letter]
    [] OTHER                      -> Space]

PingPongOpen ==
  /\ At("pingpong", "main")
  /\ Go("out", Open(disk, Top.fds, RtcName).fds, [j |-> STARTLOOP, letter |-> 1])
  /\ Quiet /\ UNCHANGED disk

PingPongMove ==
  /\ Top.program = "pingpong" /\ Top.pc \in {"out", "back"}
  /\ out' = World(Top.v.j, Top.v.letter)
  /\ LET j    == Top.v.j
         to(k) == [Top.v EXCEPT !.j = k]
         next == [j |-> STARTLOOP, letter |-> (Top.v.letter % Len(Letters)) + 1]
     IN  \/ Top.pc = "out"  /\ j + 1 < LOOPMAX    /\ Go("out", Top.fds, to(j + 1))
         \/ Top.pc = "out"  /\ j + 1 = LOOPMAX    /\ Go("back", Top.fds, Top.v)
         \/ Top.pc = "back" /\ j > STARTLOOP      /\ Go("back", Top.fds, to(j - 1))
         \/ Top.pc = "back" /\ j = STARTLOOP      /\ Go("out", Top.fds, next)
  /\ UNCHANGED <<disk, message, ended>>

-----------------------------------------------------------------------------
(* syserr: the calls of each of its tests, by the test's number.            *)
NEG_NUM == -1073741823
BIG_NUM == 1073741823

Call(eax, ebx, edx)     == [eax |-> eax, ebx |-> ebx, edx |-> edx]
AllOf(fd)               == <<Call(SYS_READ, fd, 31), Call(SYS_WRITE, fd, 31), Call(SYS_CLOSE, fd, 0)>>
EachOf(eax, lo, hi)     == [i \in 1 .. hi - lo + 1 |-> Call(eax, lo + i - 1, 31)]
Tests == <<
  AllOf(NEG_NUM),
  AllOf(BIG_NUM),
  [i \in 1 .. 7 |-> Call(SYS_OPEN, <<Dot>>, 0)] \o EachOf(SYS_CLOSE, 2, 7),
  [i \in 1 .. Len(NearMisses) |-> Call(SYS_OPEN, NearMisses[i], 0)],
  EachOf(SYS_CLOSE, 0, 7) \o EachOf(SYS_READ, 2, 7) \o EachOf(SYS_WRITE, 2, 7),
  <<Call(SYS_VIDMAP, "NULL", 0), Call(SYS_VIDMAP, "kernel", 0)>>,
  <<Call(SYS_WRITE, 0, 31), Call(SYS_READ, 1, 31)>>,
  <<Call(BIG_NUM, 0, 0), Call(NEG_NUM, 0, 0), Call(0, 0, 0)>> >>
OPEN_LOTS == 3

(* The descriptor table after some calls, and which of them failed.         *)
AfterCalls(fds, calls) ==
  LET After[i \in 0 .. Len(calls)] ==
        IF i = 0 THEN [fds |-> fds, failed |-> {}]
        ELSE LET a == After[i - 1]
                 r == SystemCall(disk, a.fds, calls[i])
             IN  [fds |-> r.fds, failed |-> IF r.ret = Fail THEN a.failed \cup {i} ELSE a.failed]
  IN  After[Len(calls)]

(* Every call has to fail; of the seven opens in a row, one.                *)
Passes(test, failed) ==
  IF test = OPEN_LOTS THEN Cardinality(failed \cap 1 .. 7) = 1
  ELSE failed = 1 .. Len(Tests[test])

(* A digit chooses one test, 0 all of them; anything else, none.             *)
SysErrChoose ==
  /\ At("syserr", "main")
  /\ \E line \in Lines :
       LET choice == IF line = <<>> THEN {} ELSE {i \in 0 .. Len(Tests) : Digits[i + 1] = line[1]}
       IN  IF choice = {} THEN Return(Top, 0)
           ELSE Go("test", Top.fds,
                   [fail |-> 0, todo |-> IF choice = {0} THEN [i \in 1 .. Len(Tests) |-> i]
                                         ELSE <<Least(choice)>>])
  /\ Quiet /\ UNCHANGED disk

SysErrTest ==
  /\ At("syserr", "test")
  /\ IF Top.v.todo = <<>> THEN Return(Top, Top.v.fail)
     ELSE LET test == Head(Top.v.todo)
              done == AfterCalls(Top.fds, Tests[test])
          IN  Go("test", done.fds, [todo |-> Tail(Top.v.todo),
                                    fail |-> Top.v.fail + IF Passes(test, done.failed) THEN 0 ELSE 2])
  /\ Quiet /\ UNCHANGED disk

(* Some other program, that returns what it likes or makes a mistake.        *)
OtherReturns ==
  /\ At("other", "main")
  /\ \E status \in Statuses : Return(Top, status)
  /\ Quiet /\ UNCHANGED disk
OtherFaults == At("other", "main") /\ \E vec \in Exceptions : Fault(vec)

Next ==
  \/ \E line \in Lines : ShellRead(line) \/ ShellOverrun(line)
  \/ ShellExit \/ Leave
  \/ CatOpen \/ CatCopy \/ LsOpen \/ LsName
  \/ GrepOpen \/ GrepName \/ GrepScan
  \/ TestPrint \/ Hello \/ CounterChoose \/ CounterCount
  \/ SigTest \/ SigFault \/ PingPongOpen \/ PingPongMove
  \/ SysErrChoose \/ SysErrTest
  \/ OtherReturns \/ OtherFaults

(* The process of a terminal runs again and again (PreemptedRunsAgain of     *)
(* Process), so a command that need not wait for a user makes its calls.   *)
Commands == {"cat", "ls", "grep"}
Spec ==
  /\ Init /\ [][Next]_vars
  /\ WF_vars(CatOpen \/ CatCopy \/ LsOpen \/ LsName \/ GrepOpen \/ GrepName \/ GrepScan \/ Leave)

-----------------------------------------------------------------------------
(* The types of the variables; the table of processes is never too long.    *)
TypeOK ==
  /\ disk \in Disks /\ WellFormed(disk)
  /\ Len(stack) \in 1 .. MAX_PCB
  /\ \A i \in 1 .. Len(stack) :
       /\ DOMAIN stack[i].fds = Fds
       /\ stack[i].fds[0] = Stdin /\ stack[i].fds[1] = Stdout
       /\ i < Len(stack) => stack[i].program = "shell" /\ stack[i].pc = "main"
  /\ message \in {Message(r) : r \in -1 .. 256}

(* The file that a name of any length stands for: names end at              *)
(* FILE_NAME_SIZE.                                                          *)
Meant(name) ==
  {e \in {EntryAt(disk, i) : i \in 0 .. Len(Entries(disk)) - 1} :
     e.file_name = SubSeq(name, 1, Lesser(Len(name), FILE_NAME_SIZE))}

CatPromise ==
  \E e \in Meant(Top.argument) :
    /\ e.file_type = FILE_TYPE => out = FileBytes(disk, e.inode_id)
    /\ e.file_type = RTC_TYPE  => out = <<>>

LsPromise ==
  LET width == FILE_NAME_SIZE + 1
  IN  /\ Len(out) = Len(Entries(disk)) * width
      /\ \A i \in 1 .. Len(out) :
           LET name == EntryAt(disk, (i - 1) \div width).file_name
               k    == ((i - 1) % width) + 1
           IN  out[i] = IF k = width THEN Newline ELSE CharAt(name, k)

GrepPromise ==
  LET InFile(e) == IF e.file_type = FILE_TYPE /\ e.file_name[1] # Dot
                   THEN Matches(Top.argument, e.file_name, FileBytes(disk, e.inode_id)) ELSE <<>>
  IN  out = FlattenSeq([i \in 1 .. Len(Entries(disk)) |-> InFile(Entries(disk)[i])])

(* The decimal form of a number: that of its tens, and the last digit.       *)
Decimal(n) ==
  LET Form[k \in 0 .. n] == IF k < 10 THEN <<Digits[k + 1]>>
                            ELSE Append(Form[k \div 10], Digits[(k % 10) + 1])
  IN  Form[n]
CounterPromise ==
  \E max \in {0} \cup {Limits[i] : i \in 1 .. Len(Limits)} :
    out = FlattenSeq([n \in 1 .. max |-> Append(Decimal(n), Newline)])

(* A program that returns 0 has written what it is for: cat the bytes of its  *)
(* file, ls every name at full width, grep each line with the pattern and  *)
(* the file it is in, counter the numbers.  Buffers are smaller than files *)
(* and blocks smaller than buffers.  Left out, as the code does otherwise: *)
(* lines longer than grep's buffer, which it splits, and a full boot block,*)
(* whose last entry dir_read() does not report (filesystem.c:233).         *)
FullBootBlock == Len(Entries(disk)) = MaxEntries
ShortLines == \A i \in 0 .. BootBlock(disk).num_inodes - 1 :
  LET text == FileBytes(disk, i)
  IN  \A k \in LineStarts(text) : Len(LineAt(text, k)) <= BUFSIZE

OutputAsPromised ==
  Top.pc = "return" /\ Top.v.status = 0 =>
    /\ Top.program = "cat"     => CatPromise
    /\ Top.program = "ls" /\ ~FullBootBlock => LsPromise
    /\ Top.program = "grep" /\ ~FullBootBlock /\ ShortLines => GrepPromise
    /\ Top.program = "counter" => CounterPromise

(* What the shell says after a program has returned is what its main()       *)
(* returned, across _start, halt() of the child, the stack of the parent's *)
(* execute() and the low byte of the status; a refused command is told from*)
(* one that ran and failed (shell.c:28-33, execute.c:44).  A terminal whose *)
(* shell is lost to a word too long for parse_cmd() reports nothing more.  *)
StatusReported ==
  /\ ended[1] = "exit" =>
       message = IF ended[2] % 256 = 0 THEN "none" ELSE "program terminated abnormally"
  /\ ended[1] = "refused" <=> message = "no such command"

(* The error tests of syserr pass, each on its own and all in a row: seven    *)
(* opens fill the table, the closes after them empty it, and no call with a*)
(* wrong number, descriptor, name, pointer or direction succeeds.          *)
SysErrPasses ==
  Top.program = "syserr" =>
    /\ Top.pc = "test"   => Top.v.fail = 0
    /\ Top.pc = "return" => Top.v.status = 0

(* cat, ls and grep come to their end: the positions that their reads move    *)
(* reach the end of the file or of the directory.                          *)
CommandsEnd ==
  \A program \in Commands :
    Top.program = program ~> Top.program = "shell"

(* No line that a user types makes parse_cmd() write past the arrays of       *)
(* execute() (execute.c:61-62, 376-389).  The code does not keep it: a word *)
(* of FILE_NAME_SIZE characters is enough (README, section 5).             *)
FrameKept == Top.pc # "lost"

(* What execute.c:44 says, "0-255 for halt, 256 for exception", and what the  *)
(* shell tells the user by it: a program ended by an exception, and no     *)
(* other, is reported as such (shell.c:30).                                *)
ExceptionReported ==
  ended[1] = "exception" <=> message = "program terminated by exception"
=============================================================================
