------------------------------- MODULE Syscalls -------------------------------
(***************************************************************************)
(* The system calls on files (syscall.c, with the operation tables behind  *)
(* them), as functions of a disk and a descriptor table.  A call returns a *)
(* value, the bytes it put into the caller's buffer, and the table after   *)
(* it.  Module Descriptors has the same calls between interrupts; here is  *)
(* what they compute, with every error they report.                        *)
(***************************************************************************)
EXTENDS FileSystem

CONSTANT MAX_FILE_NUM   \* descriptors of a process, 8 in the code

ASSUME SyscallAssumption == MAX_FILE_NUM \in Nat /\ MAX_FILE_NUM > 2

Fds == 0 .. MAX_FILE_NUM - 1

Closed == [flag |-> FALSE, inode |-> 0, pos |-> 0, ops |-> "fail"]
Stdin  == [flag |-> TRUE, inode |-> 0, pos |-> 0, ops |-> "stdin"]
Stdout == [flag |-> TRUE, inode |-> 0, pos |-> 0, ops |-> "stdout"]

(* create_pcb(): a new process has the terminal, and nothing else, open.     *)
FreshTable == [i \in Fds |-> IF i = 0 THEN Stdin ELSE IF i = 1 THEN Stdout ELSE Closed]

Result(ret, data, fds) == [ret |-> ret, data |-> data, fds |-> fds]
Failed(fds)            == Result(Fail, <<>>, fds)

(* What read() and write() check before they look at the operation table.    *)
Usable(fds, fd, n) == fd \in Fds /\ n >= 0 /\ fds[fd].flag

-----------------------------------------------------------------------------
FileRead(disk, fds, fd, n) ==
  LET data == ReadData(disk, fds[fd].inode, fds[fd].pos, n)
  IN  Result(Len(data), data, [fds EXCEPT ![fd].pos = @ + Len(data)])

(* dir_read() copies a name of full length, says that it read as much as it   *)
(* was asked for, and says 0 past the last entry that a boot block can hold.*)
DirRead(disk, fds, fd, n) ==
  LET index == fds[fd].pos
      name  == [i \in 1 .. FILE_NAME_SIZE |-> CharAt(EntryAt(disk, index).file_name, i)]
  IN  IF ~IsIndex(disk, index) THEN Result(0, <<>>, fds)
      ELSE Result(IF index + 1 < MaxEntries THEN n ELSE 0, name, [fds EXCEPT ![fd].pos = @ + 1])

(* read(), of anything but the keyboard, which Programs has.  rtc_read()      *)
(* waits for its tick and returns 0; reading stdout fails.                 *)
Read(disk, fds, fd, n) ==
  CASE ~Usable(fds, fd, n)         -> Failed(fds)
    [] OTHER ->
      CASE fds[fd].ops = "file"    -> FileRead(disk, fds, fd, n)
        [] fds[fd].ops = "dir"     -> DirRead(disk, fds, fd, n)
        [] fds[fd].ops = "rtc"     -> Result(0, <<>>, fds)
        [] OTHER                   -> Failed(fds)

(* write() of text: only the terminal takes it.                             *)
Write(fds, fd, n) ==
  IF Usable(fds, fd, n) /\ fds[fd].ops = "stdout" THEN Result(n, <<>>, fds) ELSE Failed(fds)

FreeFds(fds) == {i \in Fds : ~fds[i].flag}

Opened(disk, name) ==
  LET d == DentryByName(disk, name)
  IN  CASE d.file_type = RTC_TYPE  -> [flag |-> TRUE, inode |-> -1, pos |-> 0, ops |-> "rtc"]
        [] d.file_type = DIR_TYPE  -> [flag |-> TRUE, inode |-> 0, pos |-> 0, ops |-> "dir"]
        [] d.file_type = FILE_TYPE -> [flag |-> TRUE, inode |-> d.inode_id, pos |-> 0, ops |-> "file"]

(* The check on the last descriptor does not look whether it is in use.      *)
Bug_LastNotChecked(fds) == FreeFds(fds) \subseteq {MAX_FILE_NUM - 1}
TableFull(fds)          == FreeFds(fds) = {}

Open(disk, fds, name) ==
  IF TableFull(fds) \/ ~Found(disk, name) THEN Failed(fds)
  ELSE LET fd == Least(FreeFds(fds))
       IN  Result(fd, <<>>, [fds EXCEPT ![fd] = Opened(disk, name)])

Close(fds, fd) ==
  IF fd \in Fds \ {0, 1} /\ fds[fd].flag
  THEN Result(0, <<>>, [fds EXCEPT ![fd] = Closed]) ELSE Failed(fds)

(* getargs(): strncpy() of what execute() parsed; without arguments it fails. *)
Getargs(fds, argument, n) ==
  IF n = 0 \/ argument = <<>> THEN Failed(fds)
  ELSE Result(0, SubSeq(argument, 1, Lesser(n, Len(argument))), fds)

(* vidmap() only looks at where its argument points (Screen has the rest).    *)
Vidmap(fds, where) == IF where = "program" THEN Result(0, <<>>, fds) ELSE Failed(fds)

-----------------------------------------------------------------------------
(* syscall_linkage: the number in eax selects the entry of syscall_table,     *)
(* numbers outside of it return -1.  A call is a record of its arguments.  *)
SYS_READ == 3
SYS_WRITE == 4
SYS_OPEN == 5
SYS_CLOSE == 6
SYS_VIDMAP == 8
SYS_SET_HANDLER == 9
SYS_SIGRETURN == 10

SystemCall(disk, fds, c) ==
  CASE c.eax \notin 1 .. 10 -> Failed(fds)
    [] c.eax = SYS_READ     -> Read(disk, fds, c.ebx, c.edx)
    [] c.eax = SYS_WRITE    -> Write(fds, c.ebx, c.edx)
    [] c.eax = SYS_OPEN     -> Open(disk, fds, c.ebx)
    [] c.eax = SYS_CLOSE    -> Close(fds, c.ebx)
    [] c.eax = SYS_VIDMAP   -> Vidmap(fds, c.ebx)
    [] c.eax \in {SYS_SET_HANDLER, SYS_SIGRETURN} -> Result(0, <<>>, fds)
=============================================================================
