----------------------------- MODULE Descriptors -----------------------------
(***************************************************************************)
(* The file descriptor tables (syscall.c: open, read, close) and the RTC   *)
(* driver behind them (rtc.c).                                             *)
(*                                                                         *)
(* System calls run with interrupts on, so the RTC interrupt, which counts *)
(* a tick in the file_position of the RTC descriptors of every live PCB,   *)
(* comes between any two statements of any call, and so does a switch to   *)
(* the process of another terminal.  A call is one action where it touches *)
(* only its own descriptor in a way the interrupt cannot see; rtc_read and *)
(* the two port writes of rtc_open and rtc_write are cut into their steps. *)
(*                                                                         *)
(* Left to other modules: the contents of files (read_data) and the        *)
(* terminal behind descriptors 0 and 1.                                    *)
(***************************************************************************)
EXTENDS Integers, FiniteSets

CONSTANTS
  Procs,          \* the processes that share the CPU, one for each terminal
  Base,           \* those of them that are base shells
  MAX_FILE_NUM,   \* descriptors of a process, 8 in the code
  Inodes,         \* the regular files of the file system, by inode
  Length,         \* the length of a regular file, in the unit of a read
  NumEntries,     \* entries of the directory
  Frequencies,    \* what programs write to the RTC, valid or not
  TickCap         \* bound: ticks of a descriptor counted (rtc_read asks # 0)

ASSUME DescriptorAssumption ==
  /\ Base \subseteq Procs
  /\ MAX_FILE_NUM \in Nat /\ MAX_FILE_NUM > 2
  /\ Inodes \subseteq Nat \ {0}
  /\ Length \in Nat /\ NumEntries \in Nat
  /\ Frequencies \subseteq Int
  /\ TickCap \in Nat \ {0}

Fds  == 0 .. MAX_FILE_NUM - 1
(* A file name is modelled by the inode open() stores for it.               *)
RtcInode == -1
DirInode == 0

VARIABLES
  active,     \* pcb->active
  fds,        \* pcb->file_descriptor
  at,         \* what the process does: its user code, or a step of a call
  index,      \* the RTC register selected at port 0x70
  rate,       \* the rate in RTC register A
  due         \* history: has an interrupt come since the descriptor was
              \* opened, or last read?
vars == <<active, fds, at, index, rate, due>>

Closed   == [flag |-> FALSE, inode |-> 0, pos |-> 0, ops |-> "fail"]
Terminal == [Closed EXCEPT !.flag = TRUE, !.ops = "terminal"]
InUser   == [pc |-> "user"]

(* create_pcb(), execute.c:185-201.                                         *)
FreshTable == [i \in Fds |-> IF i < 2 THEN Terminal ELSE Closed]

(* rtc_write(), rtc.c:129-149: the rate code of a frequency.                *)
Valid(f)  == f \in {2, 4, 8, 16, 32, 64, 128, 256, 512, 1024}
RateOf(f) == (CHOOSE i \in 0 .. 14 : f * 2^i = 32768) + 1
TwoHertz  == 15                      \* FREQUENCY_2_RATE

Init ==
  /\ active = [p \in Procs |-> TRUE]
  /\ fds = [p \in Procs |-> FreshTable]
  /\ at  = [p \in Procs |-> InUser]
  /\ index = "A" /\ rate = TwoHertz
  /\ due = [p \in Procs |-> [i \in Fds |-> FALSE]]

Calls(p) == active[p] /\ at[p] = InUser

-----------------------------------------------------------------------------
(* open(): the lowest free descriptor.  A call that fails, because the table  *)
(* is full, the name unknown or the descriptor bad, changes nothing, and   *)
(* only the calls that do something are modelled.                          *)
LowestFree(p, i) == ~fds[p][i].flag /\ \A j \in Fds : j < i => fds[p][j].flag

Descriptor(name) ==
  CASE name = RtcInode -> [flag |-> TRUE, inode |-> RtcInode, pos |-> 0, ops |-> "rtc"]
    [] name = DirInode -> [flag |-> TRUE, inode |-> 0, pos |-> 0, ops |-> "dir"]
    [] name \in Inodes -> [flag |-> TRUE, inode |-> name, pos |-> 0, ops |-> "file"]

Open(p, name) ==
  /\ Calls(p)
  /\ \E i \in Fds :
       /\ LowestFree(p, i)
       /\ fds' = [fds EXCEPT ![p][i] = Descriptor(name)]
       /\ due' = [due EXCEPT ![p][i] = FALSE]
  /\ at' = IF name = RtcInode THEN [at EXCEPT ![p] = [pc |-> "select", rate |-> TwoHertz]]
           ELSE at
  /\ UNCHANGED <<active, index, rate>>

(* The first port write of rtc_open() and rtc_write(), and the second one.  *)
SelectA(p) ==
  /\ at[p].pc = "select"
  /\ index' = "A"
  /\ at' = [at EXCEPT ![p].pc = "rate"]
  /\ UNCHANGED <<active, fds, rate, due>>

SetRate(p) ==
  /\ at[p].pc = "rate"
  /\ rate'  = IF index = "A" THEN at[p].rate ELSE rate
  /\ at' = [at EXCEPT ![p] = InUser]
  /\ UNCHANGED <<active, fds, index, due>>

RtcWrite(p, i, f) ==
  /\ Calls(p)
  /\ fds[p][i].flag /\ fds[p][i].ops = "rtc"
  /\ Valid(f)
  /\ at' = [at EXCEPT ![p] = [pc |-> "select", rate |-> RateOf(f)]]
  /\ UNCHANGED <<active, fds, index, rate, due>>

(* rtc_read(): wait for a tick, then forget it.                             *)
RtcRead(p, i) ==
  /\ Calls(p)
  /\ fds[p][i].flag /\ fds[p][i].ops = "rtc"
  /\ at' = [at EXCEPT ![p] = [pc |-> "wait", fd |-> i]]
  /\ UNCHANGED <<active, fds, index, rate, due>>

SeeTick(p) ==
  /\ at[p].pc = "wait"
  /\ fds[p][at[p].fd].pos # 0
  /\ at' = [at EXCEPT ![p].pc = "zero"]
  /\ UNCHANGED <<active, fds, index, rate, due>>

(* Operators named Bug_... are mutants: slips that the properties below must *)
(* find.  Here the tick is not forgotten.                                  *)
Bug_TickStays(p) ==
  /\ at[p].pc = "zero"
  /\ due' = [due EXCEPT ![p][at[p].fd] = FALSE]
  /\ at'  = [at EXCEPT ![p] = InUser]
  /\ UNCHANGED <<active, fds, index, rate>>

ReturnTick(p) ==
  /\ at[p].pc = "zero"
  /\ fds' = [fds EXCEPT ![p][at[p].fd].pos = 0]
  /\ due' = [due EXCEPT ![p][at[p].fd] = FALSE]
  /\ at'  = [at EXCEPT ![p] = InUser]
  /\ UNCHANGED <<active, index, rate>>

(* The position moves by what was asked for.                                *)
Bug_PastTheEnd(p, i, n) ==
  /\ Calls(p)
  /\ fds[p][i].flag /\ fds[p][i].ops = "file"
  /\ fds' = [fds EXCEPT ![p][i].pos = @ + n]
  /\ UNCHANGED <<active, at, index, rate, due>>

(* file_read() of n units: read_data() stops at the end of the file.        *)
FileRead(p, i, n) ==
  /\ Calls(p)
  /\ fds[p][i].flag /\ fds[p][i].ops = "file"
  /\ fds' = [fds EXCEPT ![p][i].pos = IF @ + n > Length THEN Length ELSE @ + n]
  /\ UNCHANGED <<active, at, index, rate, due>>

(* dir_read(): one entry, and none past the last.                           *)
DirRead(p, i) ==
  /\ Calls(p)
  /\ fds[p][i].flag /\ fds[p][i].ops = "dir"
  /\ fds[p][i].pos < NumEntries
  /\ fds' = [fds EXCEPT ![p][i].pos = @ + 1]
  /\ UNCHANGED <<active, at, index, rate, due>>

(* close(): not of descriptors 0 and 1.                                     *)
Close(p, i) ==
  /\ Calls(p)
  /\ i >= 2
  /\ fds[p][i].flag
  /\ fds' = [fds EXCEPT ![p][i] = Closed]
  /\ UNCHANGED <<active, at, index, rate, due>>

(* halt() closes what is open; of a base shell it only frees the PCB.       *)
Halt(p) ==
  /\ Calls(p)
  /\ active' = [active EXCEPT ![p] = FALSE]
  /\ fds' = IF p \in Base THEN fds
            ELSE [fds EXCEPT ![p] = [i \in Fds |->
                    IF i < 2 THEN [@[i] EXCEPT !.flag = FALSE]
                    ELSE IF @[i].flag THEN Closed ELSE @[i]]]
  /\ UNCHANGED <<at, index, rate, due>>

(* The PCB is given to the next process of the terminal.                    *)
Launch(p) ==
  /\ ~active[p]
  /\ active' = [active EXCEPT ![p] = TRUE]
  /\ fds' = [fds EXCEPT ![p] = FreshTable]
  /\ due' = [due EXCEPT ![p] = [i \in Fds |-> FALSE]]
  /\ UNCHANGED <<at, index, rate>>

-----------------------------------------------------------------------------
(* The inode of the RTC taken for 0, as of a directory.                     *)
Bug_InodeZero(p, i) == fds[p][i].flag /\ fds[p][i].inode = 0

(* rtc_intr_handler(): a tick for the first RTC descriptor of every live    *)
(* PCB, and register C is selected and read.                               *)
IsRtc(p, i)    == fds[p][i].flag /\ fds[p][i].inode = RtcInode
FirstRtc(p, i) == IsRtc(p, i) /\ \A j \in Fds : j < i => ~IsRtc(p, j)

CountTick ==
  /\ fds' = [p \in Procs |-> [i \in Fds |->
               IF active[p] /\ FirstRtc(p, i) /\ fds[p][i].pos < TickCap
               THEN [fds[p][i] EXCEPT !.pos = @ + 1] ELSE fds[p][i]]]
  /\ due' = [p \in Procs |-> [i \in Fds |-> due[p][i] \/ (active[p] /\ IsRtc(p, i))]]

(* Register C is selected but not read: the RTC does not interrupt again.   *)
Bug_NotRead == /\ index # "C" /\ index' = "C"
               /\ CountTick
               /\ UNCHANGED <<active, at, rate>>

RtcInterrupt == /\ CountTick
                /\ index' = "C"
                /\ UNCHANGED <<active, at, rate>>

(* What a process does by itself once it is in a call.                      *)
Driver(p) == SelectA(p) \/ SetRate(p) \/ SeeTick(p) \/ ReturnTick(p)

Call(p) == \/ \E name \in Inodes \cup {RtcInode, DirInode} : Open(p, name)
           \/ \E i \in Fds : \/ RtcRead(p, i) \/ DirRead(p, i) \/ Close(p, i)
                             \/ \E f \in Frequencies : RtcWrite(p, i, f)
                             \/ \E n \in 1 .. Length + 1 : FileRead(p, i, n)
           \/ Halt(p) \/ Launch(p)

Next == RtcInterrupt \/ \E p \in Procs : Call(p) \/ Driver(p)

(* The RTC interrupts for ever: every interrupt reads register C, and the    *)
(* PIC line stays unmasked.  Every process keeps getting the CPU, which    *)
(* module Process checks (PreemptedRunsAgain).                             *)
Spec == /\ Init /\ [][Next]_vars
        /\ WF_vars(RtcInterrupt)
        /\ \A p \in Procs : WF_vars(Driver(p))

-----------------------------------------------------------------------------
Rates == 6 .. 15

(* Type invariant: a descriptor stays within its file.                      *)
TypeOK ==
  /\ active \in [Procs -> BOOLEAN]
  /\ \A p \in Procs, i \in Fds :
       /\ fds[p][i].flag \in BOOLEAN
       /\ fds[p][i].pos \in 0 .. CASE fds[p][i].ops = "file" -> Length
                                   [] fds[p][i].ops = "dir"  -> NumEntries
                                   [] fds[p][i].ops = "rtc"  -> TickCap
                                   [] OTHER -> 0
  /\ \A p \in Procs : \/ at[p] = InUser
                      \/ at[p] \in [pc : {"select", "rate"}, rate : Rates]
                      \/ at[p] \in [pc : {"wait", "zero"}, fd : Fds]
  /\ index \in {"A", "B", "C"}
  /\ rate \in Rates
  /\ due \in [Procs -> [Fds -> BOOLEAN]]

(* rtc_read() returns for a tick of its own: a count that it finds not 0 was  *)
(* made by an interrupt after the descriptor was opened and after it was   *)
(* last read, also when the descriptor or the PCB had another owner before.*)
NoStaleTick == \A p \in Procs, i \in Fds :
  active[p] /\ fds[p][i].flag /\ fds[p][i].ops = "rtc" /\ fds[p][i].pos # 0 => due[p][i]

(* The interrupt finds its descriptors by inode = -1, in PCBs it does not     *)
(* own: it never moves the position of a file, a directory or a free       *)
(* descriptor, nor anything of a PCB that is not live.                     *)
MovesOnlyRtc == [][RtcInterrupt => \A p \in Procs, i \in Fds :
  fds'[p][i] # fds[p][i] => active[p] /\ fds[p][i].flag /\ fds[p][i].ops = "rtc"]_vars

(* A read of the first RTC descriptor of a process returns.  (One of a second *)
(* descriptor does not while the first is open: rtc.c:34 stops at the      *)
(* first.)                                                                 *)
FirstRtcReturns == \A p \in Procs :
  (at[p].pc = "wait" /\ FirstRtc(p, at[p].fd)) ~> at[p].pc # "wait"

(* "effect: change the frequency of the RTC" (rtc.c:123): the second port     *)
(* write of a call changes the rate to the one the call asks for.  The code*)
(* does not keep this: an interrupt between the writes selects register C. *)
RateIsSet == [][\A p \in Procs : SetRate(p) => rate' = at[p].rate]_vars
=============================================================================
