--------------------------- MODULE DescriptorsProofs ---------------------------
(***************************************************************************)
(* The safety of the descriptor tables under RTC interrupts, for every     *)
(* number of processes, descriptors, files and frequencies (module         *)
(* Descriptors, its full specification).                                   *)
(***************************************************************************)
EXTENDS Descriptors, TLAPS

Entry == [flag : BOOLEAN, inode : Int, pos : Int, ops : {"fail", "terminal", "rtc", "dir", "file"}]

(* The shape of the variables, without the bounds that TypeOK has.           *)
Shape ==
  /\ fds \in [Procs -> [Fds -> Entry]]
  /\ active \in [Procs -> BOOLEAN]
  /\ due \in [Procs -> [Fds -> BOOLEAN]]
  /\ DOMAIN at = Procs
  /\ \A p \in Procs : at[p].pc \in {"wait", "zero"} => at[p].fd \in Fds

(* What rtc_intr_handler() looks for says what open() stored.               *)
FoundByInode == \A p \in Procs, i \in Fds : IsRtc(p, i) => fds[p][i].ops = "rtc"

DInv == Shape /\ FoundByInode /\ NoStaleTick

-----------------------------------------------------------------------------
(* A descriptor keeps its type when its flag is set.                        *)
LEMMA SetFlag == \A e \in Entry, b \in BOOLEAN : [e EXCEPT !.flag = b] \in Entry
  BY DEF Entry

(* Or when its position moves.                                              *)
LEMMA Moved == \A e \in Entry : [e EXCEPT !.pos = @ + 1] \in Entry
  BY DEF Entry

(* A descriptor in any state of its life has the type, and is found by its   *)
(* inode only if it is of the RTC.                                         *)
LEMMA EntryTypes ==
  /\ FreshTable \in [Fds -> Entry] /\ Closed \in Entry /\ Terminal \in Entry
  /\ ~Closed.flag /\ Closed.pos = 0 /\ Closed.inode = 0
  /\ \A i \in Fds : FreshTable[i].pos = 0 /\ FreshTable[i].inode = 0
  <1>1. Closed \in Entry /\ ~Closed.flag /\ Closed.pos = 0 /\ Closed.inode = 0
    <2>1. Closed \in Entry
      BY DEF Closed, Entry
    <2>2. ~Closed.flag /\ Closed.pos = 0 /\ Closed.inode = 0
      BY DEF Closed
    <2> QED BY <2>1, <2>2
  <1>2. Terminal \in Entry /\ Terminal.pos = 0 /\ Terminal.inode = 0
    <2>1. Terminal.flag = TRUE /\ Terminal.pos = 0 /\ Terminal.inode = 0 /\ Terminal.ops = "terminal"
      BY DEF Closed, Terminal
    <2>2. [Closed EXCEPT !.flag = TRUE] \in Entry
      BY <1>1, SetFlag
    <2>3. Terminal = [[Closed EXCEPT !.flag = TRUE] EXCEPT !.ops = "terminal"]
      BY DEF Terminal
    <2>4. Terminal \in Entry
      BY <2>2, <2>3 DEF Entry
    <2> QED BY <2>1, <2>4
  <1>3. \A i \in Fds : FreshTable[i] = Terminal \/ FreshTable[i] = Closed
    BY DEF FreshTable
  <1>4. FreshTable \in [Fds -> Entry]
    BY <1>1, <1>2 DEF FreshTable
  <1> QED BY <1>1, <1>2, <1>3, <1>4

(* So has a new one.                                                        *)
LEMMA DescriptorTypes ==
  ASSUME NEW name \in Inodes \cup {RtcInode, DirInode}
  PROVE  /\ Descriptor(name) \in Entry /\ Descriptor(name).pos = 0
         /\ Descriptor(name).inode = RtcInode => Descriptor(name).ops = "rtc"
  <1> USE DescriptorAssumption DEF RtcInode, DirInode, Descriptor, Entry
  <1>1. CASE name = RtcInode  BY <1>1
  <1>2. CASE name = DirInode  BY <1>2
  <1>3. CASE name \in Inodes
    <2>1. name \in Nat \ {0}
      BY <1>3
    <2> QED BY <1>3, <2>1
  <1> QED BY <1>1, <1>2, <1>3

(* At boot nothing but the terminal is open.                                *)
LEMMA InitDInv == Init => DInv
  <1> SUFFICES ASSUME Init PROVE DInv
    OBVIOUS
  <1>1. Shape
    BY EntryTypes DEF Init, Shape, InUser
  <1>2. FoundByInode
    BY EntryTypes DEF Init, FoundByInode, IsRtc, RtcInode
  <1>3. NoStaleTick
    BY EntryTypes DEF Init, NoStaleTick
  <1> QED BY <1>1, <1>2, <1>3 DEF DInv

(* A step that leaves descriptors, PCBs and `due' alone needs only `at'.      *)
LEMMA OnlyAt ==
  ASSUME DInv, UNCHANGED <<active, fds, due>>,
         DOMAIN at' = Procs,
         \A p \in Procs : at'[p].pc \in {"wait", "zero"} => at'[p].fd \in Fds
  PROVE  DInv'
  BY DEF DInv, Shape, FoundByInode, NoStaleTick, IsRtc

(* A step of process p that gives its descriptor i another entry.            *)
LEMMA OneEntry ==
  ASSUME DInv, NEW p \in Procs, NEW i \in Fds, NEW e \in Entry,
         fds' = [fds EXCEPT ![p][i] = e],
         UNCHANGED active,
         due' = due \/ due' = [due EXCEPT ![p][i] = FALSE],
         DOMAIN at' = Procs,
         \A q \in Procs : at'[q].pc \in {"wait", "zero"} => at'[q].fd \in Fds,
         e.flag /\ e.inode = RtcInode => e.ops = "rtc",
         e.flag /\ e.ops = "rtc" => e.pos = 0
  PROVE  DInv'
  <1>1. /\ fds' \in [Procs -> [Fds -> Entry]] /\ due' \in [Procs -> [Fds -> BOOLEAN]]
        /\ fds'[p][i] = e
        /\ \A q \in Procs, j \in Fds : q # p \/ j # i =>
             fds'[q][j] = fds[q][j] /\ due'[q][j] = due[q][j]
    <2>1. /\ fds' \in [Procs -> [Fds -> Entry]] /\ fds'[p][i] = e
          /\ \A q \in Procs, j \in Fds : q # p \/ j # i => fds'[q][j] = fds[q][j]
      BY DEF DInv, Shape
    <2>2. CASE due' = due
      BY <2>1, <2>2 DEF DInv, Shape
    <2>3. CASE due' = [due EXCEPT ![p][i] = FALSE]
      <3>1. due' \in [Procs -> [Fds -> BOOLEAN]]
        BY <2>3 DEF DInv, Shape
      <3>2. \A q \in Procs, j \in Fds : q # p \/ j # i => due'[q][j] = due[q][j]
        BY <2>3 DEF DInv, Shape
      <3> QED BY <2>1, <3>1, <3>2
    <2> QED BY <2>1, <2>2, <2>3
  <1>2. Shape'
    BY <1>1 DEF DInv, Shape
  <1>3. FoundByInode'
    BY <1>1 DEF DInv, FoundByInode, IsRtc
  <1>4. NoStaleTick'
    BY <1>1 DEF DInv, NoStaleTick
  <1> QED BY <1>2, <1>3, <1>4 DEF DInv

(* The interrupt: a position that moves is of an RTC descriptor.             *)
LEMMA TickStep == ASSUME DInv, RtcInterrupt PROVE DInv'
  <1> USE DEF RtcInterrupt, CountTick
  <1>1. ASSUME NEW p \in Procs, NEW i \in Fds
        PROVE  /\ fds'[p][i] \in Entry
               /\ fds'[p][i].flag = fds[p][i].flag /\ fds'[p][i].inode = fds[p][i].inode
               /\ fds'[p][i].ops = fds[p][i].ops
               /\ fds'[p][i] # fds[p][i] => active[p] /\ IsRtc(p, i)
    <2>1. fds[p][i] \in Entry
      BY DEF DInv, Shape
    <2>2. fds'[p][i] = IF active[p] /\ FirstRtc(p, i) /\ fds[p][i].pos < TickCap
                       THEN [fds[p][i] EXCEPT !.pos = @ + 1] ELSE fds[p][i]
      OBVIOUS
    <2>3. CASE active[p] /\ FirstRtc(p, i) /\ fds[p][i].pos < TickCap
      <3>1. fds'[p][i] = [fds[p][i] EXCEPT !.pos = @ + 1] /\ active[p] /\ IsRtc(p, i)
        BY <2>2, <2>3 DEF FirstRtc
      <3>2. fds'[p][i] \in Entry
        BY <2>1, <3>1, Moved
      <3>3. /\ fds'[p][i].flag = fds[p][i].flag /\ fds'[p][i].inode = fds[p][i].inode
            /\ fds'[p][i].ops = fds[p][i].ops
        BY <2>1, <3>1 DEF Entry
      <3> QED BY <3>1, <3>2, <3>3
    <2>4. CASE ~(active[p] /\ FirstRtc(p, i) /\ fds[p][i].pos < TickCap)
      BY <2>1, <2>2, <2>4
    <2> QED BY <2>3, <2>4
  <1>2. Shape'
    BY <1>1 DEF DInv, Shape
  <1>3. FoundByInode'
    BY <1>1 DEF DInv, FoundByInode, IsRtc
  <1>4. NoStaleTick'
    <2> SUFFICES ASSUME NEW p \in Procs, NEW i \in Fds, active'[p], fds'[p][i].flag,
                        fds'[p][i].ops = "rtc", fds'[p][i].pos # 0
                 PROVE  due'[p][i]
      BY DEF NoStaleTick
    <2>1. due'[p][i] = (due[p][i] \/ (active[p] /\ IsRtc(p, i)))
      OBVIOUS
    <2>2. CASE fds'[p][i] # fds[p][i]
      BY <2>1, <2>2, <1>1
    <2>3. CASE fds'[p][i] = fds[p][i]
      BY <2>1, <2>3 DEF DInv, NoStaleTick
    <2> QED BY <2>2, <2>3
  <1> QED BY <1>2, <1>3, <1>4 DEF DInv

(* The calls on descriptors.                                                *)
LEMMA CallStep == ASSUME DInv, NEW p \in Procs, Call(p) PROVE DInv'
  <1>1. ASSUME NEW name \in Inodes \cup {RtcInode, DirInode}, Open(p, name) PROVE DInv'
    <2>1. PICK i \in Fds : /\ fds' = [fds EXCEPT ![p][i] = Descriptor(name)]
                           /\ due' = [due EXCEPT ![p][i] = FALSE]
      BY <1>1 DEF Open
    <2>2. /\ DOMAIN at' = Procs /\ UNCHANGED active
          /\ \A q \in Procs : at'[q].pc \in {"wait", "zero"} => at'[q].fd \in Fds
      BY <1>1 DEF Open, DInv, Shape
    <2> QED BY <2>1, <2>2, DescriptorTypes, OneEntry
  <1>2. ASSUME NEW i \in Fds, RtcRead(p, i) PROVE DInv'
    BY <1>2, OnlyAt DEF RtcRead, DInv, Shape
  <1>3. ASSUME NEW i \in Fds, DirRead(p, i) PROVE DInv'
    <2> DEFINE e == [fds[p][i] EXCEPT !.pos = @ + 1]
    <2>1. fds[p][i] \in Entry /\ fds[p][i].ops = "dir"
      BY <1>3 DEF DirRead, DInv, Shape
    <2>2. e \in Entry /\ e.ops = "dir" /\ e.flag = fds[p][i].flag /\ e.inode = fds[p][i].inode
      BY <2>1 DEF Entry
    <2>3. fds' = [fds EXCEPT ![p][i] = e] /\ UNCHANGED <<active, due, at>>
      BY <1>3 DEF DirRead
    <2>4. e.flag /\ e.inode = RtcInode => e.ops = "rtc"
      BY <2>1, <2>2 DEF DInv, FoundByInode, IsRtc
    <2> HIDE DEF e
    <2> QED BY <2>2, <2>3, <2>4, OneEntry DEF DInv, Shape
  <1>4. ASSUME NEW i \in Fds, Close(p, i) PROVE DInv'
    BY <1>4, EntryTypes, OneEntry DEF Close, DInv, Shape
  <1>5. ASSUME NEW i \in Fds, NEW f \in Frequencies, RtcWrite(p, i, f) PROVE DInv'
    BY <1>5, OnlyAt DEF RtcWrite, DInv, Shape
  <1>6. ASSUME NEW i \in Fds, NEW n \in 1 .. Length + 1, FileRead(p, i, n) PROVE DInv'
    <2> DEFINE e == [fds[p][i] EXCEPT !.pos = IF @ + n > Length THEN Length ELSE @ + n]
    <2>1. fds[p][i] \in Entry /\ fds[p][i].ops = "file"
      BY <1>6 DEF FileRead, DInv, Shape
    <2>2. e \in Entry /\ e.ops = "file" /\ e.flag = fds[p][i].flag /\ e.inode = fds[p][i].inode
      BY <2>1, DescriptorAssumption DEF Entry
    <2>3. fds' = [fds EXCEPT ![p][i] = e] /\ UNCHANGED <<active, due, at>>
      BY <1>6 DEF FileRead
    <2>4. e.flag /\ e.inode = RtcInode => e.ops = "rtc"
      BY <2>1, <2>2 DEF DInv, FoundByInode, IsRtc
    <2> HIDE DEF e
    <2> QED BY <2>2, <2>3, <2>4, OneEntry DEF DInv, Shape
  <1>7. CASE Halt(p)
    <2>1. /\ active' = [active EXCEPT ![p] = FALSE]
          /\ UNCHANGED <<at, due>>
          /\ fds' \in [Procs -> [Fds -> Entry]]
      <3>1. CASE p \in Base
        BY <1>7, <3>1 DEF Halt, DInv, Shape
      <3>2. CASE p \notin Base
        <4>1. \A i \in Fds : [fds[p][i] EXCEPT !.flag = FALSE] \in Entry
          BY SetFlag DEF DInv, Shape
        <4> QED BY <1>7, <3>2, <4>1, EntryTypes DEF Halt, DInv, Shape
      <3> QED BY <1>7, <3>1, <3>2 DEF Halt
    <2>2. \A q \in Procs : q # p => fds'[q] = fds[q]
      BY <1>7 DEF Halt, DInv, Shape
    <2>3. \A i \in Fds : fds'[p][i].flag => fds'[p][i] = fds[p][i]
      <3>1. CASE p \in Base
        BY <1>7, <3>1 DEF Halt
      <3>2. CASE p \notin Base
        <4>1. \A i \in Fds : ~[fds[p][i] EXCEPT !.flag = FALSE].flag
          BY DEF DInv, Shape, Entry
        <4>2. \A i \in Fds : fds'[p][i] = IF i < 2 THEN [fds[p][i] EXCEPT !.flag = FALSE]
                                        ELSE IF fds[p][i].flag THEN Closed ELSE fds[p][i]
          BY <1>7, <3>2 DEF Halt, DInv, Shape
        <4> QED BY <4>1, <4>2, EntryTypes
      <3> QED BY <3>1, <3>2
    <2>4. Shape'
      BY <2>1 DEF DInv, Shape
    <2>5. FoundByInode'
      BY <2>2, <2>3 DEF DInv, FoundByInode, IsRtc
    <2>6. NoStaleTick'
      BY <2>1, <2>2 DEF DInv, NoStaleTick, Shape
    <2> QED BY <2>4, <2>5, <2>6 DEF DInv
  <1>8. CASE Launch(p)
    <2>1. /\ fds' = [fds EXCEPT ![p] = FreshTable]
          /\ active' = [active EXCEPT ![p] = TRUE]
          /\ due' = [due EXCEPT ![p] = [i \in Fds |-> FALSE]]
          /\ UNCHANGED at
      BY <1>8 DEF Launch
    <2>2. Shape'
      BY <2>1, EntryTypes DEF DInv, Shape
    <2>3. FoundByInode'
      BY <2>1, EntryTypes DEF DInv, Shape, FoundByInode, IsRtc, RtcInode
    <2>4. NoStaleTick'
      BY <2>1, EntryTypes DEF DInv, Shape, NoStaleTick
    <2> QED BY <2>2, <2>3, <2>4 DEF DInv
  <1> QED BY <1>1, <1>2, <1>3, <1>4, <1>5, <1>6, <1>7, <1>8 DEF Call

(* The steps of a call that has begun.                                      *)
LEMMA DriverStep == ASSUME DInv, NEW p \in Procs, Driver(p) PROVE DInv'
  <1>1. CASE SelectA(p)
    BY <1>1, OnlyAt DEF SelectA, DInv, Shape
  <1>2. CASE SetRate(p)
    BY <1>2, OnlyAt DEF SetRate, DInv, Shape, InUser
  <1>3. CASE SeeTick(p)
    BY <1>3, OnlyAt DEF SeeTick, DInv, Shape
  <1>4. CASE ReturnTick(p)
    <2> DEFINE i == at[p].fd
               e == [fds[p][i] EXCEPT !.pos = 0]
    <2>1. i \in Fds
      BY <1>4 DEF ReturnTick, DInv, Shape
    <2>2. fds[p][i] \in Entry
      BY <2>1 DEF DInv, Shape
    <2>3. /\ e \in Entry /\ e.flag = fds[p][i].flag /\ e.inode = fds[p][i].inode
          /\ e.ops = fds[p][i].ops /\ e.pos = 0
      BY <2>2 DEF Entry
    <2>4. /\ fds' = [fds EXCEPT ![p][i] = e] /\ UNCHANGED active
          /\ due' = [due EXCEPT ![p][i] = FALSE] /\ at' = [at EXCEPT ![p] = InUser]
      BY <1>4 DEF ReturnTick
    <2>5. e.flag /\ e.inode = RtcInode => e.ops = "rtc"
      BY <2>1, <2>3 DEF DInv, FoundByInode, IsRtc
    <2>6. /\ DOMAIN at' = Procs
          /\ \A q \in Procs : at'[q].pc \in {"wait", "zero"} => at'[q].fd \in Fds
      BY <2>4 DEF DInv, Shape, InUser
    <2> HIDE DEF e, i
    <2> QED BY <2>1, <2>3, <2>4, <2>5, <2>6, OneEntry
  <1> QED BY <1>1, <1>2, <1>3, <1>4 DEF Driver

LEMMA NextDInv == DInv /\ [Next]_vars => DInv'
  <1> SUFFICES ASSUME DInv, [Next]_vars PROVE DInv'
    OBVIOUS
  <1>1. CASE UNCHANGED vars
    BY <1>1 DEF vars, DInv, Shape, FoundByInode, NoStaleTick, IsRtc
  <1> QED BY <1>1, TickStep, CallStep, DriverStep DEF Next

-----------------------------------------------------------------------------
(* rtc_read() never returns for a tick of an earlier owner or before the     *)
(* descriptor was opened (rtc.c:112), whoever opens, closes and halts.     *)
THEOREM NoStaleTickCorrect == Spec => []NoStaleTick
  <1>1. DInv => NoStaleTick
    BY DEF DInv
  <1> QED BY <1>1, InitDInv, NextDInv, PTL DEF Spec

(* rtc_intr_handler() moves the position of RTC descriptors of live PCBs only *)
(* (rtc.c:24-37), because open() gives no file the inode -1.               *)
THEOREM MovesOnlyRtcCorrect == Spec => MovesOnlyRtc
  <1>1. ASSUME DInv, [Next]_vars
        PROVE  [RtcInterrupt => \A p \in Procs, i \in Fds :
                  fds'[p][i] # fds[p][i] => active[p] /\ fds[p][i].flag /\ fds[p][i].ops = "rtc"]_vars
    BY <1>1 DEF RtcInterrupt, CountTick, FirstRtc, IsRtc, DInv, FoundByInode
  <1> QED BY <1>1, InitDInv, NextDInv, PTL DEF Spec, MovesOnlyRtc

-----------------------------------------------------------------------------
(* A descriptor stays within what it stands for.                            *)
Limit(e) == CASE e.ops = "file" -> Length
              [] e.ops = "dir"  -> NumEntries
              [] e.ops = "rtc"  -> TickCap
              [] OTHER -> 0

Within == \A p \in Procs, i \in Fds : fds[p][i].pos \in 0 .. Limit(fds[p][i])

AtTypes == \A p \in Procs : \/ at[p] = InUser
                            \/ at[p] \in [pc : {"select", "rate"}, rate : Rates]
                            \/ at[p] \in [pc : {"wait", "zero"}, fd : Fds]

RegisterTypes == index \in {"A", "B", "C"} /\ rate \in Rates

TInv == DInv /\ Within /\ AtTypes /\ RegisterTypes

(* The loop of rtc_write() (rtc.c:141-145) finds a rate for every frequency    *)
(* that passes its tests, and it is one of 6 to 15.                        *)
LEMMA RateType == ASSUME NEW f, Valid(f) PROVE RateOf(f) \in Rates
  <1> DEFINE Fits(i) == f * 2^i = 32768
             found == CHOOSE i \in 0 .. 14 : Fits(i)
  <1>1. \E i \in 0 .. 14 : Fits(i)
    <2>1. CASE f = 2  BY <2>1, 14 \in 0 .. 14, 2 * 2^14 = 32768
    <2>2. CASE f = 4  BY <2>2, 13 \in 0 .. 14, 4 * 2^13 = 32768
    <2>3. CASE f = 8  BY <2>3, 12 \in 0 .. 14, 8 * 2^12 = 32768
    <2>4. CASE f = 16  BY <2>4, 11 \in 0 .. 14, 16 * 2^11 = 32768
    <2>5. CASE f = 32  BY <2>5, 10 \in 0 .. 14, 32 * 2^10 = 32768
    <2>6. CASE f = 64  BY <2>6, 9 \in 0 .. 14, 64 * 2^9 = 32768
    <2>7. CASE f = 128  BY <2>7, 8 \in 0 .. 14, 128 * 2^8 = 32768
    <2>8. CASE f = 256  BY <2>8, 7 \in 0 .. 14, 256 * 2^7 = 32768
    <2>9. CASE f = 512  BY <2>9, 6 \in 0 .. 14, 512 * 2^6 = 32768
    <2>10. CASE f = 1024  BY <2>10, 5 \in 0 .. 14, 1024 * 2^5 = 32768
    <2> QED BY <2>1, <2>2, <2>3, <2>4, <2>5, <2>6, <2>7, <2>8, <2>9, <2>10 DEF Valid
  <1>2. ASSUME NEW i \in 0 .. 14, Fits(i) PROVE i \in 5 .. 14
    <2>1. 2^0 = 1 /\ 2^1 = 2 /\ 2^2 = 4 /\ 2^3 = 8 /\ 2^4 = 16
      BY SMT
    <2>2. f \in 0 .. 1024
      BY DEF Valid
    <2>3. ASSUME i \in 0 .. 4 PROVE FALSE
      <3>1. i \in {0, 1, 2, 3, 4}
        BY <2>3
      <3>2. 2^i \in {1, 2, 4, 8, 16}
        BY <2>1, <3>1, Zenon
      <3>3. ASSUME NEW m \in {1, 2, 4, 8, 16} PROVE f * m # 32768
        BY <2>2, <3>3
      <3> QED BY <1>2, <3>2, <3>3
    <2> QED BY <2>3
  <1>3. RateOf(f) = found + 1
    BY DEF RateOf
  <1> HIDE DEF Fits
  <1>4. found \in 5 .. 14
    BY <1>1, <1>2
  <1> HIDE DEF found
  <1> QED BY <1>3, <1>4 DEF Rates

LEMMA LimitType == ASSUME NEW e PROVE Limit(e) \in Nat
  BY DescriptorAssumption DEF Limit

(* A descriptor that is not read stays within its file.                     *)
LEMMA OneWithin ==
  ASSUME DInv, Within, NEW p \in Procs, NEW i \in Fds, NEW e,
         fds' = [fds EXCEPT ![p][i] = e], e.pos \in 0 .. Limit(e)
  PROVE  Within'
  BY DEF DInv, Shape, Within

LEMMA TickWithin == ASSUME DInv, Within, RtcInterrupt PROVE Within'
  <1> SUFFICES ASSUME NEW p \in Procs, NEW i \in Fds
               PROVE  fds'[p][i].pos \in 0 .. Limit(fds'[p][i])
    BY DEF Within, Limit
  <1>1. fds[p][i] \in Entry /\ fds[p][i].pos \in 0 .. Limit(fds[p][i])
    BY DEF DInv, Shape, Within
  <1>2. CASE active[p] /\ FirstRtc(p, i) /\ fds[p][i].pos < TickCap
    <2>1. fds'[p][i] = [fds[p][i] EXCEPT !.pos = @ + 1] /\ fds[p][i].ops = "rtc"
      BY <1>2 DEF RtcInterrupt, CountTick, FirstRtc, DInv, FoundByInode
    <2>2. fds'[p][i].ops = "rtc" /\ fds'[p][i].pos = fds[p][i].pos + 1
      BY <1>1, <2>1 DEF Entry
    <2>3. Limit(fds'[p][i]) = TickCap /\ Limit(fds[p][i]) = TickCap
      BY <2>1, <2>2 DEF Limit
    <2> QED BY <1>1, <1>2, <2>2, <2>3, DescriptorAssumption DEF Entry
  <1>3. CASE ~(active[p] /\ FirstRtc(p, i) /\ fds[p][i].pos < TickCap)
    <2>1. fds'[p][i] = fds[p][i]
      BY <1>3 DEF RtcInterrupt, CountTick
    <2> QED BY <1>1, <2>1
  <1> QED BY <1>2, <1>3

LEMMA CallWithin == ASSUME DInv, Within, NEW p \in Procs, Call(p) \/ Driver(p) PROVE Within'
  <1>0. ASSUME UNCHANGED fds PROVE Within'
    BY <1>0 DEF Within, Limit
  <1>1. ASSUME NEW name \in Inodes \cup {RtcInode, DirInode}, Open(p, name) PROVE Within'
    <2>1. PICK i \in Fds : fds' = [fds EXCEPT ![p][i] = Descriptor(name)]
      BY <1>1 DEF Open
    <2>2. Descriptor(name).pos \in 0 .. Limit(Descriptor(name))
      BY DescriptorTypes, LimitType
    <2> QED BY <2>1, <2>2, OneWithin
  <1>2. ASSUME NEW i \in Fds, DirRead(p, i) PROVE Within'
    <2> DEFINE e == [fds[p][i] EXCEPT !.pos = @ + 1]
    <2>1. /\ fds[p][i] \in Entry /\ fds[p][i].ops = "dir" /\ fds[p][i].pos < NumEntries
          /\ fds[p][i].pos \in 0 .. Limit(fds[p][i])
      BY <1>2 DEF DirRead, DInv, Shape, Within
    <2>2. e.ops = "dir" /\ e.pos = fds[p][i].pos + 1
      BY <2>1 DEF Entry
    <2>3. fds' = [fds EXCEPT ![p][i] = e]
      BY <1>2 DEF DirRead
    <2> HIDE DEF e
    <2>4. e.pos \in 0 .. Limit(e)
      BY <2>1, <2>2, DescriptorAssumption DEF Limit
    <2> QED BY <2>3, <2>4, OneWithin
  <1>3. ASSUME NEW i \in Fds, NEW n \in 1 .. Length + 1, FileRead(p, i, n) PROVE Within'
    <2> DEFINE e == [fds[p][i] EXCEPT !.pos = IF @ + n > Length THEN Length ELSE @ + n]
    <2>1. /\ fds[p][i] \in Entry /\ fds[p][i].ops = "file"
          /\ fds[p][i].pos \in 0 .. Limit(fds[p][i])
      BY <1>3 DEF FileRead, DInv, Shape, Within
    <2>2. /\ e.ops = "file"
          /\ e.pos = IF fds[p][i].pos + n > Length THEN Length ELSE fds[p][i].pos + n
      BY <2>1 DEF Entry
    <2>3. fds' = [fds EXCEPT ![p][i] = e]
      BY <1>3 DEF FileRead
    <2> HIDE DEF e
    <2>4. e.pos \in 0 .. Limit(e)
      BY <2>1, <2>2, DescriptorAssumption DEF Limit
    <2> QED BY <2>3, <2>4, OneWithin
  <1>4. ASSUME NEW i \in Fds, Close(p, i) PROVE Within'
    <2>1. Closed.pos \in 0 .. Limit(Closed)
      BY EntryTypes, LimitType
    <2>2. fds' = [fds EXCEPT ![p][i] = Closed]
      BY <1>4 DEF Close
    <2> QED BY <2>1, <2>2, OneWithin
  <1>5. CASE ReturnTick(p)
    <2>1. PICK i \in Fds : i = at[p].fd
      BY <1>5 DEF ReturnTick, DInv, Shape
    <2> DEFINE e == [fds[p][i] EXCEPT !.pos = 0]
    <2>2. fds[p][i] \in Entry
      BY DEF DInv, Shape
    <2>3. e.pos = 0
      BY <2>2 DEF Entry
    <2>4. fds' = [fds EXCEPT ![p][i] = e]
      BY <1>5, <2>1 DEF ReturnTick
    <2> HIDE DEF e
    <2>5. e.pos \in 0 .. Limit(e)
      BY <2>3, LimitType
    <2> QED BY <2>4, <2>5, OneWithin
  <1>6. CASE Halt(p)
    <2>1. \A q \in Procs : q # p => fds'[q] = fds[q]
      BY <1>6 DEF Halt, DInv, Shape
    <2>2. \A i \in Fds : /\ fds'[p][i].pos = fds[p][i].pos /\ fds'[p][i].ops = fds[p][i].ops
                        \/ fds'[p][i] = Closed
      <3>1. CASE p \in Base
        BY <1>6, <3>1 DEF Halt
      <3>2. CASE p \notin Base
        <4>1. \A e \in Entry : /\ [e EXCEPT !.flag = FALSE].pos = e.pos
                              /\ [e EXCEPT !.flag = FALSE].ops = e.ops
          BY DEF Entry
        <4>2. \A i \in Fds : fds'[p][i] = IF i < 2 THEN [fds[p][i] EXCEPT !.flag = FALSE]
                                        ELSE IF fds[p][i].flag THEN Closed ELSE fds[p][i]
          BY <1>6, <3>2 DEF Halt, DInv, Shape
        <4>3. \A i \in Fds : fds[p][i] \in Entry
          BY DEF DInv, Shape
        <4> QED BY <4>1, <4>2, <4>3
      <3> QED BY <3>1, <3>2
    <2>3. \A i \in Fds : fds'[p][i].pos \in 0 .. Limit(fds'[p][i])
      BY <2>2, EntryTypes, LimitType DEF Within, Limit
    <2> QED BY <2>1, <2>3 DEF Within, Limit
  <1>7. CASE Launch(p)
    <2>1. \A i \in Fds : FreshTable[i].pos \in 0 .. Limit(FreshTable[i])
      BY EntryTypes, LimitType
    <2>2. \A q \in Procs : fds'[q] = IF q = p THEN FreshTable ELSE fds[q]
      BY <1>7 DEF Launch, DInv, Shape
    <2> QED BY <2>1, <2>2 DEF Within, Limit
  <1>8. CASE SelectA(p) \/ SetRate(p) \/ SeeTick(p)
               \/ \E i \in Fds : RtcRead(p, i) \/ \E f \in Frequencies : RtcWrite(p, i, f)
    BY <1>0, <1>8 DEF SelectA, SetRate, SeeTick, RtcRead, RtcWrite
  <1> QED BY <1>1, <1>2, <1>3, <1>4, <1>5, <1>6, <1>7, <1>8 DEF Call, Driver

(* The calls take their rate and their descriptor from where they began to    *)
(* where they end.                                                         *)
LEMMA AtStep == ASSUME DInv, AtTypes, NEW p \in Procs, Call(p) \/ Driver(p) PROVE AtTypes'
  <1> DEFINE Ats == {InUser} \cup [pc : {"select", "rate"}, rate : Rates]
                             \cup [pc : {"wait", "zero"}, fd : Fds]
  <1>1. DOMAIN at = Procs /\ \A q \in Procs : at[q] \in Ats
    BY DEF DInv, Shape, AtTypes
  <1>2. ASSUME NEW a \in Ats, at' = [at EXCEPT ![p] = a] PROVE AtTypes'
    BY <1>1, <1>2 DEF AtTypes
  <1>3. ASSUME at' = at PROVE AtTypes'
    BY <1>3 DEF AtTypes
  <1>4. [pc |-> "select", rate |-> TwoHertz] \in Ats
    BY DEF TwoHertz, Rates
  <1>5. ASSUME NEW name \in Inodes \cup {RtcInode, DirInode}, Open(p, name) PROVE AtTypes'
    BY <1>2, <1>3, <1>4, <1>5 DEF Open
  <1>6. ASSUME NEW i \in Fds, NEW f \in Frequencies, RtcWrite(p, i, f) PROVE AtTypes'
    BY <1>2, <1>6, RateType DEF RtcWrite
  <1>7. ASSUME NEW i \in Fds, RtcRead(p, i) PROVE AtTypes'
    BY <1>2, <1>7 DEF RtcRead
  <1>8. CASE SelectA(p)
    <2>1. at[p] \in [pc : {"select", "rate"}, rate : Rates]
      BY <1>1, <1>8 DEF SelectA, InUser
    <2>2. [at[p] EXCEPT !.pc = "rate"] \in Ats
      BY <2>1
    <2> QED BY <1>2, <1>8, <2>2 DEF SelectA
  <1>9. CASE SeeTick(p)
    <2>1. at[p] \in [pc : {"wait", "zero"}, fd : Fds]
      BY <1>1, <1>9 DEF SeeTick, InUser
    <2>2. [at[p] EXCEPT !.pc = "zero"] \in Ats
      BY <2>1
    <2> QED BY <1>2, <1>9, <2>2 DEF SeeTick
  <1>10. CASE SetRate(p) \/ ReturnTick(p)
    BY <1>2, <1>10 DEF SetRate, ReturnTick
  <1>11. CASE Halt(p) \/ Launch(p) \/ \E i \in Fds : \/ DirRead(p, i) \/ Close(p, i)
                                                    \/ \E n \in 1 .. Length + 1 : FileRead(p, i, n)
    BY <1>3, <1>11 DEF Halt, Launch, DirRead, Close, FileRead
  <1> QED BY <1>5, <1>6, <1>7, <1>8, <1>9, <1>10, <1>11 DEF Call, Driver

LEMMA RegisterStep ==
  ASSUME AtTypes, RegisterTypes, NEW p \in Procs, Call(p) \/ Driver(p)
  PROVE  RegisterTypes'
  <1>1. CASE SetRate(p)
    <2>1. at[p].rate \in Rates
      BY <1>1 DEF SetRate, AtTypes, InUser
    <2> QED BY <1>1, <2>1 DEF SetRate, RegisterTypes
  <1>2. CASE SelectA(p)
    BY <1>2 DEF SelectA, RegisterTypes
  <1>3. CASE SeeTick(p) \/ ReturnTick(p)
    BY <1>3 DEF SeeTick, ReturnTick, RegisterTypes
  <1>4. CASE Call(p)
    <2>1. UNCHANGED <<index, rate>>
      BY <1>4 DEF Call, Open, RtcRead, DirRead, Close, RtcWrite, FileRead, Halt, Launch
    <2> QED BY <2>1 DEF RegisterTypes
  <1> QED BY <1>1, <1>2, <1>3, <1>4 DEF Driver

LEMMA InitTInv == Init => TInv
  <1> SUFFICES ASSUME Init PROVE TInv
    OBVIOUS
  <1>1. Within
    BY EntryTypes, LimitType DEF Init, Within
  <1>2. AtTypes /\ RegisterTypes
    BY DEF Init, AtTypes, RegisterTypes, TwoHertz, Rates
  <1> QED BY <1>1, <1>2, InitDInv DEF TInv

LEMMA NextTInv == TInv /\ [Next]_vars => TInv'
  <1> SUFFICES ASSUME TInv, [Next]_vars PROVE TInv'
    OBVIOUS
  <1> USE DEF TInv
  <1>1. DInv'
    BY NextDInv
  <1>2. CASE RtcInterrupt
    <2>1. AtTypes' /\ RegisterTypes'
      BY <1>2 DEF RtcInterrupt, AtTypes, RegisterTypes
    <2> QED BY <1>1, <1>2, <2>1, TickWithin
  <1>3. ASSUME NEW p \in Procs, Call(p) \/ Driver(p) PROVE TInv'
    BY <1>1, <1>3, CallWithin, AtStep, RegisterStep
  <1>4. CASE UNCHANGED vars
    BY <1>1, <1>4 DEF vars, Within, Limit, AtTypes, RegisterTypes
  <1> QED BY <1>2, <1>3, <1>4 DEF Next

(* No read leaves a descriptor behind the end of its file or directory       *)
(* (filesystem.c, rtc.c), and every rate that is written to the RTC is one *)
(* of 6 to 15 (rtc.c:129-153), for every length, number of entries and set *)
(* of frequencies that programs ask for.                                   *)
THEOREM DescriptorTypesCorrect == Spec => []TypeOK
  <1>1. ASSUME TInv PROVE TypeOK
    <2>1. DInv /\ Within /\ AtTypes /\ RegisterTypes
      BY <1>1 DEF TInv
    <2>2. \A p \in Procs, i \in Fds : fds[p][i].flag \in BOOLEAN
      BY <2>1 DEF DInv, Shape, Entry
    <2> QED BY <2>1, <2>2 DEF TypeOK, DInv, Shape, Within, Limit, AtTypes, RegisterTypes
  <1> QED BY <1>1, InitTInv, NextTInv, PTL DEF Spec
=============================================================================
