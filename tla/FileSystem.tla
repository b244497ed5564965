------------------------------ MODULE FileSystem ------------------------------
(***************************************************************************)
(* The read-only file system (filesystem.c), as functions of a disk image, *)
(* and the string comparison of lib.c that its lookups use.                *)
(*                                                                         *)
(* A disk is a function from block numbers to blocks, in the layout that   *)
(* file_system_init() computes its three pointers from: the boot block,    *)
(* the inodes, the data blocks.  A string is a sequence of characters      *)
(* without its final NUL; a data block is a function from 0.. to bytes.    *)
(***************************************************************************)
EXTENDS Integers, Sequences, FiniteSets

CONSTANTS
  BLOCK_SIZE,      \* bytes of a block, 4096 in the code
  FILE_NAME_SIZE,  \* characters of a name, 32 in the code
  MaxEntries,      \* entries of a boot block, 63 in the code
  NUL              \* the character '\0'

ASSUME FileSystemAssumption ==
  /\ BLOCK_SIZE \in Nat \ {0}
  /\ FILE_NAME_SIZE \in Nat \ {0}
  /\ MaxEntries \in Nat \ {0}

Lesser(a, b) == IF a < b THEN a ELSE b
Least(S)     == CHOOSE n \in S : \A k \in S : n <= k

(* A file type, filesystem entry and what a failing call returns.          *)
RTC_TYPE  == 0
DIR_TYPE  == 1
FILE_TYPE == 2
Fail      == -1

-----------------------------------------------------------------------------
CharAt(s, i) == IF i <= Len(s) THEN s[i] ELSE NUL

(* strncmp(s, t, n) = 0: no difference in the first n characters, or up to   *)
(* the end of the strings if that comes first.                             *)
SameUpTo(s, t, n) ==
  \A i \in 1 .. n : i <= Len(s) + 1 /\ i <= Len(t) + 1 => CharAt(s, i) = CharAt(t, i)

(* file_system_init(): where the parts of a disk are.                       *)
BootBlock(disk)    == disk[0]
InodeAt(disk, i)   == disk[1 + i]
DataBlock(disk, b) == disk[BootBlock(disk).num_inodes + 1 + b]

Entries(disk) == BootBlock(disk).dir_entries
EntryAt(disk, i) == Entries(disk)[i + 1]

(* The name is compared only as far as it goes: a prefix is enough.          *)
Bug_PrefixMatches(disk, name) ==
  {i \in 0 .. Len(Entries(disk)) - 1 : SameUpTo(EntryAt(disk, i).file_name, name, Len(name))}

(* Of two entries whose names agree in all they have, the first.            *)
EntriesNamed(disk, name) ==
  {i \in 0 .. Len(Entries(disk)) - 1 : SameUpTo(EntryAt(disk, i).file_name, name, FILE_NAME_SIZE)}

Found(disk, name)           == EntriesNamed(disk, name) # {}
DentryByName(disk, name)    == EntryAt(disk, Least(EntriesNamed(disk, name)))
IsIndex(disk, index)        == index <= Len(Entries(disk)) - 1

-----------------------------------------------------------------------------
(* memcpy() of n bytes of a block, from byte o on.                          *)
Bytes(disk, b, o, n) == [i \in 1 .. n |-> DataBlock(disk, b)[o + i - 1]]

(* The loop at the end of read_data(): whole blocks, and what is left.       *)
Blocks(disk, inode) == InodeAt(disk, inode).data_blocks
WholeBlocks(disk, inode, k, n) ==
  LET Rest[r \in 0 .. n] ==
        LET b == Blocks(disk, inode)[k + (n - r) \div BLOCK_SIZE + 1]
        IN  IF r > BLOCK_SIZE THEN Bytes(disk, b, 0, BLOCK_SIZE) \o Rest[r - BLOCK_SIZE]
            ELSE Bytes(disk, b, 0, r)
  IN  Rest[n]

(* block_offset++ after the first block; forgotten, in the mutant.          *)
Bug_SameBlock(k) == k
NextBlock(k)     == k + 1

(* What read_data() copies: nothing from the end on, and up to the end.     *)
ReadData(disk, inode, offset, length) ==
  LET inFile == Lesser(length, InodeAt(disk, inode).length - offset)
      k      == offset \div BLOCK_SIZE
      o      == offset % BLOCK_SIZE
      first  == BLOCK_SIZE - o
  IN  IF offset >= InodeAt(disk, inode).length THEN <<>>
      ELSE IF inFile <= first THEN Bytes(disk, Blocks(disk, inode)[k + 1], o, inFile)
      ELSE Bytes(disk, Blocks(disk, inode)[k + 1], o, first)
             \o WholeBlocks(disk, inode, NextBlock(k), inFile - first)

-----------------------------------------------------------------------------
(* Reference, not code: the bytes of a file, one by one.                    *)
FileBytes(disk, inode) ==
  [i \in 1 .. InodeAt(disk, inode).length |->
     DataBlock(disk, Blocks(disk, inode)[(i - 1) \div BLOCK_SIZE + 1])[(i - 1) % BLOCK_SIZE]]

(* A string of the model: its characters, without the final NUL.            *)
IsString(s) == LET chars == {s[i] : i \in 1 .. Len(s)}
               IN  s \in Seq(chars) /\ NUL \notin chars

(* A disk that createfs could have written: entries with different names of   *)
(* the right length, inodes with the blocks they need, blocks that exist.  *)
WellFormed(disk) ==
  /\ BootBlock(disk).num_inodes \in Nat
  /\ Len(Entries(disk)) \in 1 .. MaxEntries
  /\ \A i, j \in 1 .. Len(Entries(disk)) :
       Entries(disk)[i].file_name = Entries(disk)[j].file_name => i = j
  /\ \A i \in 1 .. Len(Entries(disk)) :
       /\ IsString(Entries(disk)[i].file_name)
       /\ Len(Entries(disk)[i].file_name) \in 1 .. FILE_NAME_SIZE
       /\ Entries(disk)[i].file_type \in {RTC_TYPE, DIR_TYPE, FILE_TYPE}
       /\ Entries(disk)[i].inode_id \in 0 .. BootBlock(disk).num_inodes - 1
  /\ \A i \in 0 .. BootBlock(disk).num_inodes - 1 :
       /\ InodeAt(disk, i).length \in Nat
       /\ Len(Blocks(disk, i)) * BLOCK_SIZE >= InodeAt(disk, i).length
=============================================================================
