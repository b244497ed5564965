------------------------------ MODULE MC_Programs ------------------------------
(* Disks with names of up to three characters, blocks of two bytes and       *)
(* buffers of four; commands and answers for every program.                *)
EXTENDS Programs

Block(a, b)          == [i \in 0 .. 1 |-> IF i = 0 THEN a ELSE b]
Inode(length, blocks) == [length |-> length, data_blocks |-> blocks]
File(name, inode)    == [file_name |-> name, file_type |-> FILE_TYPE, inode_id |-> inode]
Dir                  == [file_name |-> <<".">>, file_type |-> DIR_TYPE, inode_id |-> 0]
Rtc                  == [file_name |-> <<"r">>, file_type |-> RTC_TYPE, inode_id |-> 0]

(* Programs first, each in a block of magic numbers and one with its name.    *)
Named == <<"shell", "cat", "ls", "grep", "testprint", "hello", "counter", "sigtest",
           "pingpong", "syserr", "other">>
CommandWords == <<<<"s", "h">>, <<"c">>, <<"l">>, <<"g">>, <<"t">>, <<"h">>, <<"n">>, <<"b">>,
              <<"p">>, <<"e">>, <<"x">>>>
P == Len(Named)

Disk(entries, inodes, blocks) ==
  LET all  == [i \in 1 .. P |-> File(CommandWords[i], Len(inodes) + i - 1)] \o <<Dir, Rtc>> \o entries
      code == [i \in 1 .. P |-> Inode(3, <<0, i>>)]
      shift(inode) == [inode EXCEPT !.data_blocks = [k \in 1 .. Len(@) |-> @[k] + P + 1]]
      data == <<Block("m", "z")>> \o [i \in 1 .. P |-> Block(Named[i], "?")] \o blocks
      n    == Len(inodes) + P
  IN  [b \in 0 .. n + Len(data) |->
         IF b = 0 THEN [dir_entries |-> all, num_inodes |-> n]
         ELSE IF b <= n THEN ([i \in 1 .. Len(inodes) |-> shift(inodes[i])] \o code)[b]
         ELSE data[b - n]]

(* Lines across blocks and buffers, the last without a newline; an empty      *)
(* file; a name of full length; a file of magic numbers that is too short. *)
Texts == Disk(
  <<File(<<"u">>, 0), File(<<"v", "v", "v">>, 1), File(<<"w">>, 2), File(<<"m">>, 3)>>,
  <<Inode(7, <<3, 0, 2, 1>>), Inode(6, <<2, 4, 1>>), Inode(0, <<>>), Inode(2, <<5>>)>>,
  <<Block("a", "NL"), Block("a", "b"), Block("b", "NL"), Block("b", "a"), Block("NL", "a"),
    Block("m", "z")>>)

(* A boot block that is full, and a line that is longer than the buffer.     *)
Full == Disk(
  <<File(<<"u">>, 0), File(<<"v", "v", "v">>, 0), File(<<"w">>, 1), File(<<"m">>, 0),
    File(<<"y">>, 1)>>,
  <<Inode(6, <<0, 0, 1>>), Inode(4, <<0, 1>>)>>,
  <<Block("a", "a"), Block("b", "NL")>>)

MCDisks == {Texts, Full}
MCLines ==
  {<<>>, <<" ">>, <<"e", "x">>, <<"s", "h">>, <<"l">>, <<"g">>, <<"c">>, <<"b">>, <<"z">>,
   <<"t">>, <<"h">>, <<"n">>, <<"p">>, <<"e">>, <<"x">>, <<"m">>,
   <<"b", " ", "1">>, <<"0">>, <<"1">>, <<"3">>, <<"5">>, <<"9">>,
   <<"c", " ", "u">>, <<" ", "c", " ", " ", "v", "v", "v", " ", "u">>, <<"c", " ", "v", "v", "v", "v">>,
   <<"c", " ", "v", "v", "v", "v", "v">>, <<"v", "v", "v">>,
   <<"c", " ", ".">>, <<"c", " ", "r">>, <<"c", " ", "w">>, <<"c", " ", "z">>,
   <<"g", " ", "a">>, <<"g", " ", "b", "a">>, <<"g", " ", "m", "z">>}
MCNearMisses == <<<<"s", "h", "h">>, <<"s">>, <<>>>>
MCDigits  == <<"0", "1", "2", "3", "4", "5", "6", "7", "8", "9">>
MCLimits  == <<2, 11>>
MCMagic   == <<"m", "z">>
MCShell   == <<"s", "h">>
MCExit    == <<"e", "x">>
MCRtc     == <<"r">>
MCLetters == <<"A", "B">>
================================================================================
