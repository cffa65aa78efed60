------------------------------- MODULE MCLFS -------------------------------
(***************************************************************************)
(* LFS with -D, which looks inodes up through the checkpoint region, and   *)
(* with -a r, which soon gives out inodes of different pieces of the map.  *)
(***************************************************************************)
EXTENDS LFS

FromDisk ==
    {[use_disk_cr |-> TRUE, no_force |-> FALSE, random |-> TRUE,
      commands |-> {"c", "r", "w", "l"}]}

TwoNames == {<<"a">>, <<"b">>}
=============================================================================
