-------------------------------- MODULE MCFFS --------------------------------
(***************************************************************************)
(* FFS with groups that have more blocks than there are groups, as the     *)
(* program's own defaults do: 10 groups of 30 blocks and 10 inodes.        *)
(***************************************************************************)
EXTENDS FFS

DefaultPolicy ==
    {[large_file_exception |-> 0, contig_allocation_policy |-> 1, spread_inodes |-> FALSE,
      spread_data_blocks |-> FALSE, allocate_faraway |-> 1]}

TwoFiles == {<<"a">>, <<"b">>}
=============================================================================
