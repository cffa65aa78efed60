------------------------------ MODULE RaidMaps ------------------------------
(***************************************************************************)
(* file-raid/raid.py: where a logical block lives in RAID 0, 1, 4 and 5.   *)
(* A layout l has a level, numDisks, a chunkSize in blocks, and for level  *)
(* 5 a raid5type, left-symmetric (LS) or left-asymmetric (LA).             *)
(***************************************************************************)
EXTENDS Integers

\* The disk and the offset of block b, for each level.
At(d, o) == [disk |-> d, off |-> o]

bmap0(l, b) ==
    LET cnum == b \div l.chunkSize
    IN  At(cnum % l.numDisks, (cnum \div l.numDisks) * l.chunkSize + (b % l.chunkSize))

\* The first disk of the pair; the second is the next one.
bmap1(l, b) ==
    LET cnum == b \div l.chunkSize
        pairs == l.numDisks \div 2
    IN  At(2 * (cnum % pairs), (cnum \div pairs) * l.chunkSize + (b % l.chunkSize))

bmap4(l, b) ==
    LET cnum == b \div l.chunkSize
    IN  At(cnum % (l.numDisks - 1),
           (cnum \div (l.numDisks - 1)) * l.chunkSize + (b % l.chunkSize))

\* The parity moves one disk to the left with every stripe.
ParityDisk5(l, row) == (l.numDisks - 1) - (row % l.numDisks)

\* Faulty: the parity disk itself is not skipped.
bmap5_OnParity(l, b) ==
    LET cnum == b \div l.chunkSize
        ddsk == cnum \div (l.numDisks - 1)
        disk == cnum % (l.numDisks - 1)
    IN  At(IF disk > ParityDisk5(l, ddsk) THEN disk + 1 ELSE disk,
           ddsk * l.chunkSize + (b % l.chunkSize))

bmap5(l, b) ==
    LET cnum == b \div l.chunkSize
        ddsk == cnum \div (l.numDisks - 1)
        disk == cnum % (l.numDisks - 1)
        pdisk == ParityDisk5(l, ddsk)
    IN  At(IF l.raid5type = "LA"
           THEN IF disk >= pdisk THEN disk + 1 ELSE disk
           ELSE (disk - (ddsk % l.numDisks)) % l.numDisks,
           ddsk * l.chunkSize + (b % l.chunkSize))

blocksInStripe(l) == (l.numDisks - 1) * l.chunkSize

bmap(l, b) == IF l.level = 4 THEN bmap4(l, b) ELSE bmap5(l, b)
pmap(l, stripe) == IF l.level = 4 THEN l.numDisks - 1 ELSE ParityDisk5(l, stripe)
=============================================================================
