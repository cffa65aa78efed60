--------------------------- MODULE MachinesProofs ---------------------------
(***************************************************************************)
(* PageTable and ProcessRun.  The page tables of                           *)
(* paging-multilevel-translate.py, for any sizes: what AllocPage writes    *)
(* into the directory and the tables translates as it was asked for, and   *)
(* nothing it wrote before is written over.  And the cpu of                *)
(* process-run.py, for any programs: who has it, and who waits.            *)
(***************************************************************************)
EXTENDS PageTable, ProcessRun, FiniteSetTheorems, WellFoundedInduction, TLAPS

-----------------------------------------------------------------------------
\* The page tables.

Slots == 0 .. pageSize - 1
VPNs  == 0 .. vaPages - 1

\* The page of the table and the page of memory that mem has for a virtual page.
TableOf(mem, d, vpn) == Pfn(mem[d][pdeBits(vpn)])
PageOf(mem, d, vpn)  == Pfn(mem[TableOf(mem, d, vpn)][pteBits(vpn)])

\* In mem, with its directory in d, the entries I of the directory are valid, and the
\* virtual pages M and no others are mapped.
Maps(mem, d, I, M, used) ==
    /\ mem \in [Pages -> [Slots -> 0 .. 255]] /\ I \subseteq Slots /\ M \subseteq VPNs
    /\ d \in used /\ used \subseteq Pages
    /\ \A i \in Slots : Valid(mem[d][i]) <=> i \in I
    /\ \A vp \in M : pdeBits(vp) \in I
    /\ \A i \in I : Pfn(mem[d][i]) \in used \ {d}
    /\ \A i, j \in I : Pfn(mem[d][i]) = Pfn(mem[d][j]) => i = j
    /\ \A vpn \in VPNs : pdeBits(vpn) \in I =>
          (Valid(mem[TableOf(mem, d, vpn)][pteBits(vpn)]) <=> vpn \in M)
    /\ \A vp \in M : /\ PageOf(mem, d, vp) \in used \ {d}
                     /\ \A i \in I : Pfn(mem[d][i]) # PageOf(mem, d, vp)
    /\ \A vp, vq \in M : PageOf(mem, d, vp) = PageOf(mem, d, vq) => vp = vq

\* No page is used for anything else.
NoneLost(mem, d, I, M, used) ==
    \A p \in used : \/ p = d
                    \/ \E i \in I : p = Pfn(mem[d][i])
                    \/ \E vp \in M : p = PageOf(mem, d, vp)

IndicesOf(M) == {pdeBits(vp) : vp \in M}
MappedPages == IF failed THEN ToSet(Front(allocatedVPs)) ELSE ToSet(allocatedVPs)

TableInv ==
    /\ failed \in BOOLEAN /\ allocatedVPs \in Seq(VPNs)
    /\ Maps(memory, pdbr, IndicesOf(MappedPages), MappedPages, usedPages)
    /\ failed => Free = {} /\ allocatedVPs # << >>
    /\ ~ failed => NoneLost(memory, pdbr, IndicesOf(MappedPages), MappedPages, usedPages)

-----------------------------------------------------------------------------
\* Indices are below the size of a page, and say together which page it is.
LEMMA Indices ==
    ASSUME PageTableAssumption
    PROVE  /\ \A vp \in VPNs : pdeBits(vp) \in Slots /\ pteBits(vp) \in Slots
           /\ \A vp, vq \in VPNs : pdeBits(vp) = pdeBits(vq) /\ pteBits(vp) = pteBits(vq) => vp = vq
<1>1. PICK n : n = pageSize
  OBVIOUS
<1>2. n \in Nat /\ n > 0
  BY <1>1 DEF PageTableAssumption
<1>3. ASSUME NEW v \in Nat
      PROVE  v \div n \in Nat /\ v % n \in 0 .. n - 1 /\ v = n * (v \div n) + (v % n)
  BY <1>2
<1>4. ASSUME NEW v \in Nat, NEW q \in Nat, NEW r \in Nat, v < n * n, v = n * q + r
      PROVE  q < n
  <2>1. CASE q >= n
    <3>1. PICK c \in Nat : q = n + c
      BY <1>2, <2>1
    <3>2. n * q = n * n + n * c
      BY <1>2, <3>1
    <3>3. n * c \in Nat /\ n * n \in Nat
      BY <1>2, <3>1
    <3> QED BY <1>4, <3>2, <3>3
  <2> QED BY <1>2, <2>1
<1>5. \A vp \in VPNs : vp \in Nat /\ vp < n * n
  BY <1>1, <1>2 DEF VPNs, vaPages
<1>6. ASSUME NEW vp \in VPNs
      PROVE  pdeBits(vp) \in Slots /\ pteBits(vp) \in Slots /\ vp = n * pdeBits(vp) + pteBits(vp)
  <2>1. pdeBits(vp) \in Nat /\ pteBits(vp) \in 0 .. n - 1 /\ vp = n * pdeBits(vp) + pteBits(vp)
    BY <1>1, <1>3, <1>5 DEF pdeBits, pteBits
  <2>2. pdeBits(vp) < n
    BY <1>4, <1>5, <2>1
  <2> QED BY <1>1, <1>2, <2>1, <2>2 DEF Slots
<1> QED BY <1>6

\* An entry leads to its page; what is not valid there is no entry.
LEMMA Entries ==
    ASSUME PageTableAssumption
    PROVE  /\ \A p \in Pages : /\ Entry(p) \in 0 .. 255 /\ Valid(Entry(p)) /\ Pfn(Entry(p)) = p
           /\ ~ Valid(pfnMask) /\ pfnMask \in 0 .. 255 /\ ~ Valid(0)
           /\ \A fill \in Fills : fill \in 0 .. 255
           /\ Invalid \in [Slots -> 0 .. 255] /\ \A i \in Slots : Invalid[i] = pfnMask
           /\ Slots # {}
  BY DEF PageTableAssumption, Entry, Valid, Pfn, pfnMask, Pages, Invalid, Slots

-----------------------------------------------------------------------------
\* A new page of the table, in which nothing is mapped.
LEMMA TableAdded ==
    ASSUME PageTableAssumption, NEW mem, NEW d, NEW I, NEW M, NEW used, Maps(mem, d, I, M, used),
           NEW i \in Slots \ I, NEW t \in Pages \ used, NEW new,
           new = [mem EXCEPT ![d][i] = Entry(t), ![t] = Invalid]
    PROVE  /\ Maps(new, d, I \cup {i}, M, used \cup {t})
           /\ NoneLost(mem, d, I, M, used) => NoneLost(new, d, I \cup {i}, M, used \cup {t})
<1>1. /\ d \in Pages /\ t # d /\ mem \in [Pages -> [Slots -> 0 .. 255]]
      /\ \A p \in Pages, j \in Slots : mem[p][j] \in 0 .. 255
  BY DEF Maps
<1>2. /\ new \in [Pages -> [Slots -> 0 .. 255]]
      /\ \A j \in Slots : new[d][j] = IF j = i THEN Entry(t) ELSE mem[d][j]
      /\ new[t] = Invalid
      /\ \A p \in Pages : p # d /\ p # t => new[p] = mem[p]
  BY <1>1, Entries
<1>3. /\ \A j \in I : j \in Slots /\ j # i
      /\ \A vpn \in VPNs : pdeBits(vpn) \in Slots /\ pteBits(vpn) \in Slots
  BY Indices DEF Maps
<1>4. /\ \A j \in I : Pfn(new[d][j]) = Pfn(mem[d][j])
      /\ Pfn(new[d][i]) = t
  BY <1>2, <1>3, Entries
<1>5. \A j \in Slots : Valid(new[d][j]) <=> j \in I \cup {i}
  BY <1>2, <1>3, Entries DEF Maps
<1>6. \A vpn \in VPNs : pdeBits(vpn) \in I =>
         /\ TableOf(new, d, vpn) = TableOf(mem, d, vpn)
         /\ new[TableOf(new, d, vpn)] = mem[TableOf(mem, d, vpn)]
  BY <1>2, <1>3, <1>4 DEF Maps, TableOf
<1>7. \A vp \in M : vp \in VPNs /\ PageOf(new, d, vp) = PageOf(mem, d, vp)
  BY <1>6 DEF Maps, PageOf
<1>8. ASSUME NEW vpn \in VPNs, pdeBits(vpn) \in I \cup {i}
      PROVE  Valid(new[TableOf(new, d, vpn)][pteBits(vpn)]) <=> vpn \in M
  <2>1. CASE pdeBits(vpn) \in I
    BY <1>6, <2>1 DEF Maps
  <2>2. CASE pdeBits(vpn) = i
    <3>1. vpn \notin M
      BY <2>2 DEF Maps
    <3>2. TableOf(new, d, vpn) = t
      BY <1>4, <2>2 DEF TableOf
    <3> QED BY <1>2, <1>3, <3>1, <3>2, Entries
  <2> QED BY <1>8, <2>1, <2>2
<1>9. \A j \in I : Pfn(mem[d][j]) \in used
  BY DEF Maps
<1>10. \A vp \in M : PageOf(mem, d, vp) \in used
  BY DEF Maps
<1>11. Maps(new, d, I \cup {i}, M, used \cup {t})
  <2>1. /\ I \cup {i} \subseteq Slots /\ M \subseteq VPNs
        /\ d \in used \cup {t} /\ used \cup {t} \subseteq Pages
        /\ \A vp \in M : pdeBits(vp) \in I \cup {i}
    BY DEF Maps
  <2>2. \A j \in I \cup {i} : Pfn(new[d][j]) \in (used \cup {t}) \ {d}
    BY <1>1, <1>4 DEF Maps
  <2>3. \A j, l \in I \cup {i} : Pfn(new[d][j]) = Pfn(new[d][l]) => j = l
    BY <1>4, <1>9 DEF Maps
  <2>4. \A vp \in M : /\ PageOf(new, d, vp) \in (used \cup {t}) \ {d}
                      /\ \A j \in I \cup {i} : Pfn(new[d][j]) # PageOf(new, d, vp)
    <3>1. \A vp \in M : PageOf(new, d, vp) \in used \ {d} /\ PageOf(new, d, vp) # t
      BY <1>7 DEF Maps
    <3>2. \A vp \in M : \A j \in I : Pfn(new[d][j]) # PageOf(new, d, vp)
      BY <1>4, <1>7 DEF Maps
    <3> QED BY <1>4, <3>1, <3>2
  <2>5. \A vp, vq \in M : PageOf(new, d, vp) = PageOf(new, d, vq) => vp = vq
    BY <1>7 DEF Maps
  <2> QED BY <1>2, <1>5, <1>8, <2>1, <2>2, <2>3, <2>4, <2>5 DEF Maps
<1>12. NoneLost(mem, d, I, M, used) => NoneLost(new, d, I \cup {i}, M, used \cup {t})
  BY <1>4, <1>7 DEF NoneLost
<1> QED BY <1>11, <1>12

\* A page mapped in a page of the table.
LEMMA PageAdded ==
    ASSUME PageTableAssumption, NEW mem, NEW d, NEW I, NEW M, NEW used, Maps(mem, d, I, M, used),
           NEW v \in VPNs \ M, pdeBits(v) \in I, NEW pp \in Pages \ used, NEW fill \in Fills,
           NEW new, new = MapsIn(mem, TableOf(mem, d, v), v, pp, fill)
    PROVE  /\ Maps(new, d, I, M \cup {v}, used \cup {pp})
           /\ NoneLost(mem, d, I, M, used) => NoneLost(new, d, I, M \cup {v}, used \cup {pp})
<1>1. PICK t, j : t = TableOf(mem, d, v) /\ j = pteBits(v)
  OBVIOUS
<1>2. /\ t \in used \ {d} /\ t \in Pages /\ d \in Pages /\ t # pp /\ d # pp /\ j \in Slots
      /\ mem \in [Pages -> [Slots -> 0 .. 255]]
  BY <1>1, Indices DEF Maps, TableOf
<1>3. new = [mem EXCEPT ![t][j] = Entry(pp), ![pp] = [i \in Slots |-> fill]]
  BY <1>1 DEF MapsIn, Slots
<1>4. /\ new \in [Pages -> [Slots -> 0 .. 255]]
      /\ \A l \in Slots : new[t][l] = IF l = j THEN Entry(pp) ELSE mem[t][l]
      /\ \A p \in Pages : p # t /\ p # pp => new[p] = mem[p]
  <2>1. PICK e, row, g : /\ e = Entry(pp) /\ g = [i \in Slots |-> fill]
                         /\ row = [mem[t] EXCEPT ![j] = e]
    OBVIOUS
  <2>2. e \in 0 .. 255 /\ g \in [Slots -> 0 .. 255]
    BY <2>1, Entries
  <2>3. row \in [Slots -> 0 .. 255] /\ \A l \in Slots : row[l] = IF l = j THEN e ELSE mem[t][l]
    BY <1>2, <2>1, <2>2
  <2>4. new = [mem EXCEPT ![t] = row, ![pp] = g]
    BY <1>3, <2>1
  <2>5. /\ new \in [Pages -> [Slots -> 0 .. 255]] /\ new[t] = row
        /\ \A p \in Pages : p # t /\ p # pp => new[p] = mem[p]
    BY <1>2, <2>2, <2>3, <2>4
  <2> QED BY <2>1, <2>3, <2>5
<1>5. new[d] = mem[d]
  BY <1>2, <1>4
<1>6. /\ \A vpn \in VPNs : pdeBits(vpn) \in Slots /\ pteBits(vpn) \in Slots
      /\ \A vpn : TableOf(new, d, vpn) = TableOf(mem, d, vpn)
  BY <1>5, Indices DEF TableOf
<1>7. \A vpn \in VPNs : pdeBits(vpn) \in I =>
         TableOf(mem, d, vpn) \in used /\ TableOf(mem, d, vpn) \in Pages
  BY DEF Maps, TableOf
<1>8. ASSUME NEW vpn \in VPNs, pdeBits(vpn) \in I
      PROVE  new[TableOf(mem, d, vpn)][pteBits(vpn)] =
                IF vpn = v THEN Entry(pp) ELSE mem[TableOf(mem, d, vpn)][pteBits(vpn)]
  <2>1. CASE TableOf(mem, d, vpn) = t
    <3>1. pdeBits(vpn) = pdeBits(v)
      BY <1>1, <1>8, <2>1 DEF Maps, TableOf
    <3>2. pteBits(vpn) = j <=> vpn = v
      BY <1>1, <3>1, Indices
    <3> QED BY <1>4, <1>6, <2>1, <3>2
  <2>2. CASE TableOf(mem, d, vpn) # t
    BY <1>1, <1>4, <1>7, <1>8, <2>2
  <2> QED BY <2>1, <2>2
<1>9. /\ \A vp \in M : vp \in VPNs /\ vp # v /\ pdeBits(vp) \in I
      /\ \A vp \in M : PageOf(new, d, vp) = PageOf(mem, d, vp)
      /\ PageOf(new, d, v) = pp
  <2>1. \A vp \in M : vp \in VPNs /\ vp # v /\ pdeBits(vp) \in I
    BY DEF Maps
  <2>2. \A vp \in M : PageOf(new, d, vp) = PageOf(mem, d, vp)
    BY <1>6, <1>8, <2>1 DEF PageOf
  <2>3. PageOf(new, d, v) = pp
    BY <1>6, <1>8, Entries DEF PageOf
  <2> QED BY <2>1, <2>2, <2>3
<1>10. ASSUME NEW vpn \in VPNs, pdeBits(vpn) \in I
       PROVE  Valid(new[TableOf(new, d, vpn)][pteBits(vpn)]) <=> vpn \in M \cup {v}
  BY <1>6, <1>8, <1>10, Entries DEF Maps
<1>11. Maps(new, d, I, M \cup {v}, used \cup {pp})
  <2>1. /\ I \subseteq Slots /\ M \cup {v} \subseteq VPNs
        /\ d \in used \cup {pp} /\ used \cup {pp} \subseteq Pages
        /\ \A vp \in M \cup {v} : pdeBits(vp) \in I
        /\ \A i \in Slots : Valid(new[d][i]) <=> i \in I
        /\ \A i \in I : Pfn(new[d][i]) \in (used \cup {pp}) \ {d}
        /\ \A i, l \in I : Pfn(new[d][i]) = Pfn(new[d][l]) => i = l
    BY <1>5 DEF Maps
  <2>2. \A vp \in M \cup {v} : /\ PageOf(new, d, vp) \in (used \cup {pp}) \ {d}
                              /\ \A i \in I : Pfn(new[d][i]) # PageOf(new, d, vp)
    BY <1>2, <1>5, <1>9 DEF Maps
  <2>3. \A vp, vq \in M \cup {v} : PageOf(new, d, vp) = PageOf(new, d, vq) => vp = vq
    <3>1. \A vp \in M : PageOf(new, d, vp) # pp
      BY <1>9 DEF Maps
    <3>2. \A vp, vq \in M : PageOf(new, d, vp) = PageOf(new, d, vq) => vp = vq
      BY <1>9 DEF Maps
    <3> QED BY <1>9, <3>1, <3>2
  <2> QED BY <1>4, <1>10, <2>1, <2>2, <2>3 DEF Maps
<1>12. NoneLost(mem, d, I, M, used) => NoneLost(new, d, I, M \cup {v}, used \cup {pp})
  BY <1>5, <1>9 DEF NoneLost
<1> QED BY <1>11, <1>12

-----------------------------------------------------------------------------
\* What the invariant says of translate().
LEMMA Translates ==
    ASSUME PageTableAssumption, TableInv
    PROVE  TranslatesAsMapped
<1>1. PICK I, M : I = IndicesOf(M) /\ M = MappedPages
  OBVIOUS
<1>2. /\ Maps(memory, pdbr, I, M, usedPages)
      /\ \A vpn \in VPNs : pdeBits(vpn) \in Slots /\ pteBits(vpn) \in Slots
  BY <1>1, Indices DEF TableInv
<1>3. \A vpn \in VPNs :
         /\ Valid(PageDirEntry(vpn)) <=> pdeBits(vpn) \in I
         /\ pdeBits(vpn) \in I =>
               (Valid(PageTableEntry(vpn, Pfn(PageDirEntry(vpn)))) <=> vpn \in M)
  BY <1>2 DEF Maps, TableOf, PageDirEntry, PageTableEntry
<1>4. \A vp \in M : vp \in VPNs /\ pdeBits(vp) \in I /\ translate(vp) = PageOf(memory, pdbr, vp)
  BY <1>2, <1>3 DEF Maps, translate, PageOf, TableOf, PageTableEntry, PageDirEntry
<1>5. \A p \in usedPages : p \in Nat
  BY <1>2 DEF Maps, Pages
<1>6. \A vpn \in VPNs :
         /\ translate(vpn) = DirectoryFault <=> pdeBits(vpn) \notin I
         /\ translate(vpn) >= 0 <=> vpn \in M
  <2> SUFFICES ASSUME NEW vpn \in VPNs
               PROVE  /\ translate(vpn) = DirectoryFault <=> pdeBits(vpn) \notin I
                      /\ translate(vpn) >= 0 <=> vpn \in M
    OBVIOUS
  <2>1. CASE pdeBits(vpn) \notin I
    <3>1. translate(vpn) = DirectoryFault
      BY <1>3, <2>1 DEF translate
    <3>2. vpn \notin M
      BY <1>4, <2>1
    <3> QED BY <2>1, <3>1, <3>2 DEF DirectoryFault
  <2>2. CASE pdeBits(vpn) \in I /\ vpn \notin M
    <3>1. translate(vpn) = TableFault
      BY <1>3, <2>2 DEF translate
    <3> QED BY <2>2, <3>1 DEF DirectoryFault, TableFault
  <2>3. CASE vpn \in M
    <3>1. translate(vpn) \in Nat /\ pdeBits(vpn) \in I
      BY <1>2, <1>4, <1>5, <2>3 DEF Maps
    <3> QED BY <2>3, <3>1 DEF DirectoryFault
  <2> QED BY <2>1, <2>2, <2>3
<1>7. IsFiniteSet(M) /\ IsFiniteSet(I) /\ I = {pdeBits(vp) : vp \in M}
  <2>1. IsFiniteSet(VPNs) /\ IsFiniteSet(Slots)
    BY FS_Interval DEF VPNs, Slots, vaPages, PageTableAssumption
  <2> QED BY <1>1, <1>2, <2>1, FS_Subset DEF Maps, IndicesOf
<1>8. ASSUME NEW data, data = {translate(vp) : vp \in M}
      PROVE  /\ Cardinality(data) = Cardinality(M)
             /\ \A p \in data : p # pdbr /\ \A i \in I : Pfn(memory[pdbr][i]) # p
  <2>1. PICK f : f = [vp \in M |-> translate(vp)]
    OBVIOUS
  <2>2. f \in Bijection(M, data)
    BY <1>2, <1>4, <1>8, <2>1
       DEF Maps, Bijection, Injection, Surjection, IsInjective
  <2>3. Cardinality(data) = Cardinality(M)
    BY <1>7, <2>2, FS_Bijection DEF ExistsBijection
  <2> QED BY <1>2, <1>4, <1>8, <2>3 DEF Maps
<1>9. ASSUME NEW tables,
             tables = {Pfn(memory[pdbr][i]) : i \in {k \in Slots : Valid(memory[pdbr][k])}}
      PROVE  /\ Cardinality(tables) = Cardinality(I) /\ pdbr \notin tables
             /\ tables = {Pfn(memory[pdbr][i]) : i \in I}
  <2>1. PICK f : f = [i \in I |-> Pfn(memory[pdbr][i])]
    OBVIOUS
  <2>2. {k \in Slots : Valid(memory[pdbr][k])} = I
    BY <1>2 DEF Maps
  <2>3. f \in Bijection(I, tables)
    BY <1>2, <1>9, <2>1, <2>2 DEF Maps, Bijection, Injection, Surjection, IsInjective
  <2>4. Cardinality(tables) = Cardinality(I)
    BY <1>7, <2>3, FS_Bijection DEF ExistsBijection
  <2> QED BY <1>2, <1>9, <2>2, <2>4 DEF Maps
<1>10. ASSUME NEW data, data = {translate(vp) : vp \in M},
              NEW tables,
              tables = {Pfn(memory[pdbr][i]) : i \in {k \in Slots : Valid(memory[pdbr][k])}}
       PROVE  /\ \A vpn \in VPNs :
                    translate(vpn) = DirectoryFault <=> \A vp \in M : pdeBits(vp) # pdeBits(vpn)
              /\ \A vpn \in VPNs : translate(vpn) >= 0 <=> vpn \in M
              /\ Cardinality(data) = Cardinality(M)
              /\ Cardinality(tables) = Cardinality({pdeBits(vp) : vp \in M})
              /\ data \cap (tables \cup {pdbr}) = {} /\ pdbr \notin tables
              /\ failed => Free = {}
              /\ ~ failed => usedPages = data \cup tables \cup {pdbr}
  <2>1. data \cap (tables \cup {pdbr}) = {} /\ pdbr \notin tables
    <3>1. pdbr \notin tables /\ tables = {Pfn(memory[pdbr][i]) : i \in I}
      BY <1>9, <1>10
    <3>2. \A p \in data : p # pdbr /\ \A i \in I : Pfn(memory[pdbr][i]) # p
      BY <1>8, <1>10
    <3> QED BY <3>1, <3>2
  <2>2. \A vpn \in VPNs : pdeBits(vpn) \notin I <=> \A vp \in M : pdeBits(vp) # pdeBits(vpn)
    BY <1>7
  <2>3. ASSUME ~ failed
        PROVE  usedPages = data \cup tables \cup {pdbr}
    <3>1. NoneLost(memory, pdbr, I, M, usedPages)
      BY <1>1, <2>3 DEF TableInv
    <3>2. /\ data = {PageOf(memory, pdbr, vp) : vp \in M}
          /\ tables = {Pfn(memory[pdbr][i]) : i \in I}
      BY <1>4, <1>9, <1>10
    <3>3. data \subseteq usedPages /\ tables \subseteq usedPages /\ pdbr \in usedPages
      BY <1>2, <3>2 DEF Maps
    <3> QED BY <3>1, <3>2, <3>3 DEF NoneLost
  <2>4. failed => Free = {}
    BY DEF TableInv
  <2>5. Cardinality(data) = Cardinality(M) /\ Cardinality(tables) = Cardinality(I)
    BY <1>8, <1>9, <1>10
  <2> QED BY <1>6, <1>7, <2>1, <2>2, <2>3, <2>4, <2>5
<1>11. PICK data, tables :
          /\ data = {translate(vp) : vp \in M}
          /\ tables = {Pfn(memory[pdbr][i]) : i \in {k \in Slots : Valid(memory[pdbr][k])}}
  OBVIOUS
<1>12. LET mapped == MappedPages
           reached == {translate(vp) : vp \in mapped}
           tabled == {Pfn(memory[pdbr][i]) : i \in {k \in Slots : Valid(memory[pdbr][k])}}
       IN  /\ \A vpn \in VPNs :
                 translate(vpn) = DirectoryFault <=> \A vp \in mapped : pdeBits(vp) # pdeBits(vpn)
           /\ \A vpn \in VPNs : translate(vpn) >= 0 <=> vpn \in mapped
           /\ Cardinality(reached) = Cardinality(mapped)
           /\ Cardinality(tabled) = Cardinality({pdeBits(vp) : vp \in mapped})
           /\ reached \cap (tabled \cup {pdbr}) = {} /\ pdbr \notin tabled
           /\ failed => Free = {}
           /\ ~ failed => usedPages = reached \cup tabled \cup {pdbr}
  BY <1>1, <1>10, <1>11, Zenon
<1> QED BY <1>12 DEF TranslatesAsMapped, MappedPages, VPNs, Slots

-----------------------------------------------------------------------------
\* At the start the directory is empty.
LEMMA InitMaps ==
    ASSUME PageTableAssumption, PageTableInit
    PROVE  TableInv
<1>1. /\ memory = [p \in Pages |-> IF p = pdbr THEN Invalid ELSE [i \in Slots |-> 0]]
      /\ pdbr \in Pages /\ usedPages = {pdbr} /\ allocatedVPs = << >> /\ failed = FALSE
  BY DEF PageTableInit, Slots
<1>2. MappedPages = {} /\ IndicesOf(MappedPages) = {}
  BY <1>1 DEF MappedPages, IndicesOf, ToSet
<1>3. memory \in [Pages -> [Slots -> 0 .. 255]]
  <2>1. PICK z : z = [i \in Slots |-> 0]
    OBVIOUS
  <2>2. z \in [Slots -> 0 .. 255]
    BY <2>1
  <2> QED BY <1>1, <2>1, <2>2, Entries
<1>4. \A i \in Slots : ~ Valid(memory[pdbr][i])
  BY <1>1, Entries
<1>5. Maps(memory, pdbr, {}, {}, usedPages)
  BY <1>1, <1>3, <1>4 DEF Maps
<1>6. NoneLost(memory, pdbr, {}, {}, usedPages)
  BY <1>1 DEF NoneLost
<1>7. allocatedVPs \in Seq(VPNs)
  BY <1>1
<1>8. failed \in BOOLEAN /\ ~ failed
  BY <1>1
<1> QED BY <1>2, <1>5, <1>6, <1>7, <1>8 DEF TableInv

\* One page more, or none left for it.
LEMMA AllocPageMaps ==
    ASSUME PageTableAssumption, TableInv, AllocPage
    PROVE  TableInv'
<1>1. PICK v \in VPNs \ ToSet(allocatedVPs) :
         \/ /\ Free = {}
            /\ failed' = TRUE
            /\ allocatedVPs' = Append(allocatedVPs, v)
            /\ UNCHANGED <<usedPages, memory>>
         \/ \E pp \in Free : \E fill \in Fills : Mapped(v, pp, fill)
  BY DEF AllocPage, VPNs
<1>2. PICK M, I : M = MappedPages /\ I = IndicesOf(M)
  OBVIOUS
<1>3. /\ failed = FALSE /\ pdbr' = pdbr /\ Pages' = Pages /\ allocatedVPs \in Seq(VPNs)
      /\ v \in VPNs \ M /\ M = ToSet(allocatedVPs)
      /\ Maps(memory, pdbr, I, M, usedPages) /\ NoneLost(memory, pdbr, I, M, usedPages)
  BY <1>1, <1>2 DEF AllocPage, TableInv, MappedPages, Pages
<1>4. ASSUME allocatedVPs' = Append(allocatedVPs, v)
      PROVE  /\ allocatedVPs' \in Seq(VPNs) /\ allocatedVPs' # << >>
             /\ failed' = TRUE => MappedPages' = M
             /\ failed' = FALSE => MappedPages' = M \cup {v}
  <2>1. PICK s : s = Append(allocatedVPs, v)
    OBVIOUS
  <2>2. s \in Seq(VPNs) /\ s # << >> /\ Front(s) = allocatedVPs
    BY <1>3, <2>1 DEF Front
  <2>3. ToSet(s) = ToSet(allocatedVPs) \cup {v}
    BY <1>3, <2>1 DEF ToSet
  <2> QED BY <1>3, <1>4, <2>1, <2>2, <2>3 DEF MappedPages
<1>5. CASE /\ Free = {} /\ failed' = TRUE
           /\ allocatedVPs' = Append(allocatedVPs, v)
           /\ UNCHANGED <<usedPages, memory>>
  <2>1. Free' = {}
    BY <1>3, <1>5 DEF Free
  <2> QED BY <1>2, <1>3, <1>4, <1>5, <2>1 DEF TableInv, IndicesOf
<1>6. ASSUME NEW pp \in Free, NEW fill \in Fills, Mapped(v, pp, fill)
      PROVE  TableInv'
  <2>1. pp \in Pages \ usedPages /\ PageDirEntry(v) = memory[pdbr][pdeBits(v)]
        /\ pdeBits(v) \in Slots /\ (Valid(PageDirEntry(v)) <=> pdeBits(v) \in I)
        /\ allocatedVPs' = Append(allocatedVPs, v)
    BY <1>3, <1>6, Indices DEF Free, PageDirEntry, Mapped, Maps
  <2>2. CASE Valid(PageDirEntry(v))
    <3>1. /\ memory' = MapsIn(memory, TableOf(memory, pdbr, v), v, pp, fill)
          /\ usedPages' = usedPages \cup {pp} /\ failed' = failed
      BY <1>6, <2>1, <2>2 DEF Mapped, TableOf
    <3>2. Maps(memory', pdbr, I, M \cup {v}, usedPages \cup {pp})
          /\ NoneLost(memory', pdbr, I, M \cup {v}, usedPages \cup {pp})
      BY <1>3, <2>1, <2>2, <3>1, PageAdded
    <3>3. I = IndicesOf(M \cup {v})
      BY <1>2, <2>1, <2>2 DEF IndicesOf
    <3>4. MappedPages' = M \cup {v} /\ IndicesOf(MappedPages)' = I
      BY <1>3, <1>4, <2>1, <3>1, <3>3 DEF IndicesOf
    <3> QED BY <1>3, <1>4, <2>1, <3>1, <3>2, <3>4 DEF TableInv
  <2>3. CASE ~ Valid(PageDirEntry(v)) /\ Free = {pp}
    <3>1. /\ failed' = TRUE /\ usedPages' = usedPages \cup {pp} /\ memory' = memory
      BY <1>6, <2>3 DEF Mapped
    <3>2. Free' = {}
      BY <1>3, <2>3, <3>1 DEF Free
    <3>3. Maps(memory, pdbr, I, M, usedPages \cup {pp})
      BY <1>3, <2>1 DEF Maps
    <3>4. MappedPages' = M /\ IndicesOf(MappedPages)' = I
      BY <1>2, <1>4, <2>1, <3>1 DEF IndicesOf
    <3> QED BY <1>3, <1>4, <2>1, <3>1, <3>2, <3>3, <3>4 DEF TableInv
  <2>4. CASE ~ Valid(PageDirEntry(v)) /\ Free # {pp}
    <3>1. PICK t \in Free \ {pp}, i \in {pdeBits(v)} :
             /\ i = pdeBits(v)
             /\ memory' = MapsIn([memory EXCEPT ![pdbr][i] = Entry(t), ![t] = Invalid], t, v, pp, fill)
             /\ usedPages' = usedPages \cup {pp, t} /\ failed' = failed
      BY <1>6, <2>4 DEF Mapped
    <3>2. PICK mid : mid = [memory EXCEPT ![pdbr][i] = Entry(t), ![t] = Invalid]
      OBVIOUS
    <3>3. t \in Pages \ usedPages /\ i \in Slots \ I
      BY <2>1, <2>4, <3>1 DEF Free
    <3>4. Maps(mid, pdbr, I \cup {i}, M, usedPages \cup {t})
          /\ NoneLost(mid, pdbr, I \cup {i}, M, usedPages \cup {t})
      BY <1>3, <3>2, <3>3, TableAdded
    <3>5. TableOf(mid, pdbr, v) = t
      <4>1. mid[pdbr][i] = Entry(t)
        BY <1>3, <3>2, <3>3 DEF Maps
      <4> QED BY <3>1, <3>3, <4>1, Entries DEF TableOf
    <3>6. pdeBits(v) \in I \cup {i} /\ pp \in Pages \ (usedPages \cup {t})
          /\ memory' = MapsIn(mid, TableOf(mid, pdbr, v), v, pp, fill)
      BY <2>1, <3>1, <3>2, <3>5
    <3>7. PICK used : used = usedPages \cup {t}
      OBVIOUS
    <3>8. Maps(memory', pdbr, I \cup {i}, M \cup {v}, used \cup {pp})
          /\ NoneLost(memory', pdbr, I \cup {i}, M \cup {v}, used \cup {pp})
      BY <1>3, <3>4, <3>6, <3>7, PageAdded
    <3>9. I \cup {i} = IndicesOf(M \cup {v}) /\ usedPages' = used \cup {pp}
      BY <1>2, <3>1, <3>7 DEF IndicesOf
    <3>10. MappedPages' = M \cup {v} /\ IndicesOf(MappedPages)' = I \cup {i}
      BY <1>3, <1>4, <2>1, <3>1, <3>9 DEF IndicesOf
    <3> QED BY <1>3, <1>4, <2>1, <3>1, <3>8, <3>9, <3>10 DEF TableInv
  <2> QED BY <2>2, <2>3, <2>4
<1> QED BY <1>1, <1>5, <1>6

\* However many pages a process asks for, of whatever size and in whatever order, the pages
\* it has been given translate, each to a page of its own, and no others do; no entry of
\* the directory or of a table is overwritten, and no page is used for anything else.
THEOREM PageTableTranslates ==
    ASSUME PageTableAssumption
    PROVE  PageTableSpec => []TranslatesAsMapped
<1>1. PageTableInit => TableInv
  BY InitMaps
<1>2. TableInv /\ [AllocPage]_pageTableVars => TableInv'
  <2>1. TableInv /\ UNCHANGED pageTableVars => TableInv'
    BY DEF pageTableVars, TableInv, MappedPages, Free, Pages, IndicesOf
  <2> QED BY <2>1, AllocPageMaps
<1>3. TableInv => TranslatesAsMapped
  BY Translates
<1> QED BY <1>1, <1>2, <1>3, PTL DEF PageTableSpec

-----------------------------------------------------------------------------
\* The processes.

States == {"READY", "RUNNING", "WAITING", "DONE"}

\* A system that its assumption allows.
SystemOK ==
    /\ system.io_length \in Nat /\ Len(system.programs) \in Nat \ {0}
    /\ Pids = 1 .. Len(system.programs)
    /\ system.process_switch_behavior \in {"SWITCH_ON_IO", "SWITCH_ON_END"}
    /\ system.io_done_behavior \in {"IO_RUN_LATER", "IO_RUN_IMMEDIATE"}
    /\ IOLength \in Nat

Scheduler == [state : [Pids -> States], curr : Pids]

\* The current process is the only one that may run; with a switch at every I/O it does
\* when anybody is ready; without, nobody but the current process waits.
Sound(st) ==
    /\ st \in Scheduler
    /\ \A p \in Pids : st.state[p] = "RUNNING" => p = st.curr
    /\ system.process_switch_behavior = "SWITCH_ON_IO"
       /\ (\E p \in Pids : st.state[p] = "READY") => st.state[st.curr] = "RUNNING"
    /\ system.process_switch_behavior = "SWITCH_ON_END" =>
          \A p \in Pids : st.state[p] = "WAITING" => p = st.curr

\* The same processes wait in both.
SameWait(st, s) == \A p \in Pids : s.state[p] = "WAITING" <=> st.state[p] = "WAITING"

\* I/Os go on for processes that wait, and end at different times.
IOInv ==
    /\ io_left \in [Pids -> 0 .. IOLength]
    /\ \A p \in Pids : io_left[p] > 0 => proc_state[p] = "WAITING"
    /\ \A p, q \in Pids : io_left[p] > 0 /\ io_left[p] = io_left[q] => p = q

CpuInv ==
    /\ system \in Systems /\ SystemOK
    /\ Sound(Now) /\ IOInv /\ DOMAIN proc_code = Pids

\* The round from the current process on comes past everybody.
LEMMA RoundOfAll ==
    ASSUME NEW n \in Nat \ {0}, NEW c \in 1 .. n
    PROVE  /\ \A k \in 1 .. n : (IF c + k > n THEN c + k - n ELSE c + k) \in 1 .. n
           /\ \A p \in 1 .. n : \E k \in 1 .. n : (IF c + k > n THEN c + k - n ELSE c + k) = p
<1>1. \A k \in 1 .. n : (IF c + k > n THEN c + k - n ELSE c + k) \in 1 .. n
  OBVIOUS
<1>2. ASSUME NEW p \in 1 .. n
      PROVE  \E k \in 1 .. n : (IF c + k > n THEN c + k - n ELSE c + k) = p
  <2>1. CASE p > c
    <3>1. PICK k : k = p - c
      OBVIOUS
    <3>2. k \in 1 .. n /\ c + k = p /\ ~(c + k > n)
      BY <2>1, <3>1
    <3> QED BY <3>2
  <2>2. CASE p <= c
    <3>1. p + n - c \in 1 .. n /\ c + (p + n - c) = p + n
      BY <2>2
    <3> QED BY <3>1
  <2> QED BY <2>1, <2>2
<1> QED BY <1>1, <1>2

\* A set of natural numbers that is not empty has a least one.
LEMMA LeastExists ==
    ASSUME NEW S \in SUBSET Nat, S # {}
    PROVE  \E m \in S : \A y \in S : m <= y
<1>1. PICK m \in S : \A y \in S : ~(<<y, m>> \in OpToRel(<, Nat))
  BY NatLessThanWellFounded, WFMin
<1>2. \A y \in S : y \in Nat /\ ~(y < m)
  BY <1>1 DEF OpToRel
<1>3. m \in Nat /\ \A y \in S : m <= y
  BY <1>2
<1> QED BY <1>3

\* When nobody runs, and nobody waits who would have to be the current process, the next
\* process is a sound choice; and nobody starts or ends to wait by it.
LEMMA NextProcSound ==
    ASSUME SystemOK, NEW st \in Scheduler,
           \A p \in Pids : st.state[p] # "RUNNING",
           system.process_switch_behavior = "SWITCH_ON_END" =>
              \A p \in Pids : st.state[p] # "WAITING"
    PROVE  Sound(next_proc(st)) /\ SameWait(st, next_proc(st))
<1> DEFINE n == Len(system.programs)
           Round(k) == IF st.curr + k > n THEN st.curr + k - n ELSE st.curr + k
           ready == {k \in 1 .. n : st.state[Round(k)] = "READY"}
<1>0. n \in Nat \ {0} /\ Pids = 1 .. n /\ st.curr \in 1 .. n /\ st.state \in [Pids -> States]
  BY DEF SystemOK, Scheduler
<1>1. /\ \A k \in 1 .. n : Round(k) \in 1 .. n
      /\ \A p \in 1 .. n : \E k \in 1 .. n : Round(k) = p
  BY <1>0, RoundOfAll
<1>2. next_proc(st) = IF ready = {} THEN st
                      ELSE Runs(st, Round(CHOOSE k \in ready : \A l \in ready : k <= l))
  BY DEF next_proc
<1>3. CASE ready = {}
  <2>1. \A p \in Pids : st.state[p] # "READY"
    BY <1>0, <1>1, <1>3
  <2> QED BY <1>2, <1>3, <2>1 DEF Sound, SameWait
<1>4. CASE ready # {}
  <2>1. \E k \in ready : \A l \in ready : k <= l
    <3>1. ready \in SUBSET Nat
      BY <1>0
    <3> HIDE DEF ready
    <3> QED BY <1>4, <3>1, LeastExists
  <2>2. PICK k : k = CHOOSE m \in ready : \A l \in ready : m <= l
    OBVIOUS
  <2>3. k \in ready
    BY <2>1, <2>2
  <2>4. PICK p : p = Round(k)
    OBVIOUS
  <2>5. p \in Pids /\ st.state[p] = "READY"
    BY <1>0, <1>1, <2>3, <2>4
  <2>6. next_proc(st) = [state |-> [st.state EXCEPT ![p] = "RUNNING"], curr |-> p]
    BY <1>2, <1>4, <2>2, <2>4 DEF Runs
  <2> HIDE DEF Round, ready, n
  <2>7. PICK s : s = next_proc(st)
    OBVIOUS
  <2>8. /\ s.curr = p /\ s \in Scheduler
        /\ \A q \in Pids : s.state[q] = IF q = p THEN "RUNNING" ELSE st.state[q]
    BY <1>0, <2>5, <2>6, <2>7 DEF Scheduler, States
  <2>9. Sound(s)
    BY <2>5, <2>8 DEF Sound
  <2>10. SameWait(st, s)
    BY <2>5, <2>8 DEF SameWait
  <2> QED BY <2>7, <2>9, <2>10
<1> QED BY <1>3, <1>4

\* A process that is found to be done leaves the cpu to the next one.
LEMMA CheckIfDoneSound ==
    ASSUME SystemOK, NEW st, Sound(st), NEW code
    PROVE  Sound(check_if_done(st, code)) /\ SameWait(st, check_if_done(st, code))
<1>1. CASE ~(code[st.curr] = << >> /\ st.state[st.curr] = "RUNNING")
  BY <1>1 DEF check_if_done, SameWait
<1>2. CASE code[st.curr] = << >> /\ st.state[st.curr] = "RUNNING"
  <2>1. PICK s : s = [st EXCEPT !.state[st.curr] = "DONE"]
    OBVIOUS
  <2>2. st \in Scheduler /\ st.curr \in Pids
    BY DEF Sound, Scheduler
  <2>3. /\ s \in Scheduler
        /\ \A q \in Pids : s.state[q] = IF q = st.curr THEN "DONE" ELSE st.state[q]
    BY <2>1, <2>2 DEF Scheduler, States
  <2>4. \A p \in Pids : s.state[p] # "RUNNING"
    BY <2>3 DEF Sound
  <2>5. SameWait(st, s)
    BY <1>2, <2>2, <2>3 DEF SameWait
  <2>6. system.process_switch_behavior = "SWITCH_ON_END" => \A p \in Pids : s.state[p] # "WAITING"
    BY <1>2, <2>3 DEF Sound
  <2>7. Sound(next_proc(s)) /\ SameWait(s, next_proc(s))
    BY <2>3, <2>4, <2>6, NextProcSound
  <2>8. check_if_done(st, code) = next_proc(s)
    BY <1>2, <2>1 DEF check_if_done
  <2> QED BY <2>5, <2>7, <2>8 DEF SameWait
<1> QED BY <1>1, <1>2

\* The process whose I/O ends is woken: it takes the cpu, or leaves it to another that has
\* it or is ready; nobody else stops waiting.
LEMMA IoEndedSound ==
    ASSUME SystemOK, NEW st, Sound(st), NEW p \in Pids, st.state[p] = "WAITING"
    PROVE  /\ Sound(io_ended(st, p))
           /\ \A q \in Pids : io_ended(st, p).state[q] = "WAITING"
                                <=> (q # p /\ st.state[q] = "WAITING")
<1>0. st \in Scheduler /\ st.state \in [Pids -> States] /\ st.curr \in Pids
  BY DEF Sound, Scheduler
<1> DEFINE ready == [st EXCEPT !.state[p] = "READY"]
           preempted == IF ready.curr # p /\ ready.state[ready.curr] = "RUNNING"
                        THEN [ready EXCEPT !.state[ready.curr] = "READY"] ELSE ready
           runsAtOnce == \/ Runnable(ready) = 1
                         \/ system.process_switch_behavior = "SWITCH_ON_END"
           woken == CASE system.io_done_behavior = "IO_RUN_IMMEDIATE" -> Runs(preempted, p)
                      [] system.io_done_behavior = "IO_RUN_LATER" /\ runsAtOnce -> Runs(ready, p)
                      [] OTHER -> ready
<1>1. io_ended(st, p) = check_if_done(woken, proc_code)
  BY DEF io_ended
<1>2. /\ ready \in Scheduler /\ ready.curr = st.curr
      /\ \A q \in Pids : ready.state[q] = IF q = p THEN "READY" ELSE st.state[q]
  BY <1>0 DEF Scheduler, States
<1> HIDE DEF ready
<1>3. /\ preempted \in Scheduler
      /\ \A q \in Pids : preempted.state[q] =
            IF q = p \/ (q = st.curr /\ ready.state[q] = "RUNNING") THEN "READY" ELSE st.state[q]
  <2>1. CASE ready.curr # p /\ ready.state[ready.curr] = "RUNNING"
    <3>1. preempted = [ready EXCEPT !.state[ready.curr] = "READY"]
      BY <2>1
    <3>2. /\ preempted \in Scheduler
          /\ \A q \in Pids : preempted.state[q] = IF q = ready.curr THEN "READY" ELSE ready.state[q]
      BY <1>0, <1>2, <3>1 DEF Scheduler, States
    <3> HIDE DEF preempted
    <3> QED BY <1>2, <2>1, <3>2
  <2>2. CASE ~(ready.curr # p /\ ready.state[ready.curr] = "RUNNING")
    <3>1. preempted = ready
      BY <2>2
    <3> HIDE DEF preempted
    <3> QED BY <1>0, <1>2, <2>2, <3>1
  <2> QED BY <2>1, <2>2
<1> HIDE DEF preempted
<1>4. ASSUME NEW s \in Scheduler,
             \A q \in Pids : s.state[q] \in {"READY", "RUNNING"} <=>
                                 (q = p \/ st.state[q] \in {"READY", "RUNNING"}),
             \A q \in Pids : q # p /\ s.state[q] # "READY" => st.state[q] = s.state[q],
             \A q \in Pids : q # p => s.state[q] # "RUNNING"
      PROVE  /\ Sound(Runs(s, p))
             /\ \A q \in Pids : Runs(s, p).state[q] = "WAITING" <=> (q # p /\ st.state[q] = "WAITING")
  <2>1. PICK t : t = Runs(s, p)
    OBVIOUS
  <2>2. /\ t \in Scheduler /\ t.curr = p
        /\ \A q \in Pids : t.state[q] = IF q = p THEN "RUNNING" ELSE s.state[q]
    BY <2>1 DEF Runs, Scheduler, States
  <2>3. \A q \in Pids : t.state[q] = "WAITING" <=> (q # p /\ st.state[q] = "WAITING")
    <3> SUFFICES ASSUME NEW q \in Pids
                 PROVE  t.state[q] = "WAITING" <=> (q # p /\ st.state[q] = "WAITING")
      OBVIOUS
    <3>1. st.state[q] \in States /\ s.state[q] \in States
      BY <1>0 DEF Scheduler
    <3> QED BY <1>4, <2>2, <3>1 DEF States
  <2>4. system.process_switch_behavior = "SWITCH_ON_END" =>
           \A q \in Pids : t.state[q] # "WAITING"
    BY <2>3 DEF Sound
  <2>5. Sound(t)
    BY <1>4, <2>2, <2>4 DEF Sound
  <2> QED BY <2>1, <2>3, <2>5
<1>5. /\ Sound(woken)
      /\ \A q \in Pids : woken.state[q] = "WAITING" <=> (q # p /\ st.state[q] = "WAITING")
  <2>1. CASE system.io_done_behavior = "IO_RUN_IMMEDIATE"
    <3>1. woken = Runs(preempted, p)
      BY <2>1
    <3>2. \A q \in Pids : q # p => preempted.state[q] # "RUNNING"
      BY <1>2, <1>3 DEF Sound
    <3>3. \A q \in Pids : preempted.state[q] \in {"READY", "RUNNING"} <=>
                             (q = p \/ st.state[q] \in {"READY", "RUNNING"})
      BY <1>2, <1>3
    <3>4. \A q \in Pids : q # p /\ preempted.state[q] # "READY" => st.state[q] = preempted.state[q]
      BY <1>3
    <3> HIDE DEF woken
    <3> QED BY <1>3, <1>4, <3>1, <3>2, <3>3, <3>4
  <2>2. CASE system.io_done_behavior = "IO_RUN_LATER" /\ runsAtOnce
    <3>1. woken = Runs(ready, p)
      BY <2>2
    <3>2. ASSUME NEW q \in Pids, q # p
          PROVE  ready.state[q] # "RUNNING"
      <4>1. CASE system.process_switch_behavior = "SWITCH_ON_END"
        BY <1>2, <3>2, <4>1 DEF Sound
      <4>2. CASE Runnable(ready) = 1
        <5>1. PICK R : R = {a \in Pids : ready.state[a] \in {"READY", "RUNNING"}}
          OBVIOUS
        <5>2. IsFiniteSet(R) /\ Cardinality(R) = 1
          <6>1. IsFiniteSet(Pids)
            BY FS_Interval DEF SystemOK
          <6>2. R \in SUBSET Pids
            BY <5>1
          <6>3. IsFiniteSet(R)
            BY <6>1, <6>2, FS_Subset
          <6> QED BY <4>2, <5>1, <6>3 DEF Runnable
        <5>3. PICK x : R = {x}
          BY <5>2, FS_Singleton
        <5>4. p \in R
          BY <1>2, <5>1
        <5> QED BY <3>2, <5>1, <5>3, <5>4
      <4> QED BY <2>2, <4>1, <4>2
    <3>3. \A q \in Pids : ready.state[q] \in {"READY", "RUNNING"} <=>
                             (q = p \/ st.state[q] \in {"READY", "RUNNING"})
      BY <1>2
    <3>4. \A q \in Pids : q # p /\ ready.state[q] # "READY" => st.state[q] = ready.state[q]
      BY <1>2
    <3> HIDE DEF woken, runsAtOnce
    <3> QED BY <1>2, <1>4, <3>1, <3>2, <3>3, <3>4
  <2>3. CASE system.io_done_behavior = "IO_RUN_LATER" /\ ~ runsAtOnce
    <3>1. woken = ready
      BY <2>3
    <3>2. system.process_switch_behavior = "SWITCH_ON_IO" /\ Runnable(ready) # 1
      BY <2>3 DEF SystemOK
    <3>3. \E q \in Pids : q # p /\ st.state[q] \in {"READY", "RUNNING"}
      <4> SUFFICES ASSUME \A q \in Pids : q # p => st.state[q] \notin {"READY", "RUNNING"}
                   PROVE  FALSE
        OBVIOUS
      <4>1. {a \in Pids : ready.state[a] \in {"READY", "RUNNING"}} = {p}
        BY <1>2
      <4> QED BY <3>2, <4>1, FS_Singleton DEF Runnable
    <3>4. st.state[st.curr] = "RUNNING"
      BY <3>2, <3>3 DEF Sound
    <3>5. ready.state[ready.curr] = "RUNNING"
      BY <1>0, <1>2, <3>4
    <3>6. Sound(ready)
      BY <1>2, <3>2, <3>5 DEF Sound
    <3>7. \A q \in Pids : ready.state[q] = "WAITING" <=> (q # p /\ st.state[q] = "WAITING")
      BY <1>2
    <3> HIDE DEF woken, runsAtOnce
    <3> QED BY <3>1, <3>6, <3>7
  <2> QED BY <2>1, <2>2, <2>3 DEF SystemOK
<1> HIDE DEF woken
<1>6. Sound(check_if_done(woken, proc_code)) /\ SameWait(woken, check_if_done(woken, proc_code))
  BY <1>5, CheckIfDoneSound
<1> QED BY <1>1, <1>5, <1>6 DEF SameWait

\* At the start the first process runs and the others are ready.
LEMMA InitCpu == ProcessRunAssumption /\ ProcessRunInit => CpuInv
<1> SUFFICES ASSUME ProcessRunAssumption, ProcessRunInit PROVE CpuInv
  OBVIOUS
<1>1. system \in Systems /\ system.programs \in Seq(Seq({"c", "i", "p"})) \ {<< >>}
  BY DEF ProcessRunAssumption, ProcessRunInit
<1>2. /\ Len(system.programs) \in Nat \ {0} /\ DOMAIN system.programs = 1 .. Len(system.programs)
  <2>1. PICK S, s : S = Seq({"c", "i", "p"}) /\ s = system.programs
    OBVIOUS
  <2>2. s \in Seq(S) /\ s # << >>
    BY <1>1, <2>1
  <2>3. Len(s) \in Nat \ {0} /\ DOMAIN s = 1 .. Len(s)
    BY <2>2
  <2> QED BY <2>1, <2>3
<1>3. SystemOK
  BY <1>1, <1>2 DEF ProcessRunAssumption, SystemOK, IOLength, Pids
<1>4. Now \in Scheduler /\ Now.curr = 1
      /\ \A p \in Pids : Now.state[p] = IF p = 1 THEN "RUNNING" ELSE "READY"
  BY <1>3 DEF ProcessRunInit, Now, Scheduler, States, SystemOK
<1>5. Sound(Now)
  BY <1>3, <1>4 DEF Sound, SystemOK
<1>6. IOInv /\ DOMAIN proc_code = Pids
  BY <1>3 DEF ProcessRunInit, IOInv, SystemOK
<1> QED BY <1>1, <1>3, <1>5, <1>6 DEF CpuInv

\* After the I/Os that end only those wait whose I/O goes on.
LEMMA AfterIOSound ==
    ASSUME CpuInv
    PROVE  /\ Sound(AfterIO)
           /\ \A p \in Pids : io_left[p] > 1 => AfterIO.state[p] = "WAITING"
<1>0. SystemOK /\ Sound(Now) /\ IOInv /\ Now.state = proc_state
  BY DEF CpuInv, Now
<1>1. CASE ~ \E p \in Pids : Ends(p)
  BY <1>0, <1>1 DEF AfterIO, IOInv
<1>2. CASE \E p \in Pids : Ends(p)
  <2>1. PICK p : p = CHOOSE q \in Pids : Ends(q)
    OBVIOUS
  <2>2. p \in Pids /\ io_left[p] = 1
    BY <1>2, <2>1 DEF Ends
  <2>3. AfterIO = io_ended(Now, p)
    BY <1>2, <2>1 DEF AfterIO
  <2>4. Now.state[p] = "WAITING"
    BY <1>0, <2>2 DEF IOInv
  <2>5. /\ Sound(io_ended(Now, p))
        /\ \A q \in Pids : io_ended(Now, p).state[q] = "WAITING"
                             <=> (q # p /\ Now.state[q] = "WAITING")
    BY <1>0, <2>2, <2>4, IoEndedSound
  <2>6. \A q \in Pids : io_left[q] > 1 => q # p /\ Now.state[q] = "WAITING"
    BY <1>0, <2>2 DEF IOInv
  <2> QED BY <2>3, <2>5, <2>6
<1> QED BY <1>1, <1>2

\* The instruction that starts an I/O leaves the cpu, or keeps it idle.
LEMMA IOIssuedSound ==
    ASSUME SystemOK, NEW st, Sound(st), st.state[st.curr] = "RUNNING"
    PROVE  /\ Sound(IOIssued(st))
           /\ \A p \in Pids : IOIssued(st).state[p] = "WAITING"
                                <=> (p = st.curr \/ st.state[p] = "WAITING")
<1>1. PICK s : s = [st EXCEPT !.state[st.curr] = "WAITING"]
  OBVIOUS
<1>2. st \in Scheduler /\ st.curr \in Pids
  BY DEF Sound, Scheduler
<1>3. /\ s \in Scheduler /\ s.curr = st.curr
      /\ \A p \in Pids : s.state[p] = IF p = st.curr THEN "WAITING" ELSE st.state[p]
  BY <1>1, <1>2 DEF Scheduler, States
<1>4. \A p \in Pids : s.state[p] # "RUNNING"
  BY <1>3 DEF Sound
<1>5. CASE system.process_switch_behavior = "SWITCH_ON_IO"
  <2>1. IOIssued(st) = next_proc(s)
    BY <1>1, <1>5 DEF IOIssued
  <2>2. Sound(next_proc(s)) /\ SameWait(s, next_proc(s))
    BY <1>3, <1>4, <1>5, NextProcSound
  <2> QED BY <1>3, <2>1, <2>2 DEF SameWait
<1>6. CASE system.process_switch_behavior = "SWITCH_ON_END"
  <2>1. IOIssued(st) = s
    BY <1>1, <1>6 DEF IOIssued
  <2>2. Sound(s)
    BY <1>3, <1>4, <1>6 DEF Sound
  <2> QED BY <1>3, <2>1, <2>2
<1> QED BY <1>5, <1>6 DEF SystemOK

\* A tick keeps the invariant: what it starts is longer than everything that goes on.
LEMMA TickCpu == CpuInv /\ Tick => CpuInv'
<1> SUFFICES ASSUME CpuInv, Tick PROVE CpuInv'
  OBVIOUS
<1>0. SystemOK /\ IOInv /\ DOMAIN proc_code = Pids /\ system' = system /\ system \in Systems
  BY DEF CpuInv, Tick
<1>1. PICK st : st = AfterIO
  OBVIOUS
<1>2. /\ Sound(st) /\ st.curr \in Pids
      /\ \A p \in Pids : io_left[p] > 1 => st.state[p] = "WAITING"
  BY <1>1, AfterIOSound DEF Sound, Scheduler
<1>3. PICK p, left : /\ p = st.curr
                     /\ left = [q \in Pids |-> IF io_left[q] > 0 THEN io_left[q] - 1 ELSE 0]
  OBVIOUS
<1>4. PICK executes : executes = (st.state[p] = "RUNNING" /\ proc_code[p] # << >>)
  OBVIOUS
<1>5. PICK code, io : /\ code = IF executes THEN [proc_code EXCEPT ![p] = Tail(@)] ELSE proc_code
                      /\ io = (executes /\ Head(proc_code[p]) = "io")
  OBVIOUS
<1>6. PICK mid : mid = IF io THEN IOIssued(st) ELSE st
  OBVIOUS
<1>7. PICK end : end = check_if_done(mid, code)
  OBVIOUS
<1>8. /\ proc_code' = code /\ proc_state' = end.state /\ curr_proc' = end.curr
      /\ io_left' = IF io THEN [left EXCEPT ![p] = IOLength] ELSE left
  BY <1>1, <1>3, <1>4, <1>5, <1>6, <1>7 DEF Tick
<1>9. /\ Sound(mid)
      /\ \A q \in Pids : mid.state[q] = "WAITING" <=> ((io /\ q = p) \/ st.state[q] = "WAITING")
  <2>1. CASE io
    <3>1. st.state[st.curr] = "RUNNING"
      BY <1>3, <1>4, <1>5, <2>1
    <3> QED BY <1>0, <1>2, <1>3, <1>6, <2>1, <3>1, IOIssuedSound
  <2>2. CASE ~ io
    BY <1>2, <1>6, <2>2
  <2> QED BY <2>1, <2>2
<1>10. Sound(end) /\ SameWait(mid, end)
  BY <1>0, <1>7, <1>9, CheckIfDoneSound
<1>11. Sound(Now)'
  <2>1. Now' = [state |-> end.state, curr |-> end.curr]
    BY <1>8 DEF Now
  <2>2. end \in Scheduler /\ end = [state |-> end.state, curr |-> end.curr]
    BY <1>10 DEF Sound, Scheduler
  <2> QED BY <1>0, <1>10, <2>1, <2>2 DEF Sound, Scheduler, Pids
<1>12. /\ left \in [Pids -> 0 .. IOLength]
       /\ \A q \in Pids : left[q] > 0 => io_left[q] > 1 /\ io_left[q] = left[q] + 1
       /\ \A q \in Pids : IOLength > 0 => left[q] < IOLength
  <2>1. PICK n : n = IOLength
    OBVIOUS
  <2>2. n \in Nat /\ io_left \in [Pids -> 0 .. n]
    BY <1>0, <2>1 DEF SystemOK, IOInv
  <2>3. \A q \in Pids : left[q] = IF io_left[q] > 0 THEN io_left[q] - 1 ELSE 0
    BY <1>3
  <2>4. ASSUME NEW q \in Pids
        PROVE  /\ left[q] \in 0 .. n /\ (n > 0 => left[q] < n)
               /\ left[q] > 0 => io_left[q] > 1 /\ io_left[q] = left[q] + 1
    <3>1. io_left[q] \in 0 .. n
      BY <2>2
    <3> QED BY <2>2, <2>3, <3>1
  <2>5. left \in [Pids -> 0 .. n]
    BY <1>3, <2>3, <2>4
  <2> QED BY <2>1, <2>4, <2>5
<1>13. IOInv'
  <2>1. Pids' = Pids /\ IOLength' = IOLength /\ IOLength \in Nat
    BY <1>0 DEF Pids, IOLength, SystemOK
  <2>2. \A q \in Pids : end.state[q] = "WAITING" <=> ((io /\ q = p) \/ st.state[q] = "WAITING")
    BY <1>9, <1>10 DEF SameWait
  <2>3. CASE io
    <3>1. /\ io_left' \in [Pids -> 0 .. IOLength]
          /\ \A q \in Pids : io_left'[q] = IF q = p THEN IOLength ELSE left[q]
      BY <1>2, <1>3, <1>8, <1>12, <2>1, <2>3
    <3>2. \A q \in Pids : io_left'[q] > 0 => proc_state'[q] = "WAITING"
      BY <1>2, <1>8, <1>12, <2>2, <2>3, <3>1
    <3>3. \A q, r \in Pids : io_left'[q] > 0 /\ io_left'[q] = io_left'[r] => q = r
      BY <1>0, <1>12, <2>1, <3>1 DEF IOInv
    <3> QED BY <2>1, <3>1, <3>2, <3>3 DEF IOInv
  <2>4. CASE ~ io
    <3>1. io_left' = left
      BY <1>8, <2>4
    <3>2. \A q \in Pids : io_left'[q] > 0 => proc_state'[q] = "WAITING"
      BY <1>2, <1>8, <1>12, <2>2, <3>1
    <3>3. \A q, r \in Pids : io_left'[q] > 0 /\ io_left'[q] = io_left'[r] => q = r
      BY <1>0, <1>12, <3>1 DEF IOInv
    <3> QED BY <1>12, <2>1, <3>1, <3>2, <3>3 DEF IOInv
  <2> QED BY <2>3, <2>4
<1>14. SystemOK' /\ Pids' = Pids
  BY <1>0 DEF SystemOK, Pids, IOLength
<1>15. DOMAIN proc_code' = Pids
  BY <1>0, <1>5, <1>8
<1> QED BY <1>0, <1>11, <1>13, <1>14, <1>15 DEF CpuInv

\* At most one process has the cpu; a process waits as long as its I/O goes on, no two I/Os
\* end in one tick, and a system that switches at I/Os does not leave the cpu idle while a
\* process is ready: for any programs and any length of an I/O.
THEOREM ProcessCpuShared ==
    ASSUME ProcessRunAssumption PROVE ProcessRunSpec => []CpuShared
<1>1. ProcessRunInit => CpuInv
  BY InitCpu
<1>2. CpuInv /\ [Tick]_processVars => CpuInv'
  <2>1. CpuInv /\ UNCHANGED processVars => CpuInv'
    BY DEF CpuInv, processVars, SystemOK, Sound, IOInv, Now, Pids, IOLength, Scheduler
  <2> QED BY <2>1, TickCpu
<1>3. CpuInv => CpuShared
  <2> SUFFICES ASSUME CpuInv PROVE CpuShared
    OBVIOUS
  <2>1. Sound(Now) /\ IOInv /\ Now.state = proc_state /\ Now.curr = curr_proc
    BY DEF CpuInv, Now
  <2> QED BY <2>1 DEF Sound, IOInv, CpuShared, Ends
<1> QED BY <1>1, <1>2, <1>3, PTL DEF ProcessRunSpec

=============================================================================
