----------------------------- MODULE PageTables -----------------------------
(***************************************************************************)
(* PageTableManager of src/mm/higher_half.rs: the four-level page table    *)
(* behind global_map_page, global_unmap_page and global_translate.  A      *)
(* table has Fan entries (512 in the code); addresses count pages, so that *)
(* an entry of level l covers Fan^l of them: level 0 is the PT (4 KiB), 1  *)
(* the PD (2 MiB), 2 the PDPT (1 GiB) and 3 the PML4.  Table 0 is the      *)
(* PML4; the other tables are frames of the buddy allocator, which hands   *)
(* out MaxTables of them and never gets one back.                          *)
(*                                                                         *)
(* The manager is behind one lock, so an operation is one step.            *)
(***************************************************************************)
EXTENDS Integers

CONSTANTS Fan, MaxTables,
          MaxPage,     \* virtual pages used
          Offsets,     \* physical minus virtual page of what is mapped
          Flags

PageTablesAssumption == Fan \in Nat \ {0, 1} /\ MaxTables \in Nat /\ MaxPage \in Nat

Virt == 0..(MaxPage - 1)
Cover == [l \in 0..3 |-> Fan ^ l]
Index(v, l) == (v \div Cover[l]) % Fan
Block(v, l) == {w \in Virt : w \div Cover[l] = v \div Cover[l]}

VARIABLES tables, usedTables

vars == <<tables, usedTables>>

Empty == [to |-> 0, kind |-> "none", flags |-> {}]
EmptyTable == [i \in 0..(Fan - 1) |-> Empty]
NotMapped == [to |-> -1, flags |-> {}]

Init ==
    /\ tables = [t \in 0..MaxTables |-> EmptyTable] /\ usedTables = 0

------------------------------------------------------------------------------
(* The walk *)

\* Where the walk for v ends: at an entry that is not a pointer to a table, which
\* those of level 0 never are.
WalkEnd(ts, v) ==
    LET e3 == ts[0][Index(v, 3)]
        e2 == ts[e3.to][Index(v, 2)]
        e1 == ts[e2.to][Index(v, 1)]
    IN CASE e3.kind # "table" -> [table |-> 0, level |-> 3]
         [] e3.kind = "table" /\ e2.kind # "table" -> [table |-> e3.to, level |-> 2]
         [] e3.kind = "table" /\ e2.kind = "table" /\ e1.kind # "table" ->
              [table |-> e2.to, level |-> 1]
         [] OTHER -> [table |-> e1.to, level |-> 0]

EndEntry(ts, v) == LET s == WalkEnd(ts, v) IN ts[s.table][Index(v, s.level)]

\* translate: the page the walk ends in, at v's place in it.
Translate(ts, v) ==
    LET s == WalkEnd(ts, v)
        e == ts[s.table][Index(v, s.level)]
    IN IF e.kind = "none" THEN NotMapped
       ELSE [to |-> e.to + (v % Cover[s.level]), flags |-> e.flags]

------------------------------------------------------------------------------
(* map_page, map_2mb_page, map_1gb_page: a leaf of level 0, 1 or 2 *)

\* ensure_table_entry: the table below the entry of level l, a new one if there
\* is none.
EnsureTable(s, v, l) ==
    LET e == s.tables[s.at][Index(v, l)]
    IN CASE s.err # "ok" -> s
         [] s.err = "ok" /\ e.kind = "table" -> [s EXCEPT !.at = e.to]
         [] s.err = "ok" /\ e.kind = "page" -> [s EXCEPT !.err = "ParentEntryHugePage"]
         [] s.err = "ok" /\ e.kind = "none" /\ s.used = MaxTables ->
              [s EXCEPT !.err = "FrameAllocationFailed"]
         [] OTHER ->
              [s EXCEPT !.used = @ + 1, !.at = s.used + 1,
                        !.tables[s.used + 1] = EmptyTable,
                        !.tables[s.at][Index(v, l)] =
                            [to |-> s.used + 1, kind |-> "table", flags |-> {}]]

\* Faulty variant: a present entry is written over.
MapLeafOver(s, v, p, f, leaf) ==
    [s EXCEPT !.tables[s.at][Index(v, leaf)] = [to |-> p, kind |-> "page", flags |-> f]]

\* The entry of the leaf, if it is not present.
MapLeaf(s, v, p, f, leaf) ==
    IF s.tables[s.at][Index(v, leaf)].kind # "none"
    THEN [s EXCEPT !.err = "AlreadyMapped"]
    ELSE [s EXCEPT !.tables[s.at][Index(v, leaf)] = [to |-> p, kind |-> "page", flags |-> f]]

\* Tables made on the way stay when a later step fails.
Map(s0, v, p, f, leaf) ==
    LET s2 == EnsureTable([s0 EXCEPT !.at = 0], v, 3)
        s1 == IF leaf < 2 THEN EnsureTable(s2, v, 2) ELSE s2
        s  == IF leaf < 1 THEN EnsureTable(s1, v, 1) ELSE s1
    IN CASE v % Cover[leaf] # 0 \/ p % Cover[leaf] # 0 -> [s0 EXCEPT !.err = "AlignmentError"]
         [] v % Cover[leaf] = 0 /\ p % Cover[leaf] = 0 /\ s.err = "ok" -> MapLeaf(s, v, p, f, leaf)
         [] OTHER -> s

Start == [tables |-> tables, used |-> usedTables, at |-> 0, err |-> "ok"]

MapPage(v, p, f, leaf) ==
    LET s == Map(Start, v, p, f, leaf)
    IN tables' = s.tables /\ usedTables' = s.used

------------------------------------------------------------------------------
(* unmap_page, update_flags *)

\* The page the walk ends in goes, whatever its size.
Unmap(ts, v) ==
    LET s == WalkEnd(ts, v) IN [ts EXCEPT ![s.table][Index(v, s.level)] = Empty]

UnmapPage(v) ==
    /\ EndEntry(tables, v).kind = "page"
    /\ tables' = Unmap(tables, v)
    /\ UNCHANGED usedTables

\* Faulty variant: the flags of a huge page are not changed.
UpdateSmall(ts, v, f) ==
    LET s == WalkEnd(ts, v)
    IN IF s.level > 0 THEN ts ELSE [ts EXCEPT ![s.table][Index(v, s.level)].flags = f]

Update(ts, v, f) ==
    LET s == WalkEnd(ts, v) IN [ts EXCEPT ![s.table][Index(v, s.level)].flags = f]

UpdateFlags(v, f) ==
    /\ EndEntry(tables, v).kind = "page"
    /\ tables' = Update(tables, v, f)
    /\ UNCHANGED usedTables

------------------------------------------------------------------------------
(* map_range, unmap_range *)

\* The largest page size for which both addresses are aligned and enough of the
\* range remains.
BestLeaf(v, p, remaining) ==
    CHOOSE l \in 0..2 :
      LET fits(k) == v % Cover[k] = 0 /\ p % Cover[k] = 0 /\ remaining >= Cover[k]
      IN fits(l) /\ \A k \in (l + 1)..2 : ~fits(k)

\* One page after the other, the first failure ending the call; what was mapped
\* before it stays.
MapAll(v, p, f, n) ==
    LET Step(s, i) ==
            IF i # s.done \/ s.err # "ok" THEN s
            ELSE LET leaf == BestLeaf(v + i, p + i, n - i)
                 IN [Map(s, v + i, p + i, f, leaf) EXCEPT !.done = @ + Cover[leaf]]
        after[i \in 0..n] ==
            IF i = 0 THEN [tables |-> tables, used |-> usedTables, at |-> 0, err |-> "ok", done |-> 0]
            ELSE Step(after[i - 1], i - 1)
    IN after[n]

MapRange(v, p, f, n) ==
    LET s == MapAll(v, p, f, n)
    IN tables' = s.tables /\ usedTables' = s.used

\* In steps of a small page, whatever was unmapped; pages that are not mapped
\* are passed over.
UnmapAll(v, n) ==
    LET after[i \in 0..n] ==
            IF i = 0 THEN tables
            ELSE LET ts == after[i - 1]
                 IN IF EndEntry(ts, v + i - 1).kind = "page" THEN Unmap(ts, v + i - 1) ELSE ts
    IN after[n]

\* The range holds every mapped page whole or not at all.
CutsNoPage(v, n) ==
    \A w \in v..(v + n - 1) :
        EndEntry(tables, w).kind = "page" =>
            Block(w, WalkEnd(tables, w).level) \subseteq v..(v + n - 1)

UnmapRange(v, n) ==
    /\ tables' = UnmapAll(v, n)
    /\ UNCHANGED usedTables

Ranges == {r \in Virt \X (1..MaxPage) : r[1] + r[2] <= MaxPage}

Next ==
    \/ \E v \in Virt, d \in Offsets, f \in Flags :
         \/ \E leaf \in 0..2 : MapPage(v, v + d, f, leaf)
         \/ \E r \in Ranges : r[1] = v /\ MapRange(v, v + d, f, r[2])
    \/ \E v \in Virt : UnmapPage(v) \/ \E f \in Flags : UpdateFlags(v, f)
    \/ \E r \in Ranges : UnmapRange(r[1], r[2])

Spec == Init /\ [][Next]_vars

------------------------------------------------------------------------------
(* Properties *)

Same(ts, v) == Translate(ts, v) = Translate(tables, v)

\* Mapping a page of any size, when it succeeds, makes exactly its addresses
\* translate as asked, where none did before, and when it fails changes no
\* translation, though it may leave new tables behind.
MapExact ==
    \A v \in Virt, d \in Offsets, f \in Flags, leaf \in 0..2 :
        LET s == Map(Start, v, v + d, f, leaf)
        IN \A w \in Virt :
             IF s.err = "ok" /\ w \in Block(v, leaf)
             THEN /\ Translate(tables, w) = NotMapped
                  /\ Translate(s.tables, w) = [to |-> w + d, flags |-> f]
             ELSE Same(s.tables, w)

\* map_range maps a prefix of the range, all of it when it succeeds, and touches
\* nothing else.
MapRangeExact ==
    \A r \in Ranges, d \in Offsets, f \in Flags :
        LET s == MapAll(r[1], r[1] + d, f, r[2])
            mapped == {w \in Virt : ~Same(s.tables, w)}
        IN /\ \E n \in 0..r[2] : mapped = r[1]..(r[1] + n - 1)
           /\ \A w \in mapped : Translate(s.tables, w) = [to |-> w + d, flags |-> f]
           /\ s.err = "ok" => mapped = r[1]..(r[1] + r[2] - 1)

\* update_flags changes the flags of the page that holds the address and no
\* translation.
FlagsExact ==
    \A v \in Virt, f \in Flags : EndEntry(tables, v).kind = "page" =>
        LET ts == Update(tables, v, f)
        IN \A w \in Virt : Translate(ts, w) =
             IF w \in Block(v, WalkEnd(tables, v).level)
             THEN [Translate(tables, w) EXCEPT !.flags = f]
             ELSE Translate(tables, w)

\* unmap_range unmaps the range and nothing else - when it cuts no huge page.
UnmapExact ==
    \A r \in Ranges : CutsNoPage(r[1], r[2]) =>
        \A w \in Virt : Translate(UnmapAll(r[1], r[2]), w) =
            IF w \in r[1]..(r[1] + r[2] - 1) THEN NotMapped ELSE Translate(tables, w)
=============================================================================
