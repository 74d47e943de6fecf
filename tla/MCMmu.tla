------------------------------- MODULE MCMmu --------------------------------
(***************************************************************************)
(* Small page tables: a root, one table of each lower level, and two pages *)
(* of every size.                                                          *)
(***************************************************************************)
EXTENDS Mmu, TLC

OneRoot == [a \in {0, 1} |-> <<9, 9, 1>>]
L2 == <<9, 9, 2>>
L3 == <<9, 9, 3>>

Bits(rwx, ad, u, ppn) ==
  [v |-> TRUE, r |-> "r" \in rwx, w |-> "w" \in rwx, x |-> "x" \in rwx,
   a |-> "a" \in ad, d |-> "d" \in ad, u |-> u, ppn |-> ppn]
Null == [Bits({}, {}, FALSE, <<0, 0, 0>>) EXCEPT !.v = FALSE]
Ptr(t) == Bits({}, {}, FALSE, t)
RW(ppn) == Bits({"r", "w"}, {"a", "d"}, FALSE, ppn)
RO(ppn) == Bits({"r"}, {"a"}, FALSE, ppn)
Old(ppn) == Bits({"r", "w"}, {}, FALSE, ppn)
W(ppn) == Bits({"w"}, {"a", "d"}, FALSE, ppn)
RX(ppn) == Bits({"r", "x"}, {"a"}, FALSE, ppn)
UX(ppn) == Bits({"r", "x"}, {"a"}, TRUE, ppn)

At(t, i) == [ppn |-> t, idx |-> i]

Load(vpn) == [vpn |-> vpn, store |-> FALSE, mis |-> FALSE]
Store(vpn) == [vpn |-> vpn, store |-> TRUE, mis |-> FALSE]
Odd(vpn) == [vpn |-> vpn, store |-> FALSE, mis |-> TRUE]

\* Three levels: the root's entry, the second level's, and the two pages.
Three(top, mid, page0, page1) ==
  At(OneRoot[0], 0) :> top @@ At(L2, 0) :> mid @@
  At(L3, 0) :> page0 @@ At(L3, 1) :> page1

\* Changing tables: the second level is a table or a 2M page, the third maps
\* its first page or does not.
EditTables ==
  {Three(Ptr(L2), mid, page, RO(<<6, 6, 6>>)) :
     mid \in {Ptr(L3), RW(<<4, 4, 0>>)}, page \in {Null, RW(<<5, 5, 5>>)}}
EditOps == {Store(<<0, 0, 0>>), Load(<<0, 0, 1>>)}

\* Two address spaces with tables of their own; the first changes.
AsidRoot == 0 :> <<9, 9, 1>> @@ 1 :> <<9, 9, 4>>
AsidTables ==
  {At(AsidRoot[0], 0) :> top @@ At(AsidRoot[1], 0) :> Ptr(L2) @@
   At(L2, 0) :> RO(<<6, 6, 0>>) : top \in {Null, RW(<<4, 0, 0>>)}}

\* Tables with every kind of entry at every level.
PermTables ==
  {Three(RX(<<4, 0, 0>>), Null, Null, Null)} \cup
  {Three(Ptr(L2), mid, Null, Null) :
     mid \in {RX(<<4, 4, 0>>), RX(<<4, 4, 4>>), Null}} \cup
  {Three(Ptr(L2), Ptr(L3), page, RX(<<6, 6, 6>>)) :
     page \in {RX(<<5, 5, 5>>), RW(<<5, 5, 5>>), RO(<<5, 5, 5>>), UX(<<5, 5, 5>>),
               Old(<<5, 5, 5>>), W(<<5, 5, 5>>), Ptr(L3)}}
PermOps == {Store(<<0, 0, 0>>), Load(<<0, 0, 0>>), Odd(<<0, 0, 1>>)}

\* A page that cannot be executed next to one that can.
FetchTables ==
  {Three(RX(<<4, 0, 0>>), Null, Null, Null)} \cup
  {Three(Ptr(L2), mid, Null, Null) : mid \in {RX(<<4, 4, 0>>), Null}} \cup
  {Three(Ptr(L2), Ptr(L3), page, RX(<<6, 6, 6>>)) :
     page \in {RW(<<5, 5, 5>>), UX(<<5, 5, 5>>)}}
FetchPages == {<<0, 0, 0>>, <<0, 0, 1>>}
FetchOps == {Load(<<0, 0, 1>>)}

\* Supervisor mode with both mstatus bits clear, one address space.
Work(tables, edit, ops) ==
  [asid |-> {0}, root |-> OneRoot, fetch |-> {}, ops |-> ops, tables |-> tables,
   edit |-> edit, priv |-> "S", sum |-> FALSE, mxr |-> FALSE]

EditWork == Work(EditTables, TRUE, EditOps)
AsidWork == [Work(AsidTables, TRUE, EditOps) EXCEPT !.asid = {0, 1}, !.root = AsidRoot]
PermWork == Work(PermTables, FALSE, PermOps)
FetchWork == [Work(FetchTables, FALSE, FetchOps) EXCEPT !.fetch = FetchPages]

MCWorkloads ==
  [edit |-> EditWork, asid |-> AsidWork, fetch |-> FetchWork, perm |-> PermWork,
   user |-> [PermWork EXCEPT !.priv = "U"],
   relaxed |-> [PermWork EXCEPT !.sum = TRUE, !.mxr = TRUE]]
EditOnly == [edit |-> EditWork]
=============================================================================
