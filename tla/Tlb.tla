-------------------------------- MODULE Tlb ---------------------------------
(***************************************************************************)
(* The translation lookaside buffer (src/tlb.sv), as operators on a TLB    *)
(* state [tags, plru]: an array of entries and the tree of bits of the     *)
(* pseudo-LRU replacement.  An invalid entry is NoEntry.  A virtual page   *)
(* number is the triple <<vpn2, vpn1, vpn0>>.  The global bit is left out: *)
(* neither the lookup nor the flush reads it.                              *)
(***************************************************************************)
EXTENDS Integers, FiniteSets

CONSTANTS
  LOG_ENTRIES,  \* $clog2(TLB_ENTRIES)
  NoEntry

ASSUME TlbAssumption == LOG_ENTRIES \in Nat \ {0}

TLB_ENTRIES == 2 ^ LOG_ENTRIES
Slots == 0 .. TLB_ENTRIES - 1

\* The entry that a walk ending at level lvl (1: 1G, 2: 2M, 3: 4K) writes.
Entry(asid, vpn, lvl, pte) ==
  [asid |-> asid, vpn |-> vpn, lvl |-> lvl, pte |-> pte]

EmptyTlb == [tags |-> [i \in Slots |-> NoEntry],
             plru |-> [n \in 0 .. TLB_ENTRIES - 2 |-> 0]]

-----------------------------------------------------------------------------
(* Lookup                                                                  *)

\* A 1G entry compares vpn2, a 2M entry vpn2 and vpn1, a 4K entry all three.
Matches(e, asid, vpn) ==
  e # NoEntry /\ e.asid = asid /\ \A l \in 1 .. e.lvl : e.vpn[l] = vpn[l]

lu_hit(t, asid, vpn) == {i \in Slots : Matches(t.tags[i], asid, vpn)}

lu_hit_o(t, asid, vpn) == lu_hit(t, asid, vpn) # {}

\* The loop leaves the content of the last slot that matches, ...
lu_content(t, asid, vpn) ==
  LET hits == lu_hit(t, asid, vpn)
  IN  t.tags[CHOOSE i \in hits : \A j \in hits : j <= i].pte

\* ... lu_is_1G_o stays set once a 1G entry matched, and lu_is_2M_o is that of
\* the last smaller entry that matched.
lu_lvl(t, asid, vpn) ==
  LET hits  == lu_hit(t, asid, vpn)
      small == {i \in hits : t.tags[i].lvl # 1}
  IN  IF \E i \in hits : t.tags[i].lvl = 1 THEN 1
      ELSE t.tags[CHOOSE i \in small : \A j \in small : j <= i].lvl

-----------------------------------------------------------------------------
(* Pseudo-LRU replacement: node 2^lvl - 1 + (i >> shift) is on the path of *)
(* slot i at level lvl, and bit shift - 1 of i is the branch i takes there *)

Node(i, lvl) == 2 ^ lvl - 1 + (i \div 2 ^ (LOG_ENTRIES - lvl))
Branch(i, lvl) == (i \div 2 ^ (LOG_ENTRIES - lvl - 1)) % 2

\* On a hit every node on the path of the slot points away from it; of two
\* slots that hit the higher one is written last.
touch(plru, hits) ==
  LET OnPath(n) == {i \in hits : \E l \in 0 .. LOG_ENTRIES - 1 : Node(i, l) = n}
  IN  [n \in DOMAIN plru |->
         IF OnPath(n) = {} THEN plru[n]
         ELSE LET i == CHOOSE i \in OnPath(n) : \A j \in OnPath(n) : j <= i
                  l == CHOOSE l \in 0 .. LOG_ENTRIES - 1 : Node(i, l) = n
              IN  1 - Branch(i, l)]

\* Fault: the last level of the tree is not decoded.
replace_en_Short(t) ==
  {i \in Slots : \A l \in 0 .. LOG_ENTRIES - 2 : t.plru[Node(i, l)] = Branch(i, l)}

\* The slots the tree selects for replacement.
replace_en(t) ==
  {i \in Slots : \A l \in 0 .. LOG_ENTRIES - 1 : t.plru[Node(i, l)] = Branch(i, l)}

-----------------------------------------------------------------------------
(* Update and flush                                                        *)

\* Fault: an update is written although the TLB is being flushed.
TlbNext_UpdateWins(t, flush, update, access, asid, vpn) ==
  [tags |-> [i \in Slots |->
      IF update # NoEntry /\ i \in replace_en(t) THEN update
      ELSE IF flush THEN NoEntry
      ELSE t.tags[i]],
   plru |-> IF access THEN touch(t.plru, lu_hit(t, asid, vpn)) ELSE t.plru]

\* The state after a clock edge.  A flush clears everything under ASID 0 and
\* the entries of the current ASID otherwise; it wins over an update.
TlbNext(t, flush, update, access, asid, vpn) ==
  [tags |-> [i \in Slots |->
      IF flush
      THEN IF asid = 0 \/ (t.tags[i] # NoEntry /\ t.tags[i].asid = asid)
           THEN NoEntry ELSE t.tags[i]
      ELSE IF update # NoEntry /\ i \in replace_en(t) THEN update
      ELSE t.tags[i]],
   plru |-> IF access THEN touch(t.plru, lu_hit(t, asid, vpn)) ELSE t.plru]
=============================================================================
