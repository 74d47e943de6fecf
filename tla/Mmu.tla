-------------------------------- MODULE Mmu ---------------------------------
(***************************************************************************)
(* The memory management unit (src/mmu.sv): the page table walker          *)
(* (src/ptw.sv), the instruction and the data TLB (src/tlb.sv) and the two *)
(* translation interfaces, with the instruction cache and the load/store   *)
(* unit as their clients and the data cache port of the walker.  One clock *)
(* edge is one step.                                                       *)
(*                                                                         *)
(* Page tables live in memory, pt[[ppn, idx]] is an entry, and software    *)
(* changes them at any time.  PTE is the set of entries used: records of   *)
(* v, r, w, x, a, d, u and ppn.  A physical page number is a triple        *)
(* <<ppn2, ppn1, ppn0>> like a virtual one.                                *)
(***************************************************************************)
EXTENDS Tlb

CONSTANTS
  Workloads,     \* what software and the core do, by name; one of them in a behaviour:
                 \*   asid    the address space identifiers
                 \*   root    satp.ppn of every ASID
                 \*   fetch   pages the instruction cache asks for
                 \*   ops     requests of the load/store unit: [vpn, store, mis]
                 \*   tables  the contents the page tables take in memory
                 \*   edit    software changes them while the system runs
                 \*   priv, sum, mxr  the privilege level ("S" or "U") and the
                 \*           two mstatus bits
  REFLUSH,       \* a second flush may come while a dropped read is pending
  NoReq

ASSUME MmuAssumption ==
  /\ \A w \in DOMAIN Workloads :
       /\ 0 \in Workloads[w].asid /\ Workloads[w].priv \in {"S", "U"}
       /\ NoReq \notin [vpn : Workloads[w].fetch, killed : BOOLEAN]
  /\ REFLUSH \in BOOLEAN

VARIABLES
  work,   \* name of the workload of the behaviour
  pt,     \* the page tables in memory
  satp,   \* [asid, en]: the address space, and whether translation is on
  ptw,    \* registers of the walker
  rdata,  \* data_rvalid_q and data_rdata_q: NoReq or [addr, pte]
  port,   \* the read the data cache works on: NoReq or [addr, pte]
  itlb, dtlb,
  fetch,  \* the request of the instruction cache: [vpn, killed] or NoReq
  lsu,    \* the request of the load/store unit, or NoReq
  lsu_q,  \* registers of the data interface
  dirty,  \* ghost: ASIDs whose tables changed after the last SFENCE.VMA
  trap    \* ghost: an LSU exception was reported, its flush is outstanding

mmuVars == <<work, pt, satp, ptw, rdata, port, itlb, dtlb, fetch, lsu, lsu_q,
             dirty, trap>>

Asid == Workloads[work].asid
Root == Workloads[work].root
PRIV_LVL == Workloads[work].priv
SUM == Workloads[work].sum
MXR == Workloads[work].mxr

NoLsu == [req |-> FALSE]

MmuInit ==
  /\ work \in DOMAIN Workloads
  /\ pt \in Workloads[work].tables
  /\ satp = [asid |-> 0, en |-> TRUE]
  /\ ptw = [state |-> "IDLE"]
  /\ rdata = NoReq
  /\ port = NoReq
  /\ itlb = EmptyTlb
  /\ dtlb = EmptyTlb
  /\ fetch = NoReq
  /\ lsu = NoReq
  /\ lsu_q = NoLsu
  /\ dirty = {}
  /\ trap = FALSE

-----------------------------------------------------------------------------
(* What a page table entry says                                            *)

Invalid(pte) == ~pte.v \/ (~pte.r /\ pte.w)
Leaf(pte) == pte.r \/ pte.x

\* A leaf above the last level must have zeros where the page is larger.
Misaligned(pte, lvl) ==
  \/ lvl = 1 /\ (pte.ppn[2] # 0 \/ pte.ppn[3] # 0)
  \/ lvl = 2 /\ pte.ppn[3] # 0

\* The checks of the walker before it writes a TLB.
WalkPermits(pte, instr, store) ==
  IF instr THEN pte.x /\ pte.a
  ELSE pte.a /\ (pte.r \/ (pte.x /\ MXR)) /\ (store => pte.w /\ pte.d)

\* The physical page: a superpage takes its low digits from the address.
Paddr(pte, lvl, vpn) ==
  [i \in 1 .. 3 |-> IF i > lvl THEN vpn[i] ELSE pte.ppn[i]]

iaccess_err(pte) == IF PRIV_LVL = "U" THEN ~pte.u ELSE pte.u
daccess_err(pte) == IF PRIV_LVL = "U" THEN ~pte.u ELSE pte.u /\ ~SUM


-----------------------------------------------------------------------------
(* Signals of the current cycle.  dreq: the load/store unit raises its     *)
(* translation request in this cycle.                                      *)

ItlbHit == fetch # NoReq /\ lu_hit_o(itlb, satp.asid, fetch.vpn)
DtlbHit == lsu # NoReq /\ lu_hit_o(dtlb, satp.asid, lsu.vpn)
lsu_dtlb_hit_o == IF satp.en THEN DtlbHit ELSE TRUE

ptw_error == ptw.state = "PROPAGATE_ERROR"

\* The answer of the walk: a page, an error or a pointer to the next level.
Found == ptw.state = "PTE_LOOKUP" /\ rdata # NoReq
FoundLeaf(dreq) ==
  /\ Found
  /\ ~Invalid(rdata.pte) /\ Leaf(rdata.pte)
  /\ WalkPermits(rdata.pte, ptw.instr, dreq /\ lsu.store)
  /\ ~Misaligned(rdata.pte, ptw.lvl)
FoundPointer ==
  Found /\ ~Invalid(rdata.pte) /\ ~Leaf(rdata.pte) /\ ptw.lvl < 3

\* itlb_update_o and dtlb_update_o.
Update(instr, dreq) ==
  IF FoundLeaf(dreq) /\ ptw.instr = instr
  THEN Entry(ptw.asid, ptw.vpn, ptw.lvl, rdata.pte)
  ELSE NoEntry

\* Instruction interface.
fetch_valid == fetch # NoReq /\ (satp.en => ItlbHit \/ (ptw_error /\ ptw.instr))
fetch_exception ==
  fetch_valid /\ satp.en /\
    IF ItlbHit THEN iaccess_err(lu_content(itlb, satp.asid, fetch.vpn)) ELSE TRUE
fetch_paddr ==
  IF satp.en
  THEN Paddr(lu_content(itlb, satp.asid, fetch.vpn),
             lu_lvl(itlb, satp.asid, fetch.vpn), fetch.vpn)
  ELSE fetch.vpn

\* Data interface: the answer to the request registered a cycle ago, or the
\* error of the walker, which needs no request.
lsu_misaligned == lsu_q.req /\ lsu_q.mis
lsu_hit == lsu_q.req /\ ~lsu_q.mis /\ lsu_q.hit
lsu_hit_fault ==
  lsu_hit /\ satp.en /\
    IF lsu_q.store THEN ~lsu_q.pte.w \/ daccess_err(lsu_q.pte) \/ ~lsu_q.pte.d
                   ELSE daccess_err(lsu_q.pte)
lsu_walk_fault ==
  satp.en /\ ~lsu_misaligned /\ ~lsu_hit /\ ptw_error /\ ~ptw.instr
lsu_exception == lsu_misaligned \/ lsu_hit_fault \/ lsu_walk_fault
lsu_paddr == IF satp.en THEN Paddr(lsu_q.pte, lsu_q.lvl, lsu_q.vpn) ELSE lsu_q.vpn

-----------------------------------------------------------------------------
(* The page table walker                                                   *)

Flush == {"none", "flush", "sfence"}

\* Fault: a flush does not wait for the answer of a granted read.
FlushTo_NoWait(gnt) == [state |-> "IDLE"]

\* Fault: a flush waits also for an answer that is already there.
FlushTo_AlwaysWait(gnt) ==
  IF ptw.state = "PTE_LOOKUP" \/ (ptw.state = "WAIT_GRANT" /\ gnt)
  THEN [state |-> "WAIT_RVALID"] ELSE [state |-> "IDLE"]

\* Where a flush takes the walker.
FlushTo(gnt) ==
  IF \/ ptw.state = "PTE_LOOKUP" /\ rdata = NoReq
     \/ ptw.state = "WAIT_GRANT" /\ gnt
  THEN [state |-> "WAIT_RVALID"] ELSE [state |-> "IDLE"]

Goto(next, gnt, fl) == ptw' = IF fl # "none" THEN FlushTo(gnt) ELSE next

WalkFrom(instr, vpn) ==
  [state |-> "WAIT_GRANT", lvl |-> 1, instr |-> instr, vpn |-> vpn,
   asid |-> satp.asid, pptr |-> [ppn |-> Root[satp.asid], idx |-> vpn[1]]]

\* An ITLB miss is walked only in a cycle without a data access.
PtwIdle(dreq, fl) ==
  /\ ptw.state = "IDLE"
  /\ Goto(CASE satp.en /\ fetch # NoReq /\ ~ItlbHit /\ ~dreq ->
                 WalkFrom(TRUE, fetch.vpn)
            [] satp.en /\ dreq /\ ~DtlbHit -> WalkFrom(FALSE, lsu.vpn)
            [] OTHER -> ptw,
          FALSE, fl)

PtwWaitGrant(gnt, fl) ==
  /\ ptw.state = "WAIT_GRANT"
  /\ Goto(IF gnt THEN [ptw EXCEPT !.state = "PTE_LOOKUP"] ELSE ptw, gnt, fl)

PtwLookup(dreq, fl) ==
  /\ ptw.state = "PTE_LOOKUP"
  /\ Goto(CASE ~Found -> ptw
            [] FoundLeaf(dreq) -> [state |-> "IDLE"]
            [] FoundPointer ->
                 [ptw EXCEPT !.state = "WAIT_GRANT", !.lvl = @ + 1,
                             !.pptr = [ppn |-> rdata.pte.ppn,
                                       idx |-> ptw.vpn[ptw.lvl + 1]]]
            [] OTHER -> [state |-> "PROPAGATE_ERROR", instr |-> ptw.instr,
                         vpn |-> ptw.vpn],
          FALSE, fl)

PtwError(fl) ==
  /\ ptw.state = "PROPAGATE_ERROR"
  /\ Goto([state |-> "IDLE"], FALSE, fl)

PtwWaitRvalid(fl) ==
  /\ ptw.state = "WAIT_RVALID"
  /\ Goto(IF rdata # NoReq THEN [state |-> "IDLE"] ELSE ptw, FALSE, fl)

Ptw(dreq, gnt, fl) ==
  \/ PtwIdle(dreq, fl)
  \/ PtwWaitGrant(gnt, fl)
  \/ PtwLookup(dreq, fl)
  \/ PtwError(fl)
  \/ PtwWaitRvalid(fl)

\* The walker's port of the data cache: one read at a time, a new one is
\* granted at the earliest when the old one is answered.  The answer carries
\* what memory held when the read was granted or when it is answered.
MemPort(gnt, rv) ==
  /\ gnt => ptw.state = "WAIT_GRANT" /\ (port = NoReq \/ rv)
  /\ rv => port # NoReq
  /\ port' = IF gnt THEN [addr |-> ptw.pptr, pte |-> pt[ptw.pptr]]
             ELSE IF rv THEN NoReq ELSE port
  /\ IF rv THEN \E pte \in {port.pte, pt[port.addr]} :
                  rdata' = [addr |-> port.addr, pte |-> pte]
     ELSE rdata' = NoReq

-----------------------------------------------------------------------------
(* Clients                                                                 *)

NewFetch == {NoReq} \cup
  [vpn : Workloads[work].fetch, killed : {FALSE}]

\* Fault: a killed request is dropped while the walker works for it.
FetchClient_Drop(kill) ==
  IF fetch = NoReq THEN fetch' \in NewFetch
  ELSE IF fetch_valid \/ kill THEN fetch' \in NewFetch
  ELSE fetch' = fetch

\* The instruction cache holds its request until it is answered, also when it
\* is killed (KILL_ATRANS).
FetchClient(kill) ==
  IF fetch = NoReq \/ fetch_valid THEN fetch' \in NewFetch
  ELSE fetch' = [fetch EXCEPT !.killed = @ \/ kill]

\* A store keeps its request up; a load that waits for an older store lowers it
\* (WAIT_PAGE_OFFSET).
LsuRequests(dreq) ==
  /\ dreq => lsu # NoReq
  /\ lsu # NoReq /\ lsu.store => dreq

\* The load/store unit raises the request of its oldest operation until it
\* hits or fails.
\* A misaligned operation fails a cycle later and leaves its walk behind.
LsuClient(dreq, fl) ==
  /\ lsu_q' = IF dreq
              THEN [req |-> TRUE, vpn |-> lsu.vpn, store |-> lsu.store,
                    mis |-> lsu.mis, hit |-> DtlbHit,
                    pte |-> IF DtlbHit THEN lu_content(dtlb, satp.asid, lsu.vpn)
                            ELSE NoEntry,
                    lvl |-> IF DtlbHit THEN lu_lvl(dtlb, satp.asid, lsu.vpn) ELSE 3,
                    live |-> fl = "none"]
              ELSE NoLsu
  /\ IF fl # "none" THEN lsu' = NoReq
     ELSE IF lsu_exception THEN lsu' \in {lsu, NoReq}
     ELSE IF lsu = NoReq \/ (dreq /\ lsu_dtlb_hit_o)
     THEN lsu' \in {lsu, NoReq} \cup Workloads[work].ops
     ELSE lsu' = lsu
  /\ trap' = (fl = "none" /\ (trap \/ lsu_exception))

\* A flush of the pipeline (trap, return, CSR write) may change the address
\* space; SFENCE.VMA also flushes both TLBs.
Csr(fl) ==
  /\ fl # "none" => REFLUSH \/ ptw.state # "WAIT_RVALID" \/ rdata # NoReq
  /\ IF fl = "flush" THEN satp' \in [asid : Asid, en : BOOLEAN]
     ELSE satp' = satp
  /\ dirty' = IF fl # "sfence" THEN dirty
              ELSE IF satp.asid = 0 THEN {} ELSE dirty \ {satp.asid}

Tick(dreq, gnt, rv, kill, fl) ==
  /\ fl # "none" => kill
  /\ kill => fetch # NoReq \/ fl # "none"
  /\ LsuRequests(dreq)
  /\ MemPort(gnt, rv)
  /\ Ptw(dreq, gnt, fl)
  /\ itlb' = TlbNext(itlb, fl = "sfence", Update(TRUE, dreq), fetch # NoReq,
                     satp.asid, IF fetch # NoReq THEN fetch.vpn ELSE <<0, 0, 0>>)
  /\ dtlb' = TlbNext(dtlb, fl = "sfence", Update(FALSE, dreq), dreq,
                     satp.asid, IF lsu # NoReq THEN lsu.vpn ELSE <<0, 0, 0>>)
  /\ FetchClient(kill)
  /\ LsuClient(dreq, fl)
  /\ Csr(fl)
  /\ UNCHANGED <<work, pt>>

\* Software changes an entry of a page table.
Edit ==
  /\ Workloads[work].edit
  /\ \E a \in DOMAIN pt : \E t \in Workloads[work].tables :
       /\ t # pt /\ t = [pt EXCEPT ![a] = t[a]]
       /\ pt' = t
  /\ dirty' = Asid
  /\ UNCHANGED <<work, satp, ptw, rdata, port, itlb, dtlb, fetch, lsu, lsu_q, trap>>

Clock == \E dreq, gnt, rv, kill \in BOOLEAN, fl \in Flush :
           Tick(dreq, gnt, rv, kill, fl)

MmuNext == Clock \/ Edit

MmuSpec == MmuInit /\ [][MmuNext]_mmuVars

-----------------------------------------------------------------------------
(* Properties                                                              *)

\* The walk the comment at the head of the walker describes, in one step.
RefWalk(asid, vpn) ==
  LET p1 == pt[[ppn |-> Root[asid], idx |-> vpn[1]]]
      p2 == pt[[ppn |-> p1.ppn, idx |-> vpn[2]]]
      p3 == pt[[ppn |-> p2.ppn, idx |-> vpn[3]]]
      Stops(pte) == Invalid(pte) \/ Leaf(pte)
  IN  CASE Stops(p1) -> [pte |-> p1, lvl |-> 1]
        [] ~Stops(p1) /\ Stops(p2) -> [pte |-> p2, lvl |-> 2]
        [] OTHER -> [pte |-> p3, lvl |-> 3]

RefLegal(w) == ~Invalid(w.pte) /\ Leaf(w.pte) /\ ~Misaligned(w.pte, w.lvl) /\ w.pte.a
RefFetch(vpn) ==
  LET w == RefWalk(satp.asid, vpn)
  IN  RefLegal(w) /\ w.pte.x /\ ~iaccess_err(w.pte)
RefData(vpn, store) ==
  LET w == RefWalk(satp.asid, vpn)
  IN  /\ RefLegal(w) /\ (w.pte.r \/ (w.pte.x /\ MXR)) /\ ~daccess_err(w.pte)
      /\ store => w.pte.w /\ w.pte.d
RefPaddr(vpn) ==
  LET w == RefWalk(satp.asid, vpn)
  IN  CASE w.lvl = 1 -> <<w.pte.ppn[1], vpn[2], vpn[3]>>
        [] w.lvl = 2 -> <<w.pte.ppn[1], w.pte.ppn[2], vpn[3]>>
        [] w.lvl = 3 -> <<w.pte.ppn[1], w.pte.ppn[2], w.pte.ppn[3]>>

Clean == satp.asid \notin dirty

\* A page table entry the walker decodes is the one it asked for: no answer of
\* a walk that a flush dropped is taken for the answer of a later walk
\* (ptw.sv:321-333).
AnswerOfOwnWalk == Found => rdata.addr = ptw.pptr

\* Once SFENCE.VMA has been executed after the last change of the page tables,
\* every TLB entry is what a walk of the tables gives: no walk that began
\* before the fence writes a TLB after it (ptw.sv:324, tlb.sv:95-123).
TlbCoherent ==
  \A t \in {itlb, dtlb} : \A i \in Slots :
    LET e == t.tags[i]
    IN  e # NoEntry /\ e.asid \notin dirty =>
          LET w == RefWalk(e.asid, e.vpn)
          IN  RefLegal(w) /\ e.pte = w.pte /\ e.lvl = w.lvl

\* A lookup never hits two entries (the assertion at tlb.sv:239) as long as
\* software fences every change of the page tables.
OneHit ==
  \A t \in {itlb, dtlb} : \A i, j \in Slots :
    LET e == t.tags[i]  f == t.tags[j]
    IN  i # j /\ e # NoEntry /\ f # NoEntry /\ e.asid = f.asid /\ e.asid \notin dirty
        => \E l \in 1 .. 3 : l <= e.lvl /\ l <= f.lvl /\ e.vpn[l] # f.vpn[l]

\* A fetch that is not killed gets the translation the page tables define for
\* its own address, and a page fault only if they define none (mmu.sv:184-244).
FetchExact ==
  fetch_valid /\ satp.en /\ Clean /\ ~fetch.killed =>
    IF fetch_exception THEN ~RefFetch(fetch.vpn)
    ELSE RefFetch(fetch.vpn) /\ fetch_paddr = RefPaddr(fetch.vpn)

\* A load or store gets the translation the page tables define for its own
\* address, and a page fault only if they forbid it; only operations younger
\* than one that already failed are exempt, they will be flushed
\* (mmu.sv:265-336).
DataExact ==
  satp.en /\ Clean /\ ~trap =>
    /\ lsu_hit /\ lsu_q.live =>
         IF lsu_hit_fault THEN ~RefData(lsu_q.vpn, lsu_q.store)
         ELSE /\ RefData(lsu_q.vpn, lsu_q.store)
              /\ lsu_paddr = RefPaddr(lsu_q.vpn)
    /\ lsu_walk_fault =>
         lsu # NoReq /\ ptw.vpn = lsu.vpn /\ ~RefData(lsu.vpn, lsu.store)

\* Both translation interfaces of mmu.sv answer as the page tables define.
TranslationExact == DataExact /\ FetchExact

-----------------------------------------------------------------------------
(* Liveness: the clock ticks (steps that leave the page tables alone go    *)
(* on), and the data cache grants and answers.                             *)

Quiet == \E dreq, gnt, rv, kill \in BOOLEAN : Tick(dreq, gnt, rv, kill, "none")
CanTick == ENABLED <<Quiet>>_mmuVars

MmuFairSpec == /\ MmuSpec
               /\ []<>~CanTick \/ []<><<pt' = pt>>_mmuVars
               /\ []<>(ptw.state # "WAIT_GRANT")
               /\ []<>(port = NoReq)

\* A store that waits for its translation finds it in the TLB, fails or is
\* flushed: no sequence of flushes, walks for others and changes of the page
\* tables leaves the walker waiting for an answer that does not come
\* (ptw.sv:173-333).
LsuServed ==
  (lsu # NoReq /\ lsu.store) ~> (lsu = NoReq \/ lsu_exception \/ lsu_dtlb_hit_o)
=============================================================================
