------------------------------- MODULE DCache -------------------------------
(***************************************************************************)
(* The write-back data cache (std_nbdcache.sv): one cache_ctrl per port,   *)
(* the miss handler they share, the priority arbiter in front of the      *)
(* single-ported SRAM (tag_cmp.sv), the bypass arbiter and the two AXI     *)
(* adapters.  One step is one clock edge.                                  *)
(*                                                                         *)
(* A line is <<tag, index>>; its data is one small number, so that a word *)
(* and its line are the same thing and byte lanes disappear.  The clients  *)
(* are free: port 0 is the page table walker, port 1 the load unit (the    *)
(* only one that kills requests), port 2 the store buffer.                 *)
(***************************************************************************)
EXTENDS Integers, FiniteSets, FiniteSetsExt

CONSTANT Workloads  \* what the core and the build may do, by name

VARIABLE work       \* the name of the workload of this behaviour

Port == Workloads[work].port      \* the ports in use, a subset of 0..2
Tag == Workloads[work].tag        \* line addresses are Tag \X Idx
Idx == Workloads[work].idx        \* DCACHE_NUM_WORDS indices, from 0
Way == Workloads[work].way        \* 1..DCACHE_SET_ASSOC
Uncached == Workloads[work].io    \* the tags below CACHE_START_ADDR
ENABLE == Workloads[work].enable  \* the enable bit of the dcache CSR
AmoOp == Workloads[work].amo      \* the atomic operations the core issues
FLUSHES == Workloads[work].flush  \* does the core flush the cache?
KILLS == Workloads[work].kill     \* does the load unit kill its requests: no,
                                  \* early, or also when the miss is served?
RETAG == Workloads[work].retag    \* may the load unit drive another tag while
                                  \* it waits?
DATA == 2                         \* the data values are 0..DATA-1

ASSUME DCacheAssumption ==
    \A n \in DOMAIN Workloads : LET k == Workloads[n] IN
        /\ k.port \subseteq 0..2 /\ k.io \subseteq k.tag
        /\ k.tag # {} /\ k.tag \subseteq Nat
        /\ \E m \in k.idx : k.idx = 0..m
        /\ \E m \in k.way : k.way = 1..m
        /\ k.amo \subseteq {"LR", "SC", "RMW"}
        /\ k.kill \in {"no", "early", "late"}
        /\ {k.enable, k.flush, k.retag} \subseteq BOOLEAN

VARIABLES
    ctrl,      \* per port: state_q, mem_req_q and hit_way_q of its cache_ctrl
    mh,        \* miss_handler: state_q, cnt_q, evict_way_q, evict_cl_q
    mshr,      \* mshr_q
    serve_amo, reservation,
    arr,       \* the SRAM: arr[idx][way]
    rd,        \* the set that the SRAM drives, read in the previous cycle
    axi,       \* the transaction in the line adapter
    byp,       \* the transaction in the bypass arbiter and its adapter
    mem,       \* memory behind AXI
    flush,     \* flush_i, held until it is acknowledged
    amo,       \* amo_req_i, held until it is acknowledged
    val,       \* ghost: what each line holds for the program
    ref,       \* ghost: per port, the line asked for and its values since
    wrong      \* ghost: a load or an atomic answered with a value it never had

Line == Tag \X Idx
Data == 0..DATA - 1
None == [none |-> TRUE]
Idle == [state |-> "IDLE"]

\* An invalid way: its tag and data are never looked at.
Empty == [valid |-> FALSE, dirty |-> FALSE, tag |-> Min(Tag), data |-> 0]

vars == <<work, ctrl, mh, mshr, serve_amo, reservation, arr, rd, axi, byp, mem,
          flush, amo, val, ref, wrong>>

Next1(v) == (v + 1) % DATA

\* Reset: the miss handler walks the status array before anything else; what
\* the SRAM holds until then is unknown.
Init ==
    /\ work \in DOMAIN Workloads
    /\ ctrl = [p \in Port |-> Idle]
    /\ mh = [state |-> "INIT", cnt |-> 0, way |-> 1, cl |-> None]
    /\ mshr = None /\ serve_amo = FALSE /\ reservation = None
    /\ \E e \in {Empty, [Empty EXCEPT !.valid = TRUE, !.dirty = TRUE]} :
           arr = [i \in Idx |-> [w \in Way |-> e]]
    /\ rd = None /\ axi = None /\ byp = None
    /\ mem = [l \in Line |-> 0]
    /\ flush = FALSE /\ amo = None
    /\ val = [l \in Line |-> 0]
    /\ ref = [p \in Port |-> None]
    /\ wrong = FALSE

-----------------------------------------------------------------------------
(* What the ports see                                                       *)

Busy == \E p \in Port : ctrl[p] # Idle

LineOf(c) == <<c.tag, c.idx>>

IndexMatches(c) == mshr # None /\ mshr.line[2] = c.idx
\* Fault: a port does not notice that its line is on its way.
AddrMatches_Never(c, t) == FALSE

AddrMatches(c, t) == mshr # None /\ mshr.line = <<t, c.idx>>
ActiveServing(p) == mshr # None /\ mshr.id = p

\* hit_way_o of the tag comparison.
HitWays(t) == {w \in Way : rd[w].valid /\ rd[w].tag = t}

\* A request for line l as mem_req_d saves it.
Taken(p, l, s, b) ==
    [state |-> s, tag |-> l[1], idx |-> l[2], we |-> p = 2, way |-> 1,
     data |-> IF p = 2 THEN Next1(val[l]) ELSE 0, bypass |-> b]

\* The way status the miss handler reads.
ValidWays == {w \in Way : rd[w].valid}
DirtyWays == {w \in Way : rd[w].valid /\ rd[w].dirty}

\* req_o of the miss handler, given the grant and the answer of the adapter.
MissRamReq(agnt, aval) ==
    \/ mh.state \in {"INIT", "MISS", "FLUSH_REQ_STATUS"}
    \/ mh.state = "SAVE_CACHELINE" /\ aval
    \/ mh.state \in {"WB_CACHELINE_FLUSH", "WB_CACHELINE_MISS"} /\ agnt
    \/ mh.state = "FLUSHING" /\ DirtyWays = {}

\* req_o of a port; d is the line its client requests in this cycle.
PortRamReq(p, d) ==
    LET s == ctrl[p].state IN
    \/ s = "IDLE" /\ d[p] # None /\ ~flush
    \/ /\ s \in {"WAIT_TAG", "WAIT_TAG_SAVED"}
       /\ d[p] # None \/ ctrl[p].we
       /\ ~flush
    \/ s \in {"STORE_REQ", "WAIT_MSHR"} /\ ~IndexMatches(ctrl[p])
    \/ s = "WAIT_CRITICAL_WORD" /\ d[p] # None

\* gnt_o of the SRAM arbiter: the miss handler first, then port by port.
Gnt(p, d, agnt, aval) ==
    /\ ~MissRamReq(agnt, aval)
    /\ \A q \in Port : q < p => ~PortRamReq(q, d)

-----------------------------------------------------------------------------
(* cache_ctrl: what the FSM of a port does.  in holds the inputs of the     *)
(* cycle (see Inputs below), g is the SRAM grant of the port.               *)

\* IDLE: a new request is looked up, or sent around a disabled cache.
IdleNext(p, in, g) ==
    IF in.d[p] = None \/ flush THEN Idle
    ELSE IF ~ENABLE
         THEN Taken(p, in.d[p], IF p = 2 THEN "WAIT_REFILL_GNT"
                                         ELSE "WAIT_TAG_BYPASSED", TRUE)
    ELSE IF g THEN Taken(p, in.d[p], "WAIT_TAG", FALSE)
    ELSE Idle

\* The tag that the client drives: its own, unless the load unit has gone on
\* to its next instruction while a saved request waits.
DrivenTag(p, in) == IF p = 1 THEN in.tag ELSE ctrl[p].tag

\* WAIT_TAG, WAIT_TAG_SAVED: hit or miss, then the check against the MSHR and
\* last, overriding both, the check for cacheability.
HitNext(p, in, g) ==
    LET c == ctrl[p] IN
    IF c.we THEN [c EXCEPT !.state = "STORE_REQ", !.way = Min(HitWays(c.tag))]
    ELSE IF in.d[p] # None /\ ~flush /\ g
         THEN Taken(p, in.d[p], "WAIT_TAG", FALSE)
    ELSE Idle

MissNext(p, in) ==
    [ctrl[p] EXCEPT !.state = "WAIT_REFILL_GNT", !.tag = DrivenTag(p, in)]

MshrNext(p, in, c) ==
    [c EXCEPT !.state = "WAIT_MSHR",
              !.tag = IF ctrl[p].state = "WAIT_TAG_SAVED" THEN @
                      ELSE DrivenTag(p, in)]

TagNext(p, in, g) ==
    LET c == ctrl[p]
        lookup == IF HitWays(c.tag) # {} THEN HitNext(p, in, g)
                                         ELSE MissNext(p, in)
    IN  IF c.tag \in Uncached
        THEN [c EXCEPT !.state = "WAIT_REFILL_GNT", !.bypass = TRUE,
                       !.tag = DrivenTag(p, in)]
        ELSE IF \/ IndexMatches(c) /\ c.we
                \/ AddrMatches(c, c.tag)
        THEN MshrNext(p, in, IF lookup = Idle THEN c ELSE lookup)
        ELSE lookup

\* STORE_REQ: the write of a store that hit, unless the set is being refilled.
StoreReqNext(p, in, g) ==
    IF IndexMatches(ctrl[p]) THEN [ctrl[p] EXCEPT !.state = "WAIT_MSHR"]
    ELSE IF g THEN Idle ELSE ctrl[p]

WaitMshrNext(p, in, g) ==
    IF ~IndexMatches(ctrl[p]) /\ g
    THEN [ctrl[p] EXCEPT !.state = "WAIT_TAG_SAVED"]
    ELSE ctrl[p]


\* bypass_gnt_o and miss_gnt_o for the port.
BypassGnt(p) ==
    /\ byp = None
    /\ p = Min({q \in Port : /\ ctrl[q].state = "WAIT_REFILL_GNT"
                             /\ ctrl[q].bypass} \cup {3})

MissGnt(p, in) == mh.state = "REQ_CACHELINE" /\ in.agnt /\ mshr.id = p

RefillGntNext(p, in) ==
    LET c == ctrl[p] IN
    IF AddrMatches(c, c.tag) /\ ~ActiveServing(p)
    THEN [c EXCEPT !.state = "WAIT_MSHR"]
    ELSE IF MissGnt(p, in)
         THEN IF c.we THEN Idle ELSE [c EXCEPT !.state = "WAIT_CRITICAL_WORD"]
    ELSE IF BypassGnt(p) THEN [c EXCEPT !.state = "WAIT_REFILL_VALID"]
    ELSE c

CriticalWordNext(p, in, g) ==
    IF ~in.acrit THEN ctrl[p]
    ELSE IF in.d[p] # None /\ g THEN Taken(p, in.d[p], "WAIT_TAG", FALSE)
    ELSE Idle

RefillValidNext(p, in) == IF in.bval /\ byp.id = p THEN Idle ELSE ctrl[p]

Killed(p, in) == p = 1 /\ in.kill

\* The whole FSM; a kill overrides everything.
CtrlNext(p, in, g) ==
    LET s == ctrl[p].state IN
    IF Killed(p, in) THEN Idle ELSE
    CASE s = "IDLE" -> IdleNext(p, in, g)
      [] s \in {"WAIT_TAG", "WAIT_TAG_SAVED"} -> TagNext(p, in, g)
      [] s = "STORE_REQ" -> StoreReqNext(p, in, g)
      [] s = "WAIT_MSHR" -> WaitMshrNext(p, in, g)
      [] s = "WAIT_TAG_BYPASSED" ->
             [ctrl[p] EXCEPT !.state = "WAIT_REFILL_GNT", !.tag = DrivenTag(p, in)]
      [] s = "WAIT_REFILL_GNT" -> RefillGntNext(p, in)
      [] s = "WAIT_CRITICAL_WORD" -> CriticalWordNext(p, in, g)
      [] s = "WAIT_REFILL_VALID" -> RefillValidNext(p, in)

\* data_rvalid and data_rdata of a load that was not killed: the data, or None.
TagHit(p) ==
    /\ ctrl[p].state \in {"WAIT_TAG", "WAIT_TAG_SAVED"}
    /\ HitWays(ctrl[p].tag) # {}

Answer(p, in) ==
    LET c == ctrl[p] IN
    IF Killed(p, in) \/ c = Idle THEN None
    ELSE IF TagHit(p) /\ ~c.we THEN [data |-> rd[Max(HitWays(c.tag))].data]
    ELSE IF c.state = "WAIT_CRITICAL_WORD" /\ in.acrit
         THEN [data |-> mem[axi.line]]
    ELSE IF c.state = "WAIT_REFILL_VALID" /\ in.bval /\ byp.id = p /\ ~c.we
         THEN [data |-> mem[byp.line]]
    ELSE None

\* data_gnt of a store: the cycle in which the store buffer lets go of it.
StoreGnt(p, in, g) ==
    /\ ctrl[p] # Idle /\ ctrl[p].we
    /\ \/ ctrl[p].state = "STORE_REQ" /\ ~IndexMatches(ctrl[p]) /\ g
       \/ ctrl[p].state = "WAIT_REFILL_GNT" /\ (MissGnt(p, in) \/ BypassGnt(p))

-----------------------------------------------------------------------------
(* miss_handler                                                             *)

\* The ports with a miss for the refill machinery, lowest number first.
MissPorts == {p \in Port : /\ ctrl[p].state = "WAIT_REFILL_GNT"
                           /\ ~ctrl[p].bypass}

At(s) == [mh EXCEPT !.state = s]

LastIdx == Max(Idx)

\* IDLE: a miss goes first, then a flush, then an atomic, which flushes the
\* cache in a first round and is executed in a second one.
TakeAmo == amo # None /\ ~Busy /\ MissPorts = {}

MhIdle ==
    IF MissPorts # {} THEN At("MISS")
    ELSE IF flush /\ ~Busy THEN [At("FLUSH_REQ_STATUS") EXCEPT !.cnt = 0]
    ELSE IF TakeAmo
         THEN IF serve_amo THEN At("AMO_LOAD")
                           ELSE [At("FLUSH_REQ_STATUS") EXCEPT !.cnt = 0]
    ELSE mh

\* Fault: the victim is overwritten without being written back.
MhRepl_Drop(victim) ==
    IF ValidWays # Way
    THEN [At("REQ_CACHELINE") EXCEPT !.way = Min(Way \ ValidWays)]
    ELSE [At("REQ_CACHELINE") EXCEPT !.way = victim]

\* MISS_REPL: a free way, or a victim that goes back to memory if it is dirty.
MhRepl(victim) ==
    IF ValidWays # Way
    THEN [At("REQ_CACHELINE") EXCEPT !.way = Min(Way \ ValidWays)]
    ELSE IF rd[victim].dirty
    THEN [At("WB_CACHELINE_MISS") EXCEPT
              !.way = victim, !.cnt = mshr.line[2],
              !.cl = [tag |-> rd[victim].tag, data |-> rd[victim].data]]
    ELSE [At("REQ_CACHELINE") EXCEPT !.way = victim]

\* FLUSHING: the dirty ways one by one, then the next index.
MhFlushing ==
    IF DirtyWays # {}
    THEN LET w == Min(DirtyWays) IN
         [At("WB_CACHELINE_FLUSH") EXCEPT
              !.way = w, !.cl = [tag |-> rd[w].tag, data |-> rd[w].data]]
    ELSE IF mh.cnt = LastIdx THEN [At("IDLE") EXCEPT !.cnt = 0]
    ELSE [At("FLUSH_REQ_STATUS") EXCEPT !.cnt = @ + 1]

\* Fault: the flush is over at the first set without dirty lines.
FlushDone_Early == mh.state = "FLUSHING" /\ DirtyWays = {}

FlushDone == mh.state = "FLUSHING" /\ DirtyWays = {} /\ mh.cnt = LastIdx
FlushAck == FlushDone /\ ~serve_amo

\* AMO_STORE: a load-reserved and a failing store-conditional write nothing.
AmoNoStore ==
    \/ amo.op = "LR"
    \/ amo.op = "SC" /\ (reservation = None \/ reservation.line # amo.line)
AmoAck(in) == mh.state = "AMO_STORE" /\ (AmoNoStore \/ in.aval)
AmoWrites(in) == AmoAck(in) /\ ~AmoNoStore

MhNext(in) ==
    LET s == mh.state IN
    CASE s = "INIT" -> IF mh.cnt = LastIdx THEN [At("IDLE") EXCEPT !.cnt = 0]
                       ELSE [mh EXCEPT !.cnt = @ + 1]
      [] s = "IDLE" -> MhIdle
      [] s = "MISS" -> At("MISS_REPL")
      [] s = "MISS_REPL" -> MhRepl(in.victim)
      [] s = "REQ_CACHELINE" -> IF in.agnt THEN At("SAVE_CACHELINE") ELSE mh
      [] s = "SAVE_CACHELINE" ->
             IF in.aval THEN [At("IDLE") EXCEPT !.way = 1] ELSE mh
      [] s = "WB_CACHELINE_MISS" ->
             IF in.agnt THEN [At("MISS") EXCEPT !.cl = None, !.cnt = 0] ELSE mh
      [] s = "WB_CACHELINE_FLUSH" ->
             IF in.agnt THEN [At("FLUSH_REQ_STATUS") EXCEPT !.cl = None, !.way = 1]
             ELSE mh
      [] s = "FLUSH_REQ_STATUS" -> At("FLUSHING")
      [] s = "FLUSHING" -> MhFlushing
      [] s = "AMO_LOAD" -> IF in.agnt THEN At("AMO_SAVE_LOAD") ELSE mh
      [] s = "AMO_SAVE_LOAD" ->
             IF in.aval THEN [At("AMO_STORE") EXCEPT !.cl = [data |-> mem[amo.line]]]
             ELSE mh
      [] s = "AMO_STORE" ->
             IF AmoAck(in) THEN [At("IDLE") EXCEPT !.cl = None] ELSE mh

MshrNextVal(in) ==
    IF mh.state = "IDLE" /\ MissPorts # {}
    THEN LET p == Min(MissPorts) IN
         [id |-> p, line |-> LineOf(ctrl[p]), we |-> ctrl[p].we,
          data |-> ctrl[p].data]
    ELSE IF mh.state = "SAVE_CACHELINE" /\ in.aval THEN None
    ELSE mshr

\* Fault: a miss between the two rounds of an atomic is forgotten.
ServeAmoNext_Keep ==
    IF mh.state = "IDLE" /\ TakeAmo THEN ~serve_amo ELSE serve_amo

\* Fault: the first round of an atomic leaves no trace.
ServeAmoNext_Lost == FALSE

ServeAmoNext ==
    IF mh.state # "IDLE" THEN serve_amo
    ELSE IF MissPorts # {} THEN FALSE
    ELSE IF TakeAmo THEN ~serve_amo ELSE serve_amo

ReservationNext(in) ==
    IF ~AmoAck(in) THEN reservation
    ELSE CASE amo.op = "LR" -> [line |-> amo.line]
           [] amo.op = "SC" -> None
           [] amo.op = "RMW" -> reservation

\* The write the SRAM performs: the miss handler's, or that of a store that
\* hit and is granted.
MhWrite(in, i, w) ==
    LET e == arr[i][w] IN
    CASE mh.state = "INIT" /\ i = mh.cnt -> Empty
      [] mh.state = "SAVE_CACHELINE" /\ in.aval /\ i = mshr.line[2] /\ w = mh.way ->
             [valid |-> TRUE, dirty |-> mshr.we, tag |-> mshr.line[1],
              data |-> IF mshr.we THEN mshr.data ELSE mem[mshr.line]]
      [] /\ mh.state \in {"WB_CACHELINE_MISS", "WB_CACHELINE_FLUSH"}
         /\ in.agnt /\ i = mh.cnt /\ w = mh.way -> Empty
      [] mh.state = "FLUSHING" /\ DirtyWays = {} /\ i = mh.cnt -> Empty
      [] OTHER -> e

ArrNext(in) ==
    IF \E p \in Port : /\ ctrl[p].state = "STORE_REQ"
                       /\ ~IndexMatches(ctrl[p])
                       /\ Gnt(p, in.d, in.agnt, in.aval)
    THEN LET c == ctrl[2] IN
         [arr EXCEPT ![c.idx][c.way] =
             [@ EXCEPT !.data = c.data, !.dirty = TRUE, !.valid = TRUE]]
    ELSE [i \in Idx |-> [w \in Way |-> MhWrite(in, i, w)]]

-----------------------------------------------------------------------------
(* The SRAM output, the AXI adapters and the ghosts                         *)

TagStates == {"WAIT_TAG", "WAIT_TAG_SAVED"}

\* The index that the winner of the arbitration puts on the SRAM.
RamAddr(in) ==
    IF mh.state = "MISS" THEN mshr.line[2]
    ELSE IF mh.state = "FLUSH_REQ_STATUS" THEN mh.cnt
    ELSE LET p == Min({q \in Port : PortRamReq(q, in.d)}) IN
         IF in.d[p] # None THEN in.d[p][2] ELSE ctrl[p].idx

\* Read data nobody looks at in the next cycle is dropped from the state.
RdNext(in, newctrl, newmh) ==
    IF \/ newmh.state \in {"MISS_REPL", "FLUSHING"}
       \/ \E p \in Port : newctrl[p].state \in TagStates
    THEN arr[RamAddr(in)] ELSE None

\* axi_adapter for cache lines: a request is in flight from its grant to its
\* answer; the critical word of a line read comes before the whole line.
AxiRequest ==
    CASE mh.state = "REQ_CACHELINE" -> [line |-> mshr.line, crit |-> FALSE]
      [] mh.state \in {"WB_CACHELINE_MISS", "WB_CACHELINE_FLUSH"} ->
             [line |-> <<mh.cl.tag, mh.cnt>>, crit |-> TRUE]
      [] mh.state = "AMO_LOAD" -> [line |-> amo.line, crit |-> TRUE]
      [] mh.state = "AMO_STORE" /\ ~AmoNoStore -> [line |-> amo.line, crit |-> TRUE]
      [] OTHER -> None

AxiNext(in) ==
    IF in.agnt THEN AxiRequest
    ELSE IF in.aval THEN None
    ELSE IF in.acrit THEN [axi EXCEPT !.crit = TRUE]
    ELSE axi

\* arbiter: the bypass request of the lowest port is served until its answer.
BypNext(in) ==
    IF in.bval THEN None
    ELSE IF \E p \in Port : BypassGnt(p)
    THEN LET p == CHOOSE q \in Port : BypassGnt(q) IN
         [id |-> p, line |-> LineOf(ctrl[p]), we |-> ctrl[p].we,
          data |-> ctrl[p].data]
    ELSE byp

\* The AMO ALU: an SC stores its operand, the others combine it with the load.
AmoResult == IF amo.op = "SC" THEN amo.data ELSE Next1(mh.cl.data)

MemNext(in) ==
    [l \in Line |->
        IF /\ mh.state \in {"WB_CACHELINE_MISS", "WB_CACHELINE_FLUSH"}
           /\ in.agnt /\ l = AxiRequest.line THEN mh.cl.data
        ELSE IF AmoWrites(in) /\ l = amo.line THEN AmoResult
        ELSE IF in.bval /\ byp.we /\ l = byp.line THEN byp.data
        ELSE mem[l]]

\* data_gnt of a load: the cycle in which the cache takes it.
LoadGnt(p, in, g) ==
    /\ p # 2 /\ in.d[p] # None /\ ~Killed(p, in)
    /\ \/ ctrl[p] = Idle /\ ~flush /\ (g \/ ~ENABLE)
       \/ TagHit(p) /\ ~flush /\ g
       \/ ctrl[p].state = "WAIT_CRITICAL_WORD" /\ in.acrit /\ g

ValNext(in) ==
    [l \in Line |->
        IF /\ 2 \in Port
           /\ StoreGnt(2, in, Gnt(2, in.d, in.agnt, in.aval))
           /\ l = LineOf(ctrl[2]) THEN ctrl[2].data
        ELSE IF AmoWrites(in) /\ l = amo.line THEN Next1(val[l])
        ELSE val[l]]

RefNext(p, in, newval) ==
    IF LoadGnt(p, in, Gnt(p, in.d, in.agnt, in.aval))
    THEN [line |-> in.d[p], seen |-> {val[in.d[p]], newval[in.d[p]]}]
    ELSE IF ref[p] = None \/ Killed(p, in) \/ Answer(p, in) # None THEN None
    ELSE [ref[p] EXCEPT !.seen = @ \cup {newval[ref[p].line]}]

WrongAnswer(p, in) ==
    /\ p # 2 /\ Answer(p, in) # None
    /\ ref[p] = None \/ Answer(p, in).data \notin ref[p].seen
WrongAmo(in) == AmoAck(in) /\ amo.op # "SC" /\ mh.cl.data # val[amo.line]

-----------------------------------------------------------------------------
(* The clock edge and its inputs                                            *)

Cycle(in) ==
    LET g(p) == Gnt(p, in.d, in.agnt, in.aval) IN
    /\ work' = work
    /\ ctrl' = [p \in Port |-> CtrlNext(p, in, g(p))]
    /\ mh' = MhNext(in)
    /\ mshr' = MshrNextVal(in)
    /\ serve_amo' = ServeAmoNext
    /\ reservation' = ReservationNext(in)
    /\ arr' = ArrNext(in)
    /\ rd' = RdNext(in, ctrl', mh')
    /\ axi' = AxiNext(in)
    /\ byp' = BypNext(in)
    /\ mem' = MemNext(in)
    /\ flush' = (in.nflush \/ (flush /\ ~FlushAck))
    /\ amo' = IF AmoAck(in) THEN None ELSE IF amo = None THEN in.namo ELSE amo
    /\ val' = ValNext(in)
    /\ ref' = [p \in Port |-> RefNext(p, in, val')]
    /\ wrong' = (wrong \/ WrongAmo(in) \/ \E p \in Port : WrongAnswer(p, in))

May(b) == IF b THEN BOOLEAN ELSE {FALSE}

\* The lines a client may ask for in this cycle.  The walker waits for its
\* answer; the load unit may have the next load ready when one is answered;
\* the store buffer sends nothing while a flush or an atomic is pending.
Wishes(p, kill, quiet) ==
    LET open == CASE p = 0 -> ctrl[p] = Idle /\ ~flush
                  [] p = 1 -> /\ ~kill
                              /\ \/ ctrl[p].state = "WAIT_CRITICAL_WORD"
                                 \/ (ctrl[p] = Idle \/ TagHit(p)) /\ ~flush
                  [] p = 2 -> ctrl[p] = Idle /\ quiet
    IN  {None} \cup IF p \in Port /\ open THEN Line ELSE {}

\* A flush of the load unit kills its request wherever it is.
MayKill ==
    /\ KILLS # "no" /\ 1 \in Port /\ ctrl[1] # Idle
    /\ \/ KILLS = "late"
       \/ ctrl[1].state # "WAIT_REFILL_GNT"
       \/ ~ActiveServing(1) /\ ~(mh.state = "IDLE" /\ Min(MissPorts \cup {3}) = 1)

LoadTags ==
    IF 1 \notin Port \/ ctrl[1] = Idle THEN {Min(Tag)}
    ELSE IF RETAG /\ ctrl[1].state = "WAIT_TAG_SAVED" THEN Tag
    ELSE {ctrl[1].tag}

Victims == IF mh.state = "MISS_REPL" /\ ValidWays = Way THEN Way ELSE {1}

\* Fences and atomics wait until the store buffer is empty.
StoresDone == 2 \notin Port \/ ctrl[2] = Idle

NewAmos ==
    {None} \cup IF amo = None /\ ~flush /\ StoresDone /\ mh.state # "INIT"
                THEN {[op |-> o, line |-> l, data |-> Next1(val[l])] :
                         o \in AmoOp, l \in Line}
                ELSE {}

Next ==
    \E kill \in May(MayKill), tag \in LoadTags, victim \in Victims,
       agnt \in May(axi = None /\ AxiRequest # None),
       acrit \in May(axi # None /\ ~axi.crit),
       aval \in May(axi # None /\ axi.crit),
       bval \in May(byp # None),
       nflush \in May(FLUSHES /\ ~flush /\ amo = None /\ StoresDone),
       namo \in NewAmos :
    /\ ~(nflush /\ namo # None)
    /\ LET quiet == ~flush /\ amo = None /\ ~nflush /\ namo = None IN
       \E ptw \in Wishes(0, kill, quiet), load \in Wishes(1, kill, quiet),
          store \in Wishes(2, kill, quiet) :
          Cycle([kill |-> kill, tag |-> tag, victim |-> victim,
                 agnt |-> agnt, acrit |-> acrit, aval |-> aval, bval |-> bval,
                 nflush |-> nflush, namo |-> namo,
                 d |-> [p \in Port |-> <<ptw, load, store>>[p + 1]]])

Spec == Init /\ [][Next]_vars

-----------------------------------------------------------------------------
(* Properties                                                               *)

CtrlStates == {"WAIT_TAG", "WAIT_TAG_SAVED", "STORE_REQ", "WAIT_MSHR",
               "WAIT_TAG_BYPASSED", "WAIT_REFILL_GNT", "WAIT_CRITICAL_WORD",
               "WAIT_REFILL_VALID"}

Copies(l) == {w \in Way : arr[l[2]][w].valid /\ arr[l[2]][w].tag = l[1]}

\* Where the newest value of a line is: in a store the miss handler has
\* accepted, in the cache, in an accepted uncached store, or in memory.
Newest(l) ==
    IF mh.state = "SAVE_CACHELINE" /\ mshr.line = l /\ mshr.we THEN mshr.data
    ELSE IF Copies(l) # {} THEN arr[l[2]][Min(Copies(l))].data
    ELSE IF byp # None /\ byp.we /\ byp.line = l THEN byp.data
    ELSE mem[l]

\* No accepted store is ever lost and no old value comes back: through hits,
\* refills, evictions, flushes and atomics, the newest value the cache system
\* holds of a line is the one the program last wrote (cache_ctrl's STORE_REQ
\* check, miss_handler's write-back and merge).
MemoryExact == mh.state # "INIT" => \A l \in Line : Newest(l) = val[l]

\* A load or page table read that is not killed, and an atomic, gets a value
\* that its line held between the grant of the request and the answer.
LoadExact == ~wrong

\* A line is never valid in two ways ("Hit should be one-hot encoded",
\* tag_cmp.sv), however misses of the three ports for it follow each other.
OneCopy == mh.state # "INIT" => \A l \in Line : \A v, w \in Copies(l) : v = w

\* no_valid_on_mshr_match of cache_ctrl.sv: a port that finds the line it looks
\* up in the MSHR, being served for another port, does not also hit on it.
NoValidOnMshrMatch ==
    \A p \in Port :
        /\ ctrl[p].state \in TagStates
        /\ AddrMatches(ctrl[p], ctrl[p].tag) /\ ~ActiveServing(p)
        => HitWays(ctrl[p].tag) = {}

\* A line is in one place: in one way, or on its way into the cache.
OnePlace == OneCopy /\ NoValidOnMshrMatch

\* "the cache is clean at this point" (miss_handler.sv): while an atomic works
\* on memory directly, no line of the cache is valid, and none is being filled.
AmoOnEmptyCache ==
    mh.state \in {"AMO_LOAD", "AMO_SAVE_LOAD", "AMO_STORE"} =>
        /\ \A l \in Line : Copies(l) = {}
        /\ mshr = None

\* The acknowledge of a flush comes when memory holds everything: no line is
\* left in the cache and no write is still with a port.
FlushComplete ==
    [][flush /\ ~flush' =>
          /\ \A i \in Idx, w \in Way : ~arr'[i][w].valid
          /\ mem' = val']_vars

-----------------------------------------------------------------------------
(* Liveness.  The clock ticks, and the AXI slaves answer: a request the     *)
(* adapters have made is granted, and a granted one completes.              *)

\* Whatever the ports, the miss handler and its arbiter have got into, one of
\* them can still move: no reachable state has them all wait for each other
\* (LiveSpec, which asks for steps for ever, would leave that case out).
NeverStuck == ENABLED <<Next>>_vars

LiveSpec ==
    /\ Spec
    /\ []<><<TRUE>>_vars
    /\ []<>~(axi = None /\ AxiRequest # None)
    /\ []<>(axi = None)
    /\ []<>(byp = None)

Waiting == CtrlStates \ {"WAIT_TAG"}

\* The walker's reads are always answered.  A load waits forever only if the
\* walker keeps coming, a store only if walker or loads do (fixed priority of
\* tag_cmp and of the miss handler's IDLE state); with the window of the core
\* bounding those, every request ends.
PortProgress ==
    \A p \in 0..2 :
        <>[](p \in Port /\ ctrl[p].state \in Waiting) =>
            []<>(\E q \in Port : q < p /\ ctrl[q] # Idle)

\* A flush is always acknowledged, and an atomic ("lowest priority are AMOs",
\* miss_handler.sv) waits forever only if the ports are never done.
FlushAmoProgress ==
    /\ flush ~> ~flush
    /\ <>[](amo # None) => []<>Busy

\* The cache never waits for itself, and what it owes its ports, a flush and
\* an atomic is done one day.
DCacheProgress == []NeverStuck /\ PortProgress /\ FlushAmoProgress
=============================================================================
