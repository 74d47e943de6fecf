------------------------------ MODULE WtDCache ------------------------------
(***************************************************************************)
(* The write-through data cache (wt_dcache.sv): a read controller for the  *)
(* page table walker (port 0) and one for the load unit (port 1), the      *)
(* write buffer (port 2, module WtWbuffer), the miss unit they share, the  *)
(* tag and data arrays with their arbiter, and the request and return path *)
(* of wt_axi_adapter.sv.  One step is one clock edge.                      *)
(*                                                                         *)
(* flush_i is low for ever: with this cache, controller.sv never raises    *)
(* it.  FLUSH is entered after reset and when the cache is enabled.        *)
(***************************************************************************)
EXTENDS WtWbuffer

CONSTANT REQ_DEPTH  \* ReqFifoDepth of wt_axi_adapter

VARIABLES
    ctrl,      \* per read port: state_q and the address of wt_dcache_ctrl
    mu,        \* wt_dcache_missunit: state_q, cnt_q, the port it is locked to
    en,        \* enable_q
    mshr,      \* mshr_q, with mshr_vld_q; kept a cycle longer (mshr_vld_q1)
    collided,  \* mshr_rdrd_collision_q: a set of read ports
    inflight,  \* stores_inflight_q
    arr,       \* tags and data: arr[idx][way]
    sram,      \* what the arrays drive, read in the previous cycle
    reqs,      \* i_dcache_data_fifo
    rdtx,      \* the read or atomic in flight behind the adapter
    wrtx,      \* the writes in flight behind the adapter, in order
    mem_rtrn,  \* dcache_rtrn_o
    mem,       \* memory behind AXI
    enable_i,  \* the enable bit of the CSR
    amo,       \* amo_req_i, held until it is acknowledged
    val        \* ghost: what each word holds for the program

vars == <<work, wbVars, ctrl, mu, en, mshr, collided, inflight, arr, sram,
          reqs, rdtx, wrtx, mem_rtrn, mem, enable_i, amo, val>>

Port == Workloads[work].port     \* the read ports in use
Way == Workloads[work].way       \* 1..DCACHE_SET_ASSOC
STORES == Workloads[work].store  \* the words the core writes
LOADS == Workloads[work].load    \* the words it reads
KILLS == Workloads[work].kill    \* does the load unit kill its requests?
TOGGLE == Workloads[work].toggle \* does the core switch the cache on and off?
AmoOp == Workloads[work].amo     \* the atomic operations it issues
ONCE == Workloads[work].once     \* is a byte written once at most?

ASSUME WtAssumption ==
    /\ REQ_DEPTH \in Nat \ {0}
    /\ \A n \in DOMAIN Workloads : LET k == Workloads[n] IN
        /\ k.port \subseteq 0..1 /\ k.way = 1..Max(k.way)
        /\ k.store \cup k.load \subseteq k.tag \X k.idx \X k.off
        /\ {k.kill, k.toggle, k.once} \subseteq BOOLEAN
        /\ k.amo \subseteq {"LR", "SC", "RMW"}

Idle == [state |-> "IDLE"]
EmptyWay == [valid |-> FALSE, tag |-> 0, data |-> [o \in Off |-> Free.data]]
NoRtrn == [type |-> "none"]
Nil == <<>>  \* no word, no data

\* Reset.  The arrays are cleared before anything else.
Init ==
    /\ work \in DOMAIN Workloads
    /\ WbInit
    /\ ctrl = [p \in Port |-> Idle]
    /\ mu = [state |-> "FLUSH", cnt |-> 0, port |-> 2]
    /\ en = FALSE /\ mshr = None /\ collided = {} /\ inflight = 0
    /\ \E t \in {0} \cup Tag :
          arr = [i \in Idx |-> [w \in Way |->
                    [EmptyWay EXCEPT !.tag = t, !.valid = (t # 0)]]]
    /\ sram = Nil /\ reqs = <<>> /\ rdtx = None /\ wrtx = <<>>
    /\ mem_rtrn = NoRtrn
    /\ mem = [x \in Word |-> Free.data]
    /\ enable_i = TRUE /\ amo = None
    /\ val = mem

-----------------------------------------------------------------------------
(* Responses of the adapter, and what they write to the arrays              *)

MshrVld == mshr # None /\ mshr.vld

load_ack == mem_rtrn.type = "load" /\ MshrVld
store_ack == mem_rtrn.type = "store" /\ inflight # 0
amo_ack == mem_rtrn.type = "amo" /\ amo # None
inv_vld == mem_rtrn.type = "inv"
flush_en == mu.state = "FLUSH"

wr_cl_vld == load_ack \/ inv_vld \/ flush_en

\* The index on the line write port, and the ways that are written.
wr_cl_idx == CASE flush_en -> mu.cnt
               [] ~flush_en /\ inv_vld -> mem_rtrn.idx
               [] OTHER -> mshr.word[2]
wr_cl_we == IF flush_en \/ inv_vld THEN Way
            ELSE IF load_ack /\ ~mshr.nc THEN {mshr.way} ELSE {}

-----------------------------------------------------------------------------
(* The arbiter of the arrays                                                *)

Reading(p) == ctrl[p].state \in {"READ", "REPLAY_READ"}

rd_req(p, new) == CASE p = 2 -> ToCheck # {}
                    [] p # 2 -> \/ ctrl[p] = Idle /\ new[p] # Nil
                                \/ Reading(p) \/ ctrl[p].state = "REPLAY_REQ"

\* Walker and load unit before the write buffer; among them, in turns.
Winners(new) ==
    LET high == {p \in Port : rd_req(p, new)} IN
    IF high # {} THEN high ELSE IF rd_req(2, new) THEN {2} ELSE {No}

rd_ack(p, win) == p = win /\ ~wr_cl_vld

\* The ways of the set that was read in which the tag is found.
HitWays(t) == {w \in Way : sram[w].valid /\ sram[w].tag = t}

\* A read that hits.  A line write in this cycle takes over the read data.
Hit(p) == Reading(p) /\ ~wr_cl_vld /\ HitWays(ctrl[p].word[1]) # {} /\ en

\* data_gnt of a read port; new[1] is Nil when the load unit kills.
Gnt(p, new, win) ==
    new[p] # Nil /\ rd_ack(p, win) /\ (ctrl[p] = Idle \/ Hit(p))

rd_off(p, new, win) == IF Gnt(p, new, win) THEN new[p][3] ELSE ctrl[p].word[3]

\* Fault: a word is written although its bank is being read.
wr_ack_Collide(new, win) == wr_req /\ ~(wr_cl_vld /\ wr_cl_we # {})

\* Every offset has a bank of its own.  A line write needs all of them, and a
\* word write waits for a read of its offset; a tag lookup reads no bank.
wr_ack(new, win) ==
    /\ wr_req /\ ~(wr_cl_vld /\ wr_cl_we # {})
    /\ \/ win \in {No, 2} \/ ~rd_ack(win, win)
       \/ rd_off(win, new, win) # wb[rtrn.ptr].word[3]

-----------------------------------------------------------------------------
(* The miss unit                                                            *)

miss_req(p) == CASE p = 2 -> Dirty # {} /\ FreeTx # {}
                 [] p # 2 -> ctrl[p].state \in {"MISS_REQ", "KILL_MISS_ACK"}

\* While a read is in flight, and while draining, only stores are served; a
\* request that was not accepted stays in front.
miss_req_masked ==
    CASE mu.state \in {"LOAD_WAIT", "STORE_WAIT"} -> {mu.port}
      [] mu.state = "DRAIN" \/ MshrVld -> {p \in {2} : miss_req(p)}
      [] OTHER -> {p \in Port \cup {2} : miss_req(p)}
miss_port == Min(miss_req_masked \cup {3})

SameLine(x, y) == LineOf(x) = LineOf(y)

rdrd_collision(p) == mshr # None /\ SameLine(mshr.word, ctrl[p].word)

\* Fault: a miss is served although its line has come in meanwhile.
rdrd_collision_d_Never(p) == FALSE

\* Remembered as long as the miss is requested.
rdrd_collision_d(p) == miss_req(p) /\ (p \in collided \/ rdrd_collision(p))

mshr_rdwr_collision(ptr) == MshrVld /\ SameLine(mshr.word, wb[ptr].word)

tx_rdwr_collision(p) ==
    \E i \in TxId \ FreeTx : SameLine(wb[tx[i].ptr].word, ctrl[p].word)

Enabling == enable_i /\ ~en

Drained == Empty /\ ~MshrVld
Serving == mu.state = "IDLE" /\ ~Enabling /\ amo = None

miss_replay(p) == Serving /\ miss_port = p /\ rdrd_collision_d(p)

\* mem_data_req_o and mem_data_o.rtype.  ptr is the store that the buffer
\* offers; over, that an LR need no longer back off.
mem_data_req(ptr, over) ==
    CASE \/ mu.state = "STORE_WAIT"
         \/ /\ Serving \/ mu.state = "DRAIN"
            /\ miss_port = 2 /\ ~mshr_rdwr_collision(ptr) -> "store"
      [] \/ mu.state = "LOAD_WAIT"
         \/ /\ Serving /\ miss_port \in Port
            /\ ~miss_replay(miss_port) /\ ~tx_rdwr_collision(miss_port) -> "load"
      [] mu.state = "AMO" /\ (amo.op = "LR" => over) -> "amo"
      [] OTHER -> "none"

mem_data_ack == Len(reqs) < REQ_DEPTH

miss_ack(p, req) == req \in {"load", "store"} /\ mem_data_ack /\ miss_port = p

\* Fault: the atomic starts while stores are still in the buffer.
MuIdle_NoDrain(req) ==
    CASE Enabling -> IF Drained THEN "FLUSH" ELSE "DRAIN"
      [] ~Enabling /\ amo # None -> IF ~MshrVld THEN "AMO" ELSE "DRAIN"
      [] Serving /\ req = "store" /\ ~mem_data_ack -> "STORE_WAIT"
      [] Serving /\ req = "load" /\ ~mem_data_ack -> "LOAD_WAIT"
      [] OTHER -> "IDLE"

MuIdle(req) ==
    CASE Enabling -> IF Drained THEN "FLUSH" ELSE "DRAIN"
      [] ~Enabling /\ amo # None -> IF Drained THEN "AMO" ELSE "DRAIN"
      [] Serving /\ req = "store" /\ ~mem_data_ack -> "STORE_WAIT"
      [] Serving /\ req = "load" /\ ~mem_data_ack -> "LOAD_WAIT"
      [] OTHER -> "IDLE"

flush_done == mu.cnt = Max(Idx)

MuState(req) ==
    CASE mu.state = "IDLE" -> MuIdle(req)
      [] mu.state \in {"STORE_WAIT", "LOAD_WAIT"} ->
             IF mem_data_ack THEN "IDLE" ELSE mu.state
      [] mu.state = "DRAIN" -> IF Drained THEN "IDLE" ELSE "DRAIN"
      [] mu.state = "FLUSH" -> IF flush_done THEN "IDLE" ELSE "FLUSH"
      [] mu.state = "AMO" -> IF req = "amo" /\ mem_data_ack THEN "AMO_WAIT" ELSE "AMO"
      [] mu.state = "AMO_WAIT" -> IF amo_ack THEN "IDLE" ELSE "AMO_WAIT"

\* miss_port is kept for the states that wait, the counter for FLUSH.
MuNext(req) ==
    LET s == MuState(req) IN
    [state |-> s,
     cnt   |-> IF flush_en /\ ~flush_done THEN mu.cnt + 1 ELSE 0,
     port  |-> IF s \in {"LOAD_WAIT", "STORE_WAIT"} THEN miss_port ELSE 2]

\* The way is an invalid one or random; miss_vld_bits may be those of another
\* set by the time the miss is served, so that any way is possible.
MshrNext(req, way) ==
    IF req = "load" /\ mem_data_ack
    THEN LET p == miss_port IN
         [word |-> ctrl[p].word, nc |-> addr_is_nc(ctrl[p].word, en),
          way |-> way, port |-> p, vld |-> TRUE]
    ELSE IF MshrVld THEN [mshr EXCEPT !.vld = ~load_ack] ELSE None

InflightNext(sent) ==
    inflight + (IF sent THEN 1 ELSE 0) - (IF store_ack THEN 1 ELSE 0)

-----------------------------------------------------------------------------
(* The read controllers                                                     *)

Moved(p, s) == [ctrl[p] EXCEPT !.state = s]

CtrlNext(p, new, win, kill, req) ==
    LET s == ctrl[p].state
        stop == kill /\ p = 1
        ack == miss_ack(p, req)
        back == load_ack /\ mshr.port = p
    IN
    CASE Gnt(p, new, win) -> [state |-> "READ", word |-> new[p]]
      [] Reading(p) /\ ~Gnt(p, new, win) ->
             IF stop THEN Idle ELSE IF wr_cl_vld THEN Moved(p, "REPLAY_REQ")
             ELSE IF Hit(p) THEN Idle ELSE Moved(p, "MISS_REQ")
      [] s = "MISS_REQ" ->
             IF stop THEN Moved(p, IF ack THEN "KILL_MISS" ELSE "KILL_MISS_ACK")
             ELSE IF miss_replay(p) THEN Moved(p, "REPLAY_REQ")
             ELSE IF ack THEN Moved(p, "MISS_WAIT") ELSE ctrl[p]
      [] s = "MISS_WAIT" ->
             IF back THEN Idle ELSE IF stop THEN Moved(p, "KILL_MISS") ELSE ctrl[p]
      [] s = "REPLAY_REQ" ->
             IF stop THEN Idle
             ELSE IF rd_ack(p, win) THEN Moved(p, "REPLAY_READ") ELSE ctrl[p]
      [] s = "KILL_MISS_ACK" ->
             IF miss_replay(p) THEN Idle
             ELSE IF ack THEN Moved(p, "KILL_MISS") ELSE ctrl[p]
      [] s = "KILL_MISS" -> IF back THEN Idle ELSE ctrl[p]
      [] OTHER -> ctrl[p]

\* data_rdata of a read that is answered in this cycle unless it is killed.
\* The data of a return comes before that of the arrays, the buffer before both.
Answer(p) ==
    CASE Hit(p) ->
             Overlay(ctrl[p].word, sram[Min(HitWays(ctrl[p].word[1]))].data)
      [] ctrl[p].state = "MISS_WAIT" /\ load_ack /\ mshr.port = p ->
             Overlay(mshr.word, mem_rtrn.data[IF mshr.nc THEN 0 ELSE mshr.word[3]])
      [] OTHER -> Nil

-----------------------------------------------------------------------------
(* The arrays                                                               *)

ArrNext(ack) ==
    [i \in Idx |-> [w \in Way |->
        IF wr_cl_vld /\ i = wr_cl_idx /\ w \in wr_cl_we
        THEN IF flush_en \/ inv_vld THEN EmptyWay
             ELSE [valid |-> TRUE, tag |-> mshr.word[1], data |-> mem_rtrn.data]
        ELSE IF ack /\ i = wb[rtrn.ptr].word[2] /\ w \in wb[rtrn.ptr].hit
        THEN [arr[i][w] EXCEPT !.data[wb[rtrn.ptr].word[3]] =
                 [b \in Byte |-> IF b \in wr_data_be THEN wb[rtrn.ptr].data[b]
                                 ELSE @[b]]]
        ELSE arr[i][w]]]

\* What the arrays drive in the next cycle, if a port looks at it then.
SramNext(new, win, look) ==
    IF ~wr_cl_vld /\ win = 2 THEN
        [w \in Way |-> [arr[wb[look].word[2]][w] EXCEPT !.data = Free.data]]
    ELSE IF ~wr_cl_vld /\ win # No /\ (Gnt(win, new, win) \/ ctrl[win].state = "REPLAY_REQ")
    THEN LET x == IF Gnt(win, new, win) THEN new[win] ELSE ctrl[win].word IN
         [w \in Way |-> [arr[x[2]][w] EXCEPT !.data = @[x[3]]]]
    ELSE Nil

-----------------------------------------------------------------------------
(* The adapter and the memory behind it.  A write takes effect before its   *)
(* response; a read returns what memory holds when it is granted, or when   *)
(* it is answered.                                                          *)

Request(req, ptr) ==
    CASE req = "load" ->
             [type |-> "load", word |-> ctrl[miss_port].word,
              nc |-> addr_is_nc(ctrl[miss_port].word, en)]
      [] req = "store" ->
             [type |-> "store", word |-> wb[ptr].word, data |-> wb[ptr].data,
              be |-> tx_be(ptr), tid |-> Min(FreeTx)]
      [] req = "amo" -> [type |-> "amo", word |-> amo.word]

ReqsNext(req, ptr, gnt) ==
    (IF gnt THEN Tail(reqs) ELSE reqs)
    \o (IF req # "none" /\ mem_data_ack THEN <<Request(req, ptr)>> ELSE <<>>)

LineData(r) ==
    [o \in IF r.nc THEN {0} ELSE Off |->
        mem[IF r.nc THEN r.word ELSE <<r.word[1], r.word[2], o>>]]

RdtxNext(gnt, early, rsp) ==
    IF gnt /\ Head(reqs).type = "load"
    THEN [req |-> Head(reqs), data |-> IF early THEN LineData(Head(reqs)) ELSE Nil]
    ELSE IF gnt /\ Head(reqs).type = "amo"
    THEN [req |-> Head(reqs), data |-> Nil]
    ELSE IF rsp = "read" THEN None ELSE rdtx

WrtxNext(gnt, rsp) ==
    (IF rsp = "write" THEN Tail(wrtx) ELSE wrtx)
    \o (IF gnt /\ Head(reqs).type = "store" THEN <<Head(reqs)>> ELSE <<>>)

\* An atomic is turned into an invalidation of its set when it is granted.
invalidate(gnt) == gnt /\ Head(reqs).type = "amo"

RtrnNext(gnt, rsp) ==
    CASE invalidate(gnt) -> [type |-> "inv", idx |-> Head(reqs).word[2]]
      [] rsp = "read" /\ rdtx.req.type = "amo" -> [type |-> "amo"]
      [] rsp = "read" /\ rdtx.req.type = "load" ->
             [type |-> "load", data |-> IF rdtx.data # Nil THEN rdtx.data
                                        ELSE LineData(rdtx.req)]
      [] rsp = "write" -> [type |-> "store", tid |-> Head(wrtx).tid]
      [] OTHER -> NoRtrn

Merge(old, data, be) == [b \in Byte |-> IF b \in be THEN data[b] ELSE old[b]]
Flip(old) == [b \in Byte |-> 1 - old[b]]

\* An atomic that writes: a read-modify-write, or an SC that succeeds.
AmoWrites(rsp, ok) ==
    /\ rsp = "read" /\ rdtx.req.type = "amo"
    /\ amo.op = "RMW" \/ (amo.op = "SC" /\ ok)

MemNext(rsp, ok) ==
    CASE rsp = "write" ->
             [mem EXCEPT ![Head(wrtx).word] = Merge(@, Head(wrtx).data, Head(wrtx).be)]
      [] AmoWrites(rsp, ok) -> [mem EXCEPT ![amo.word] = Flip(@)]
      [] OTHER -> mem

ValNext(st, rsp, ok) ==
    CASE data_gnt(st, en) -> [val EXCEPT ![st.word] = Merge(@, st.data, st.be)]
      [] AmoWrites(rsp, ok) -> [val EXCEPT ![amo.word] = Flip(@)]
      [] OTHER -> val

-----------------------------------------------------------------------------
(* One clock edge                                                           *)

Cycle(new, win, look, kill, st, ptr, over, way, gnt, early, rsp, ok, toggle, namo) ==
    LET req == mem_data_req(ptr, over)
        sent == req = "store" /\ mem_data_ack
    IN
    /\ work' = work
    /\ WbufferStep(IF wr_cl_vld THEN wr_cl_idx ELSE No,
                   IF check = None THEN {} ELSE HitWays(check.tag),
                   wr_ack(new, win), sent, ptr, st, en,
                   IF store_ack THEN mem_rtrn.tid ELSE No, look)
    /\ ctrl' = [p \in Port |-> CtrlNext(p, new, win, kill, req)]
    /\ mu' = MuNext(req)
    /\ en' = IF flush_en /\ flush_done THEN enable_i ELSE en /\ enable_i
    /\ mshr' = MshrNext(req, way)
    /\ collided' = {p \in Port : rdrd_collision_d(p)}
    /\ inflight' = InflightNext(sent)
    /\ arr' = ArrNext(wr_ack(new, win))
    /\ sram' = SramNext(new, win, look)
    /\ reqs' = ReqsNext(req, ptr, gnt)
    /\ rdtx' = RdtxNext(gnt, early, rsp)
    /\ wrtx' = WrtxNext(gnt, rsp)
    /\ mem_rtrn' = RtrnNext(gnt, rsp)
    /\ mem' = MemNext(rsp, ok)
    /\ enable_i' = (enable_i # toggle)
    /\ amo' = IF mu.state = "AMO_WAIT" /\ amo_ack THEN None
              ELSE IF amo = None THEN namo ELSE amo
    /\ val' = ValNext(st, rsp, ok)

May(b) == IF b THEN BOOLEAN ELSE {FALSE}

\* The words a client may ask for.  The walker waits for its answer; the load
\* unit may have the next load ready when one is answered.  A request that
\* cannot be granted in this cycle makes no difference.
Wishes(p, kill) ==
    {Nil} \cup
    IF p \in Port /\ ~wr_cl_vld /\ (ctrl[p] = Idle \/ (p = 1 /\ Hit(1) /\ ~kill))
    THEN LOADS ELSE {}

\* A flush of the load unit kills its request wherever it is.
MayKill == KILLS /\ 1 \in Port /\ ctrl[1].state \notin {"IDLE", "KILL_MISS_ACK", "KILL_MISS"}

\* Stores that change what a byte of the word holds.
Stores ==
    {None} \cup
    IF amo # None THEN {}
    ELSE {s \in {[word |-> x, be |-> be, data |-> Flip(val[x])] :
                    x \in STORES, be \in {{b} : b \in Byte}} :
             data_gnt(s, en) /\ (ONCE => \A b \in s.be : s.data[b] = 1)}

\* The core issues an atomic when the store buffer is empty.
NewAmos ==
    {None} \cup IF amo = None THEN [op : AmoOp, word : STORES] ELSE {}

Responses ==
    {"none"} \cup (IF rdtx # None THEN {"read"} ELSE {})
             \cup (IF wrtx # <<>> THEN {"write"} ELSE {})

Next ==
    \E kill \in May(MayKill), ptr \in DirtyPtrs,
       gnt \in May(reqs # <<>> /\ Len(wrtx) < MAX_TX),
       rsp \in Responses, toggle \in May(TOGGLE), namo \in NewAmos,
       over \in May(mu.state = "AMO" /\ amo.op = "LR") :
    \E ptw \in Wishes(0, kill), load \in Wishes(1, kill),
       st \in IF namo = None THEN Stores ELSE {None},
       early \in May(gnt /\ Head(reqs).type = "load"),
       ok \in May(rsp = "read" /\ amo # None /\ amo.op = "SC"),
       way \in IF mem_data_req(ptr, over) = "load" /\ mem_data_ack THEN Way ELSE {1} :
    LET new == [p \in Port |-> <<ptw, load>>[p + 1]] IN
    \E win \in Winners(new) :
    \E look \in IF win = 2 /\ ~wr_cl_vld THEN ToCheck ELSE {No} :
       /\ invalidate(gnt) => rsp = "none"
       /\ Cycle(new, win, look, kill, st, ptr, over, way, gnt, early, rsp, ok,
                toggle, namo)

Spec == Init /\ [][Next]_vars

-----------------------------------------------------------------------------
(* Properties                                                               *)

CtrlStates == {"READ", "REPLAY_READ", "MISS_REQ", "MISS_WAIT", "REPLAY_REQ",
               "KILL_MISS_ACK", "KILL_MISS"}

\* Where transaction i is on its way to memory and back.
Places(i) ==
    {<<"reqs", j>> : j \in {n \in DOMAIN reqs : reqs[n].type = "store" /\ reqs[n].tid = i}}
    \cup {<<"wrtx", j>> : j \in {n \in DOMAIN wrtx : wrtx[n].tid = i}}
    \cup {<<"mem_rtrn", 1>> : j \in {n \in {1} : mem_rtrn.type = "store" /\ mem_rtrn.tid = i}}
    \cup {<<"rtrn_ids", j>> : j \in {n \in DOMAIN rtrn_ids : rtrn_ids[n] = i}}

\* Transactions and buffer entries agree: an allocated transaction is in one
\* place between the miss unit and i_rtrn_id_fifo and a free one nowhere; the
\* blocked bytes of an entry are those of its transactions, valid, and in one
\* transaction only; a valid byte is dirty or blocked, so that it leaves one
\* day (byteStates of wt_dcache_wbuffer.sv); the counter of the miss unit is
\* the number of transactions that have not come back.
TxExact ==
    /\ \A i \in TxId : Cardinality(Places(i)) = IF tx[i] = None THEN 0 ELSE 1
    /\ \A k \in Entry :
          /\ wb[k].txblock =
                UNION {tx[i].be : i \in {n \in TxId \ FreeTx : tx[n].ptr = k}}
          /\ wb[k].valid = wb[k].dirty \cup wb[k].txblock
    /\ \A i, j \in TxId \ FreeTx :
          i # j /\ tx[i].ptr = tx[j].ptr => tx[i].be \cap tx[j].be = {}
    /\ inflight = Cardinality(TxId \ FreeTx) - Len(rtrn_ids)

Buffered(x, b) == \E k \in HitEntries(x) : b \in wb[k].valid

\* No store is lost, and no old value overwrites a newer one: a byte is in the
\* buffer with the value that the program last gave it, or memory has it.
MemoryExact ==
    \A x \in Word : Overlay(x, mem[x]) = val[x]

\* Cleared(i): the arrays have been cleared since reset or the last enable.
Cleared(i) == mu.state = "FLUSH" => i < mu.cnt

\* The cache holds nothing stale: every byte of a valid line that is not still
\* in the buffer is the newest.  A store learns where its word is cached from
\* a lookup, and refills, invalidations and evictions may come between that
\* and the write (inval_hit and checked of wt_dcache_wbuffer.sv).
CopiesExact ==
    \A x \in Word, w \in Way : LET c == arr[x[2]][w] IN
        Cleared(x[2]) /\ c.valid /\ c.tag = x[1] =>
            \A b \in Byte : Buffered(x, b) \/ c.data[x[3]][b] = val[x][b]

\* A read is answered with what the word holds in that very cycle, be it from
\* the arrays, from a return of the adapter or from the buffer
\* (wt_dcache_ctrl.sv, and the multiplexers of wt_dcache_mem.sv).
LoadExact == \A p \in Port : Answer(p) # Nil => Answer(p) = val[ctrl[p].word]

\* A line is never valid in two ways, although a port decides to fetch it long
\* before the miss unit does (tag_write_duplicate of wt_dcache_mem.sv:
\* "cannot allocate a CL that is already present in the cache").
OneCopy ==
    \A x \in Word : Cleared(x[2]) =>
        Cardinality({w \in Way : arr[x[2]][w].valid /\ arr[x[2]][w].tag = x[1]}) <= 1

\* A word is in one entry of the buffer at most ("wbuffer_hit_oh signal
\* must be hot1", wt_dcache_wbuffer.sv).
OneEntry == \A x \in Word : Cardinality(HitEntries(x)) <= 1

\* A line has one way and a word one entry, so that a lookup finds the newest.
OnePlace == OneCopy /\ OneEntry

\* "the dcache drains all writes/reads before executing an atomic"
\* (wt_axi_adapter.sv): an atomic is alone behind the miss unit from its
\* request to its response, and finds in memory what the program wrote.
AmoExclusive ==
    mu.state \in {"AMO", "AMO_WAIT"} =>
        /\ Empty /\ ~MshrVld /\ wrtx = <<>>
        /\ Len(reqs) + (IF rdtx = None THEN 0 ELSE 1) <= 1
        /\ mem[amo.word] = val[amo.word]

\* An uncached store has the buffer for itself, so that stores to a device
\* are neither merged with others nor reordered (note 4 of
\* wt_dcache_wbuffer.sv).
NcExclusive ==
    \A k \in Valid : wb[k].word[1] \in Uncached => Valid = {k} /\ nc_pending

\* What memory must see alone, it sees alone: an atomic finds nothing else
\* under way, and an uncached store nothing else in the write buffer.
Exclusive == AmoExclusive /\ NcExclusive

-----------------------------------------------------------------------------
(* Liveness.  The clock ticks; the bus accepts a request and answers it one *)
(* day; the back-off of an LR ends; the CSR bit settles; the arbiters take  *)
(* turns.                                                                   *)

\* Whatever the ports, the buffer and the miss unit have got into, one of them
\* can still move: no reachable state has them all wait for each other.
NeverStuck == ENABLED <<Next>>_vars

\* The head of the request queue is granted; a write is answered.
Granted ==
    \/ rdtx = None /\ rdtx' # None
    \/ \E j \in DOMAIN wrtx' : Head(reqs).type = "store" /\ wrtx'[j].tid = Head(reqs).tid
Answered == mem_rtrn'.type = "store"


\* Entry k is looked up; the word at the head of the queue leaves the buffer.
\* Reads go first in the arrays, but a core whose stores or atomics wait fills
\* its window and leaves gaps.
LookedUp(k) == check' # None /\ check'.ptr = k
Left == rtrn_ids # <<>> /\ tx'[Head(rtrn_ids)] = None

LiveSpec ==
    /\ Spec
    /\ []<><<TRUE>>_vars
    /\ []<><<reqs = <<>> \/ Granted>>_vars
    /\ []<>(rdtx = None)
    /\ []<><<wrtx = <<>> \/ Answered>>_vars
    /\ []<>~(mu.state = "AMO" /\ amo.op = "LR")
    /\ <>[][enable_i' = enable_i]_vars
    /\ \A k \in Entry : <>[](k \notin ToCheck) \/ []<><<LookedUp(k)>>_vars
    /\ []<><<~wr_req \/ Left>>_vars

\* A read that has missed, or has to be replayed, ends.  Stores to other
\* lines never hold it up for ever; the other read port can, and stores to its
\* own line, as each of them makes the buffer look its word up again.
PortProgress ==
    \A p \in 0..1 :
        <>[](p \in Port /\ ctrl[p].state \in CtrlStates \ {"READ"}) =>
            \/ []<>(\E q \in Port \ {p} : ctrl[q] # Idle)
            \/ []<><<\E x \in Word : /\ val'[x] # val[x]
                                     /\ p \in Port /\ ctrl[p] # Idle
                                     /\ SameLine(x, ctrl[p].word)>>_vars

\* When the core stops storing, the buffer drains: fences, which wait for
\* wbuffer_empty_o, complete.
StoreProgress == <>[][val' = val]_vars => []<>Empty

\* An atomic is answered: stores stop while it waits, the buffer drains, and
\* with it a read in flight.
AmoProgress == amo # None ~> amo = None

\* The cache never waits for itself, and reads, stores and atomics end.
WtProgress == []NeverStuck /\ PortProgress /\ StoreProgress /\ AmoProgress
=============================================================================
