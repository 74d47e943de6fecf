------------------------------- MODULE ICache -------------------------------
(***************************************************************************)
(* The instruction cache of the default build (wt_icache.sv): the control  *)
(* state machine, the tag and data arrays and the flush of their valid     *)
(* bits.  Addresses are halfword numbers, a cache line is one fetch word,  *)
(* and the data of a word is the version of its text.                      *)
(*                                                                         *)
(* The memory side is wt_axi_adapter: it takes a request at once (its FIFO *)
(* has room for the one request the cache can have outstanding) and sends  *)
(* no invalidations.  Translation is the identity; it takes any time, and  *)
(* some words fault.                                                       *)
(***************************************************************************)
EXTENDS Naturals, FiniteSets, FiniteSetsExt

CONSTANTS WORDS,      \* number of fetch words of the address space
          Workloads   \* what the core and the program do, by name

VARIABLES
    work,       \* the name of the workload of this behaviour
    ic,         \* state_q, vaddr_q, cmp_en_q, cache_en_q, flush_q, flush_cnt_q,
                \* repl_way_oh_q and, external, whether the TLB has the page
    en,         \* icache_q of the CSR file: the enable bit
    arr,        \* arr[index][way]: valid bit, tag and data
    mem,        \* the version of the text that memory holds, by word
    fill,       \* external: the version that the refill has read
    since       \* ghost: the versions each word has had since the last fence.i

icVars == <<ic, en, arr, mem, fill, since>>

IDX == Workloads[work].idx            \* ICACHE_NUM_WORDS
Way == 1 .. Workloads[work].ways      \* ICACHE_SET_ASSOC
Fault == Workloads[work].fault        \* the words that may not be fetched
Writable == Workloads[work].writable  \* the words that stores change

Word == 0 .. WORDS - 1
Version == {"old", "new"}
Idx(w) == w % IDX
Tag(w) == w \div IDX

Invalid == [valid |-> FALSE, tag |-> 0, data |-> "old"]

\* Reset; what the arrays hold until the first flush is unknown.
ICacheInit ==
    /\ ic = [state |-> "IDLE", vaddr |-> 0, cmp |-> FALSE, en |-> FALSE,
             flush |-> FALSE, cnt |-> 0, way |-> 1, tlb |-> FALSE]
    /\ en = TRUE
    /\ arr \in {[i \in 0 .. IDX - 1 |-> [w \in Way |-> [Invalid EXCEPT !.valid = b]]] :
                   b \in BOOLEAN}
    /\ mem = [w \in Word |-> "new"]
    /\ fill = "new"
    /\ since = [w \in Word |-> {"new"}]

-----------------------------------------------------------------------------
(* Lookup.  The set that the arrays drive was read in the cycle before; as  *)
(* nothing writes in a cycle that starts a lookup, it is the set's present  *)
(* content.                                                                 *)

word == ic.vaddr \div 2

cl_hit == {w \in Way : arr[Idx(word)][w].valid /\ arr[Idx(word)][w].tag = Tag(word)}

inv_ways == {w \in Way : ~arr[Idx(word)][w].valid}

\* The way to replace: the first invalid one, or else the LFSR's, which is any.
repl_ways == IF inv_ways = {} THEN Way ELSE {Min(inv_ways)}

\* Translation is being asked for, and answers with a fault or without.
fetch_req == ic.state \in {"READ", "TLB_MISS", "KILL_ATRANS"}
fetch_exception == word \in Fault

flush_d(in) == ic.flush \/ in.fence

read_answers(in) ==
    /\ ic.state = "READ" /\ in.fv /\ ~flush_d(in)
    /\ \/ cl_hit # {} /\ ic.en
       \/ fetch_exception

\* dreq_o.ready: a request is taken in this cycle.
ic_ready(in) ==
    \/ ic.state = "IDLE" /\ ~flush_d(in) /\ ~(en /\ ~ic.en)
    \/ read_answers(in)

\* dreq_o.valid
ic_valid(in, kill_s2) ==
    /\ ~kill_s2
    /\ \/ read_answers(in)
       \/ ic.state = "TLB_MISS" /\ in.fv /\ ~flush_d(in) /\ fetch_exception
       \/ ic.state = "MISS" /\ in.rtrn /\ ~flush_d(in)

\* dreq_o.data, of a word that does not fault
ic_data(in) ==
    IF ic.cmp THEN arr[Idx(word)][Min(cl_hit)].data ELSE in.data

cache_wren(in, kill_s2) ==
    ic.state = "MISS" /\ ic_valid(in, kill_s2) /\ ic.en

\* Fault: the last set is left out of the flush.
flush_done_Early == ic.cnt + 1 = IDX - 1

flush_done == ic.cnt = IDX - 1

-----------------------------------------------------------------------------
(* The state machine                                                        *)

killed(in, kill_s2) == kill_s2 \/ flush_d(in)

IdleNext(in, req, kill_s1) ==
    IF flush_d(in) \/ (en /\ ~ic.en) THEN "FLUSH"
    ELSE IF req /\ ~kill_s1 THEN "READ" ELSE "IDLE"

ReadNext(in, req, kill_s1, kill_s2) ==
    IF ~in.fv
    THEN IF killed(in, kill_s2) THEN "KILL_ATRANS" ELSE "TLB_MISS"
    ELSE IF flush_d(in) THEN "IDLE"
    ELSE IF read_answers(in)
    THEN IF req /\ ~kill_s1 THEN "READ" ELSE "IDLE"
    ELSE IF kill_s2 THEN "IDLE" ELSE "MISS"

TlbMissNext(in, kill_s2) ==
    IF ~in.fv
    THEN IF killed(in, kill_s2) THEN "KILL_ATRANS" ELSE "TLB_MISS"
    ELSE IF killed(in, kill_s2) \/ fetch_exception THEN "IDLE" ELSE "READ"

MissNext(in, kill_s2) ==
    IF in.rtrn THEN "IDLE"
    ELSE IF killed(in, kill_s2) THEN "KILL_MISS" ELSE "MISS"

StateNext(in, req, kill_s1, kill_s2) ==
    CASE ic.state = "FLUSH"       -> IF flush_done THEN "IDLE" ELSE "FLUSH"
      [] ic.state = "IDLE"        -> IdleNext(in, req, kill_s1)
      [] ic.state = "READ"        -> ReadNext(in, req, kill_s1, kill_s2)
      [] ic.state = "TLB_MISS"    -> TlbMissNext(in, kill_s2)
      [] ic.state = "MISS"        -> MissNext(in, kill_s2)
      [] ic.state = "KILL_ATRANS" -> IF in.fv THEN "IDLE" ELSE "KILL_ATRANS"
      [] ic.state = "KILL_MISS"   -> IF in.rtrn THEN "IDLE" ELSE "KILL_MISS"

\* Tag comparison is enabled for the next cycle.
CmpNext(next) ==
    /\ ic.state \in {"IDLE", "READ", "TLB_MISS"} /\ next # "MISS"
    /\ ic.en

\* Enabling the cache goes through a flush, disabling it does not.
EnNext == en /\ (ic.en \/ (ic.state = "FLUSH" /\ flush_done))

\* Fault: the pending flush is not cleared.
FlushNext_Keep(in) == flush_d(in)

FlushNext(in) == flush_d(in) /\ ~(ic.state = "FLUSH" /\ flush_done)

CntNext ==
    IF flush_done THEN 0 ELSE IF ic.state = "FLUSH" THEN ic.cnt + 1 ELSE ic.cnt

ArrNext(in, kill_s2) ==
    IF ic.state = "FLUSH"
    THEN [arr EXCEPT ![ic.cnt] = [w \in Way |-> Invalid]]
    ELSE IF cache_wren(in, kill_s2)
    THEN [arr EXCEPT ![Idx(word)][ic.way] =
             [valid |-> TRUE, tag |-> Tag(word), data |-> ic_data(in)]]
    ELSE arr

\* One clock edge.  in: fence (flush_i), fv and rtrn (translation and
\* refill answer), data (the version the refill brings), way (the replacement
\* choice) and store (the word that a store changes, if any).  Registers that
\* nobody reads in the next state get a fixed value.
ICacheStep(in, req, vaddr, kill_s1, kill_s2) ==
    LET next == StateNext(in, req, kill_s1, kill_s2) IN
    /\ ic' = [state |-> next,
              vaddr |-> IF next \notin {"READ", "TLB_MISS", "MISS"} THEN 0
                        ELSE IF ic_ready(in) /\ req THEN vaddr ELSE ic.vaddr,
              cmp |-> CmpNext(next), en |-> EnNext,
              flush |-> FlushNext(in), cnt |-> CntNext,
              way |-> IF next # "MISS" THEN 1
                      ELSE IF ic.state = "READ" THEN in.way ELSE ic.way,
              tlb |-> ic.state = "TLB_MISS" /\ next = "READ"]
    /\ en' \in IF Workloads[work].enable THEN BOOLEAN ELSE {TRUE}
    /\ arr' = ArrNext(in, kill_s2)
    /\ mem' = [w \in Word |-> IF w \in in.store THEN (IF mem[w] = "old" THEN "new" ELSE "old")
                              ELSE mem[w]]
    /\ fill' = IF next # "MISS" THEN "new"
               ELSE IF ic.state = "READ" THEN mem[word] ELSE fill
    /\ since' = [w \in Word |-> (IF in.fence THEN {} ELSE since[w]) \cup {mem'[w]}]

-----------------------------------------------------------------------------
(* The inputs that the environment may choose                               *)

May(b) == IF b THEN BOOLEAN ELSE {FALSE}

\* A page whose walk has ended is in the TLB when the lookup starts again.
Translations == IF ic.tlb THEN {TRUE} ELSE May(fetch_req)

Returns == May(ic.state \in {"MISS", "KILL_MISS"})

Stores == {{}} \cup {{w} : w \in Writable}

\* repl_way_oh_q is loaded in the lookup and holds until the refill.
Ways == IF ic.state = "READ" THEN repl_ways ELSE {1}
=============================================================================
