------------------------------ MODULE Frontend ------------------------------
(***************************************************************************)
(* The front end (frontend.sv) with its instruction cache and queue: PC    *)
(* generation, the register behind the cache, the realigner that finds the *)
(* instructions in a fetch word (instr_realign.sv), prediction and replay. *)
(* One step is one clock edge.                                             *)
(*                                                                         *)
(* A halfword is [a, v]: its address and the version of the text it was    *)
(* read from, or garbage where the fetch faulted.  The text says of every  *)
(* halfword what an instruction starting there is: compressed or not, and  *)
(* the control flow it does.  The predictors are free: a branch may be     *)
(* predicted either way, the target of an indirect jump is any of Starts.  *)
(***************************************************************************)
EXTENDS InstrQueue, ICache

VARIABLES
    npc,             \* npc_q
    npc_rst_load,    \* npc_rst_load_q
    fetch,           \* icache_{data,vaddr,ex_valid}_q, or None: ~icache_valid_q
    unaligned,       \* unaligned_{address,instr}_q, or None: ~unaligned_q
    flushed,         \* ghost: the back end redirected the fetch in the last cycle
    faulted          \* ghost: a faulting entry was delivered since the last flush

vars == <<qvars, work, icVars, npc, npc_rst_load, fetch, unaligned, flushed, faulted>>

ASSUME SpaceAssumption == WORDS \in Nat \ {0} /\ HALVES = 2 * WORDS

\* Of the programs and the geometry of the cache: instructions jump to
\* addresses, and there is at least one set and one way.
ASSUME ProgramAssumption ==
    \A n \in DOMAIN Workloads :
        /\ Workloads[n].starts \subseteq Addr /\ Workloads[n].boot \in Addr
        /\ Workloads[n].idx \in Nat \ {0} /\ Workloads[n].ways \in Nat \ {0}
        /\ \A v \in Version, a \in Addr :
               LET t == Workloads[n].text[v][a]
               IN  /\ t.short \in BOOLEAN /\ t.target \in Addr
                   /\ t.flow \in {"none", "branch", "jump", "jalr", "return"}

Text(v) == Workloads[work].text[v]
Starts == Workloads[work].starts      \* where redirects go
BOOT == Workloads[work].boot          \* boot_addr_i
FENCES == Workloads[work].fences      \* does the program execute fence.i?

None == [none |-> TRUE]
Zero == [a |-> 0, v |-> "zero"]
Half(a, v) == [a |-> a, v |-> v]
Garbage == {"short", "long"}

Aligned(a) == a - (a % 2)
Next2(a) == (Aligned(a) + 2) % HALVES

FInit ==
    /\ work \in DOMAIN Workloads
    /\ QInit
    /\ ICacheInit
    /\ npc = 0 /\ npc_rst_load = TRUE
    /\ fetch = None /\ unaligned = None
    /\ flushed = FALSE /\ faulted = FALSE

-----------------------------------------------------------------------------
(* The realigner                                                            *)

\* The low two bits of the halfword are not 2'b11.
compressed(h) ==
    CASE h.v \in Version  -> Text(h.v)[h.a].short
      [] h.v \in Garbage  -> h.v = "short"
      [] h.v = "zero"     -> TRUE

\* An instruction; of a compressed one the upper half is not looked at.
Instruction(lo, hi) ==
    [lo |-> lo, hi |-> IF compressed(lo) THEN Zero ELSE hi, short |-> compressed(lo)]

odd == fetch.vaddr % 2 = 1
upper == Aligned(fetch.vaddr) + 1
waits == odd /\ ~compressed(fetch.lo)

valid_o ==
    [s \in Slot |->
       IF s = 0 THEN fetch # None /\ ~waits
       ELSE /\ fetch # None /\ ~odd
            /\ compressed(fetch.lo) \/ unaligned # None
            /\ compressed(fetch.hi)]

addr_o ==
    [s \in Slot |-> IF fetch = None THEN 0
                    ELSE IF s = 1 THEN upper
                    ELSE IF unaligned # None THEN unaligned.a
                    ELSE fetch.vaddr]

instr_o ==
    [s \in Slot |-> IF fetch = None THEN None
                    ELSE IF s = 1 THEN Instruction(fetch.hi, Zero)
                    ELSE IF unaligned # None THEN Instruction(unaligned.half, fetch.lo)
                    ELSE Instruction(fetch.lo, fetch.hi)]

\* The upper half of the word starts an instruction that the next word ends.
unaligned_d ==
    IF fetch = None THEN unaligned
    ELSE IF waits THEN [a |-> upper, half |-> fetch.lo]
    ELSE IF ~compressed(fetch.lo) /\ unaligned = None THEN unaligned
    ELSE IF compressed(fetch.hi) THEN None
    ELSE [a |-> upper, half |-> fetch.hi]

-----------------------------------------------------------------------------
(* Prediction                                                               *)

NoPrediction == [cf |-> "NoCF", target |-> 0]

\* What the predictors may say of an instruction.  Garbage may look like any
\* control flow; where it leads does not matter, behind the fault nothing is
\* executed.
Predictions(i) ==
    IF i.lo.v \in Garbage \/ i.hi.v \in Garbage
    THEN {NoPrediction, [cf |-> "Jump", target |-> BOOT]}
    ELSE LET t == Text(i.lo.v)[i.lo.a]
             to(cf, a) == [cf |-> cf, target |-> a]
         IN  CASE t.flow = "none"   -> {NoPrediction}
               [] t.flow = "branch" -> {NoPrediction, to("Branch", t.target)}
               [] t.flow = "jump"   -> {to("Jump", t.target)}
               [] t.flow = "jalr"   -> {NoPrediction} \cup {to("JumpR", a) : a \in Starts}
               [] t.flow = "return" -> {to("Return", a) : a \in Starts}

SlotPredictions(s) == IF valid_o[s] THEN Predictions(instr_o[s]) ELSE {NoPrediction}

\* The packet for the queue; the lowest taken prediction gives the address.
packet(p) ==
    [valid |-> valid_o, instr |-> instr_o, addr |-> addr_o,
     cf |-> [s \in Slot |-> p[s].cf],
     ex |-> fetch # None /\ fetch.ex,
     predict |-> IF p[0].cf # "NoCF" THEN p[0].target ELSE p[1].target]

bp_valid(pk) == \E s \in Slot : pk.cf[s] # "NoCF"

-----------------------------------------------------------------------------
(* Next PC, and the register behind the cache                               *)

kill_s1(pk, in) == in.flush \/ replay_o(pk)
kill_s2(pk, in) == kill_s1(pk, in) \/ bp_valid(pk)

fetch_address(pk) ==
    IF bp_valid(pk) THEN pk.predict ELSE IF npc_rst_load THEN BOOT ELSE npc

if_ready(in) == ic_ready(in) /\ ready_o

\* Redirects of the back end (misprediction, trap, return from it, pipeline
\* flush, debug) win over a replay.
npc_d(pk, in) ==
    IF in.flush THEN in.target
    ELSE IF replay_o(pk) THEN replay_addr(pk)
    ELSE IF if_ready(in) THEN Next2(fetch_address(pk))
    ELSE fetch_address(pk)

\* The word, shifted so that the halfword asked for comes first.
fetched(in) ==
    LET lo == Aligned(ic.vaddr)
        h(a, g) == Half(a, IF fetch_exception THEN g ELSE ic_data(in))
        isOdd == ic.vaddr % 2 = 1
    IN  [vaddr |-> ic.vaddr, ex |-> fetch_exception,
         lo |-> IF isOdd THEN h(lo + 1, in.g[1]) ELSE h(lo, in.g[0]),
         hi |-> IF isOdd THEN Zero ELSE h(lo + 1, in.g[1])]

-----------------------------------------------------------------------------
(* The clock edge and its inputs                                            *)

Cycle(pk, in) ==
    /\ QueueStep(pk, in.ready, in.flush)
    /\ ICacheStep(in, ready_o, fetch_address(pk), kill_s1(pk, in), kill_s2(pk, in))
    /\ npc' = npc_d(pk, in)
    /\ npc_rst_load' = FALSE
    /\ fetch' = IF ic_valid(in, kill_s2(pk, in)) THEN fetched(in) ELSE None
    /\ unaligned' = IF kill_s2(pk, in) THEN None ELSE unaligned_d
    /\ flushed' = in.flush
    /\ faulted' = (~in.flush /\ (faulted \/ (in.ready /\ fetch_entry.ex)))
    /\ UNCHANGED work

\* Only a faulting word brings garbage, and only where it is used.
Halves == IF fetch_req /\ fetch_exception THEN [Slot -> Garbage]
          ELSE {[s \in Slot |-> "short"]}

\* What the refill brings: the text as it was when memory read it.
Versions(rtrn) == IF rtrn THEN {fill, mem[word]} ELSE {"new"}

FNext ==
    \E p0 \in SlotPredictions(0) :
    \E p1 \in IF p0 = NoPrediction THEN SlotPredictions(1) ELSE {NoPrediction},
       ready \in May(fetch_entry_valid), flush \in BOOLEAN,
       fv \in Translations, rtrn \in Returns, store \in Stores,
       way \in Ways, g \in Halves :
    \E target \in IF flush THEN Starts ELSE {0}, fence \in May(flush /\ FENCES),
       data \in Versions(rtrn) :
       Cycle(packet([s \in Slot |-> IF s = 0 THEN p0 ELSE p1]),
             [ready |-> ready, flush |-> flush, target |-> target, fence |-> fence,
              fv |-> fv, rtrn |-> rtrn, data |-> data, store |-> store, way |-> way, g |-> g])

Spec == FInit /\ [][FNext]_vars

-----------------------------------------------------------------------------
(* Properties                                                               *)

\* The two instruction FIFOs are filled and drained alternately: the one to be
\* filled next is never longer, the one to be drained next never shorter, than
\* the other.  So the entry that instr_queue.sv shows to decode is the oldest,
\* and what a full FIFO refuses is the end of a packet.
QueueBalanced ==
    /\ Len(fifo[1 - idx_is]) - Len(fifo[idx_is]) \in {0, 1}
    /\ Len(fifo[idx_ds]) - Len(fifo[1 - idx_ds]) \in {0, 1}

Entries == {e \in Slot \X (1 .. DEPTH) : e[2] <= Len(fifo[e[1]])}

Words(i) == {i.lo.a \div 2} \cup IF i.short THEN {} ELSE {i.hi.a \div 2}


Fresh(h) == h.v \in Version => h.v \in since[h.a \div 2]

\* After a fence.i nothing fetched before it is left, neither in the pipeline nor
\* in the cache: every halfword on its way to decode is text that memory held
\* since the fence.
FetchFresh ==
    /\ fetch # None => Fresh(fetch.lo) /\ Fresh(fetch.hi)
    /\ unaligned # None => Fresh(unaligned.half)
    /\ \A e \in Entries : LET i == fifo[e[1]][e[2]].instr IN Fresh(i.lo) /\ Fresh(i.hi)

\* The assertion hot1 of wt_icache.sv: a lookup hits in one way at most.
IcacheOneHit == ic.en /\ ic.state = "READ" => \A w, v \in cl_hit : w = v

\* The assertion of instr_queue.sv on its replay: a packet that asks for a
\* replay pushes no address, whatever is predicted.
ReplayPushesNoAddress ==
    \A p0 \in SlotPredictions(0), p1 \in SlotPredictions(1) :
        LET pk == packet([s \in Slot |-> IF s = 0 THEN p0 ELSE p1]) IN
        replay_o(pk) => ~(push_address(pk) /\ ~full_address)

Quiet == FNext /\ ~flushed'

\* The front end never waits for itself: without a redirect of the back end
\* there is always a clock edge that changes something, the cache's killed
\* requests, the full queue and the pending flush included.
NeverStuck == ENABLED <<Quiet>>_vars

\* Liveness: the clock ticks, redirect or not (by NeverStuck such a step is always
\* possible), translations and refills are answered.
FairSpec ==
    /\ Spec
    /\ []<><<~flushed'>>_vars
    /\ []<>(ic.state \notin {"TLB_MISS", "KILL_ATRANS"})
    /\ []<>(ic.state \notin {"MISS", "KILL_MISS"})

\* Unless the back end keeps redirecting the fetch or switching the cache on and
\* off (which takes instructions), instructions keep coming:
\* kills, replays and flushes of the cache never leave the front end waiting
\* for a fetch that nobody makes.
FetchProgress ==
    /\ []NeverStuck
    /\ <>[]~flushed /\ (<>[]en \/ <>[]~en) => []<>fetch_entry_valid
=============================================================================
