-------------------------------- MODULE Lsu ---------------------------------
(***************************************************************************)
(* The load/store unit: the two-entry queue in front of it (lsu_bypass in  *)
(* src/load_store_unit.sv), the load unit (src/load_unit.sv), the store    *)
(* unit (src/store_unit.sv) and the AMO buffer (src/amo_buffer.sv), with   *)
(* the store buffer as the queue StoreQueue, which StoreBuffer implements. *)
(* One clock edge is one step.                                             *)
(*                                                                         *)
(* Around it: the issue stage, which hands over operations in program      *)
(* order, the commit stage, which retires or flushes them, the MMU and the *)
(* data cache.  An operation is [id, fu, addr, data, ex]; addr stands for  *)
(* the double word in its page, and ex for what the MMU has to say of it:  *)
(* "none", "mis" (misaligned), "perm" (a TLB entry forbids it) or "walk"   *)
(* (the page table walk fails).                                            *)
(***************************************************************************)
EXTENDS Integers, Sequences, SequencesExt

CONSTANTS
  Workloads,     \* by name, [kinds, flushes]: the operations issued, a set of
                 \* [fu, addr, data, ex], and whether other instructions may flush
  Addr, Data,
  NR_SB_ENTRIES, \* operations in flight
  DEPTH_SPEC, DEPTH_COMMIT,
  OVERLAP,       \* an older load may be answered as an exception is reported
  NoOp

ASSUME LsuAssumption ==
  /\ NR_SB_ENTRIES \in Nat \ {0}
  /\ DEPTH_SPEC \in Nat \ {0} /\ DEPTH_COMMIT \in Nat \ {0}
  /\ \A w \in DOMAIN Workloads : Workloads[w].flushes \in BOOLEAN
  /\ OVERLAP \in BOOLEAN
  /\ 0 \in Data

VARIABLES
  work,    \* name of the workload, the same all along a behaviour
  arr,     \* lsu_req_i: the operation that arrives in this cycle
  bp,      \* registers of lsu_bypass: [mem, rp, wp, cnt]
  ld,      \* registers of the load unit: [state, id]
  st,      \* state_q of the store unit
  last,    \* what store unit and MMU registered of the last cycle: [op, req, hit]
  tlb,     \* the addresses the data TLB translates
  walk,    \* the operation the page table walker works for
  port,    \* the load the data cache works on: [addr, tag, val]
  spec, cmt, \* the two queues of the store buffer
  amo,     \* the entry of the AMO buffer
  atc,     \* an AMO waits at the commit port
  mem,     \* what the data cache holds
  arch,    \* ghost: memory after the operations that have retired
  rob,     \* ghost: operations in flight, oldest first: [op, done, ex, val]
  wild     \* ghost: an answer went to an operation that was not waiting for one

lsuVars == <<work, arr, bp, ld, st, last, tlb, walk, port, spec, cmt, amo, atc,
             mem, arch, rob, wild>>

Kind == Workloads[work].kinds
FLUSHES == Workloads[work].flushes

StoreQ == INSTANCE StoreQueue
            WITH Store <- {}, speculative <- spec, committed <- cmt

LsuInit ==
  /\ work \in DOMAIN Workloads
  /\ arr = NoOp
  /\ bp = [mem |-> [i \in 0 .. 1 |-> NoOp], rp |-> 0, wp |-> 0, cnt |-> 0]
  /\ ld = [state |-> "IDLE", id |-> 0]
  /\ st = "IDLE"
  /\ last = [op |-> NoOp, req |-> FALSE, hit |-> FALSE]
  /\ tlb = {} /\ walk = NoOp /\ port = NoOp
  /\ StoreQ!Init
  /\ amo = NoOp /\ atc = FALSE
  /\ mem = [a \in Addr |-> 0] /\ arch = mem
  /\ rob = <<>> /\ wild = FALSE

-----------------------------------------------------------------------------
(* The queue                                                               *)

\* lsu_ctrl_o: an operation passes an empty queue in the cycle it arrives.
lsu_ctrl == IF bp.cnt = 0 THEN arr ELSE bp.mem[bp.rp]

ld_valid == lsu_ctrl # NoOp /\ lsu_ctrl.fu = "LOAD"
st_valid_i == lsu_ctrl # NoOp /\ lsu_ctrl.fu # "LOAD"

\* Fault: ready as long as one entry is free.
lsu_ready_Late == bp.cnt < 2

\* The operation issued now arrives a cycle later, hence only when empty.
lsu_ready == bp.cnt = 0

\* Fault: a flush keeps the counter.
Bypass_Keep(pop_ld, pop_st, flush) ==
  LET in   == IF arr # NoOp THEN 1 ELSE 0
      out  == (IF pop_ld THEN 1 ELSE 0) + (IF pop_st THEN 1 ELSE 0)
      put  == IF arr # NoOp THEN [bp.mem EXCEPT ![bp.wp] = arr] ELSE bp.mem
  IN  bp' = [mem |-> IF out > 0 THEN [put EXCEPT ![bp.rp] = NoOp] ELSE put,
             rp  |-> (bp.rp + out) % 2,
             wp  |-> (bp.wp + in) % 2,
             cnt |-> (bp.cnt + in - out) % 4]

\* The counter has two bits and wraps.
Bypass(pop_ld, pop_st, flush) ==
  LET in   == IF arr # NoOp THEN 1 ELSE 0
      out  == (IF pop_ld THEN 1 ELSE 0) + (IF pop_st THEN 1 ELSE 0)
      put  == IF arr # NoOp THEN [bp.mem EXCEPT ![bp.wp] = arr] ELSE bp.mem
      none == [i \in 0 .. 1 |-> NoOp]
  IN  bp' = IF flush THEN [mem |-> none, rp |-> 0, wp |-> 0, cnt |-> 0]
            ELSE [mem |-> CASE out = 0 -> put
                            [] out = 1 -> [put EXCEPT ![bp.rp] = NoOp]
                            [] out = 2 -> none,
                  rp  |-> (bp.rp + out) % 2,
                  wp  |-> (bp.wp + in) % 2,
                  cnt |-> (bp.cnt + in - out) % 4]

-----------------------------------------------------------------------------
(* The MMU: a hit in the cycle of the request, exceptions a cycle later    *)

dtlb_hit ==
  /\ lsu_ctrl # NoOp /\ lsu_ctrl.ex # "walk"
  /\ lsu_ctrl.addr \in tlb \/ (lsu_ctrl.ex = "mis" /\ ~OVERLAP)

Misaligned == last.req /\ last.op.ex = "mis"
Forbidden == last.req /\ last.hit /\ last.op.ex = "perm"

\* ex_i of both units.  err: the walker is in state PROPAGATE_ERROR.
Exception(err) == Misaligned \/ Forbidden \/ (err /\ ~(last.req /\ last.hit))

\* A walk ends by filling the TLB, which may evict other entries, or by an
\* error; a misaligned operation may leave behind a walk of either kind.
Mmu(req, filled, err, flush) ==
  /\ filled => walk # NoOp /\ walk.ex # "walk"
  /\ err => walk # NoOp /\ walk.ex \in {"walk", "mis"}
  /\ ~(filled /\ err)
  /\ walk' = IF flush \/ filled \/ err THEN NoOp
             ELSE IF walk = NoOp /\ req /\ ~dtlb_hit THEN lsu_ctrl ELSE walk
  /\ IF filled /\ ~flush THEN tlb' \in {{walk.addr}, tlb \cup {walk.addr}}
     ELSE tlb' = tlb
  /\ last' = [op |-> lsu_ctrl, req |-> req, hit |-> dtlb_hit]

-----------------------------------------------------------------------------
(* The load unit                                                           *)

\* Fault: the store that enters the store buffer in this cycle is not seen.
page_offset_matches_Late ==
  \E e \in ToSet(spec) \cup ToSet(cmt) : e.addr = lsu_ctrl.addr

\* The address checker of the store buffer.
page_offset_matches ==
  \/ \E e \in ToSet(spec) \cup ToSet(cmt) : e.addr = lsu_ctrl.addr
  \/ st = "VALID_STORE" /\ last.op.addr = lsu_ctrl.addr

\* In these two states the unit takes the load at the head of the queue.
Accepting == ld.state \in {"IDLE", "SEND_TAG"} /\ ld_valid

data_req == \/ Accepting /\ ~page_offset_matches
            \/ ld.state = "WAIT_GNT"

ld_translation_req == Accepting \/ ld.state \in {"WAIT_TRANSLATION", "WAIT_GNT"}

tag_valid == ld.state \in {"SEND_TAG", "ABORT_TRANSACTION", "WAIT_FLUSH"}

kill_req(ex) == \/ ld.state \in {"ABORT_TRANSACTION", "WAIT_FLUSH"}
                \/ ld.state = "SEND_TAG" /\ ex

pop_ld(ex, gnt, rv) == \/ data_req /\ gnt /\ dtlb_hit
                       \/ ex /\ ld_valid /\ ~rv

\* What becomes of a request: without a grant or a translation it is repeated.
Requested(gnt) ==
  CASE ~gnt -> "WAIT_GNT"
    [] gnt /\ dtlb_hit -> "SEND_TAG"
    [] OTHER -> "ABORT_TRANSACTION"

\* Fault: a finished translation starts the same request over.
LoadState_Again(ex, gnt, flush) ==
  CASE flush -> "WAIT_FLUSH"
    [] ~flush /\ ex /\ ld_valid -> "IDLE"
    [] OTHER ->
       CASE data_req -> Requested(gnt)
         [] Accepting /\ ~data_req -> "WAIT_PAGE_OFFSET"
         [] ld.state = "WAIT_PAGE_OFFSET" ->
              IF page_offset_matches THEN ld.state ELSE "WAIT_GNT"
         [] ld.state = "ABORT_TRANSACTION" -> "WAIT_TRANSLATION"
         [] ld.state = "WAIT_TRANSLATION" ->
              IF dtlb_hit THEN "ABORT_TRANSACTION" ELSE ld.state
         [] OTHER -> "IDLE"

LoadState(ex, gnt, flush) ==
  CASE flush -> "WAIT_FLUSH"
    [] ~flush /\ ex /\ ld_valid -> "IDLE"
    [] OTHER ->
       CASE data_req -> Requested(gnt)
         [] Accepting /\ ~data_req -> "WAIT_PAGE_OFFSET"
         [] ld.state = "WAIT_PAGE_OFFSET" ->
              IF page_offset_matches THEN ld.state ELSE "WAIT_GNT"
         [] ld.state = "ABORT_TRANSACTION" -> "WAIT_TRANSLATION"
         [] ld.state = "WAIT_TRANSLATION" ->
              IF dtlb_hit THEN "WAIT_GNT" ELSE ld.state
         [] OTHER -> "IDLE"

LoadUnit(ex, gnt, rv, flush) ==
  ld' = [state |-> LoadState(ex, gnt, flush),
         id |-> IF pop_ld(ex, gnt, rv) /\ ~ex THEN lsu_ctrl.id ELSE ld.id]

\* valid_o, trans_id_o and ex_o: an answer of the cache goes to the load that
\* was popped last, an exception without one to the load at the head.  Both
\* carry the exception of this cycle.
LoadAnswer(ex, rv, val) ==
  CASE ld_valid /\ ex /\ ~rv -> {[id |-> lsu_ctrl.id, ex |-> TRUE, val |-> 0]}
    [] /\ ~(ld_valid /\ ex /\ ~rv)
       /\ rv /\ ld.state \notin {"WAIT_FLUSH", "WAIT_TRANSLATION"}
       /\ kill_req(ex) => ex -> {[id |-> ld.id, ex |-> ex, val |-> val]}
    [] OTHER -> {}

\* The load port of the data cache.  It grants when it has nothing to do or is
\* just answering, waits for the tag, answers at once when killed, and reads
\* at any time between the tag and its answer.
CachePort(ex, gnt, rv, val) ==
  /\ gnt => data_req /\ (port = NoOp \/ (rv /\ ~kill_req(ex)))
  /\ rv => port # NoOp
  /\ port # NoOp =>
       /\ kill_req(ex) => rv
       /\ rv => port.tag \/ tag_valid
       /\ val \in {mem[port.addr]} \cup (IF port.tag THEN {port.val} ELSE {})
  /\ port = NoOp => val = 0
  /\ port' = CASE gnt -> [addr |-> lsu_ctrl.addr, tag |-> FALSE, val |-> 0]
               [] ~gnt /\ rv -> NoOp
               [] ~gnt /\ ~rv /\ port # NoOp /\ ~port.tag /\ tag_valid ->
                    [port EXCEPT !.tag = TRUE, !.val = mem[port.addr]]
               [] OTHER -> port

-----------------------------------------------------------------------------
(* The store unit and the AMO buffer                                       *)

st_ready(commit) == (Len(spec) < DEPTH_SPEC - 1 \/ commit) /\ amo = NoOp

StAccepting ==
  st_valid_i /\ (st = "IDLE" \/ (st = "VALID_STORE" /\ lsu_ctrl.fu # "AMO"))

st_translation_req == StAccepting \/ st \in {"WAIT_STORE_READY", "WAIT_TRANSLATION"}

pop_st(ex, commit) == \/ StAccepting /\ dtlb_hit /\ st_ready(commit)
                      \/ ex /\ st # "IDLE"

StoreUnit(ex, commit, flush) ==
  st' = CASE flush \/ (ex /\ st # "IDLE") -> "IDLE"
          [] OTHER ->
             CASE StAccepting -> IF ~st_ready(commit) THEN "WAIT_STORE_READY"
                                 ELSE IF dtlb_hit THEN "VALID_STORE"
                                 ELSE "WAIT_TRANSLATION"
               [] st = "WAIT_STORE_READY" ->
                    IF st_ready(commit) /\ dtlb_hit THEN "IDLE" ELSE st
               [] st = "WAIT_TRANSLATION" -> IF dtlb_hit THEN "IDLE" ELSE st
               [] OTHER -> "IDLE"

\* The operation posted in this cycle, to either buffer.
Post(ex, flush) == st = "VALID_STORE" /\ ~flush /\ ~ex


StoreAnswer(ex) ==
  IF st = "VALID_STORE" \/ (ex /\ st # "IDLE")
  THEN {[id |-> last.op.id, ex |-> ex, val |-> 0]} ELSE {}

amo_req(avc) == cmt = <<>> /\ avc /\ amo # NoOp

\* Only an AMO that is not at the commit port is flushed; a push to the full
\* buffer is ignored.
AmoBuffer(ex, flush, avc, ack) ==
  amo' = CASE (flush /\ ~avc) \/ ack -> NoOp
           [] OTHER -> IF amo = NoOp /\ Post(ex, flush) /\ last.op.fu = "AMO"
                       THEN last.op ELSE amo

-----------------------------------------------------------------------------
(* Issue and commit                                                        *)

\* Names of operations.  Other instructions take transaction IDs too, so a new
\* operation may have any ID that is not in flight; the first one is taken.
NextId == IF rob = <<>> THEN 0 ELSE (Last(rob).op.id + 1) % NR_SB_ENTRIES

Op(kind) == [id |-> NextId, fu |-> kind.fu, addr |-> kind.addr,
             data |-> kind.data, ex |-> kind.ex]

\* The issue stage registers an operation if the queue is ready.
Issue(new) == /\ new # NoOp => lsu_ready /\ Len(rob) < NR_SB_ENTRIES - 1
              /\ arr' = IF new = NoOp THEN NoOp ELSE Op(new)

Oldest == rob[1]
Retirable == rob # <<>> /\ Oldest.done /\ ~Oldest.ex

\* Write-back: the scoreboard takes an answer for an operation in flight.
Answered(e, answers) ==
  LET mine == {a \in answers : a.id = e.op.id}
  IN  IF mine = {} THEN e
      ELSE LET a == CHOOSE a \in mine : TRUE
           IN  [e EXCEPT !.done = TRUE, !.ex = @ \/ a.ex,
                         !.val = IF e.done THEN @ ELSE a.val]

Faulted(r) == \E i \in DOMAIN r : r[i].done /\ r[i].ex

\* The commit stage: cm is what it does with the oldest operation.  An AMO
\* that has come to the commit port stays there until it is acknowledged, and
\* its acknowledgement flushes the pipeline; an exception flushes it, and
\* other instructions may.
Commit(cm, avc) ==
  /\ avc => Retirable /\ Oldest.op.fu = "AMO"
  /\ atc => avc
  /\ cm = "retire" =>
       /\ Retirable
       /\ Oldest.op.fu = "STORE" => Len(cmt) < DEPTH_COMMIT
       /\ Oldest.op.fu = "AMO" => amo_req(avc)
  /\ cm = "flush" => ~avc /\ (FLUSHES \/ (rob # <<>> /\ Oldest.done /\ Oldest.ex))
  /\ atc' = (avc /\ cm = "none")

Retired(cm) ==
  arch' = IF cm = "retire" /\ Oldest.op.fu # "LOAD"
          THEN [arch EXCEPT ![Oldest.op.addr] = Oldest.op.data] ELSE arch

\* Drained stores and acknowledged AMOs change memory.
Memory(drain, ack) ==
  LET drained == IF drain THEN [mem EXCEPT ![Head(cmt).addr] = Head(cmt).data]
                 ELSE mem
  IN  mem' = IF ack THEN [drained EXCEPT ![amo.addr] = amo.data] ELSE drained

Rob(new, answers, cm, flush) ==
  LET marked == [i \in DOMAIN rob |-> Answered(rob[i], answers)]
      left   == IF cm = "retire" THEN Tail(marked) ELSE marked
      entry  == [op |-> Op(new), done |-> FALSE, ex |-> FALSE, val |-> 0]
  IN  /\ rob' = IF flush THEN <<>>
                ELSE IF new = NoOp THEN left ELSE Append(left, entry)
      /\ wild' = /\ ~flush
                 /\ \/ wild
                    \/ /\ ~Faulted(marked)
                       /\ \E a \in answers : \A i \in DOMAIN rob :
                            rob[i].op.id = a.id => rob[i].done

-----------------------------------------------------------------------------
(* One clock edge                                                          *)

Tick(new, gnt, rv, val, filled, err, drain, cm, avc) ==
  LET ack     == cm = "retire" /\ Oldest.op.fu = "AMO"
      commit  == cm = "retire" /\ Oldest.op.fu = "STORE"
      flush   == cm = "flush" \/ ack
      ex      == Exception(err)
      req     == (ld_valid /\ ld_translation_req) \/ (st_valid_i /\ st_translation_req)
      answers == LoadAnswer(ex, rv, val) \cup StoreAnswer(ex)
  IN  /\ UNCHANGED work
      /\ Commit(cm, avc)
      /\ flush => new = NoOp
      /\ ~OVERLAP /\ ex /\ rv => ld.state \in {"SEND_TAG", "WAIT_FLUSH"}
      /\ Issue(new)
      /\ Bypass(pop_ld(ex, gnt, rv), pop_st(ex, commit), flush)
      /\ Mmu(req, filled, err, flush)
      /\ CachePort(ex, gnt, rv, val)
      /\ LoadUnit(ex, gnt, rv, flush)
      /\ StoreUnit(ex, commit, flush)
      /\ StoreQ!Step(IF Post(ex, flush) /\ last.op.fu = "STORE"
                     THEN <<last.op>> ELSE <<>>, commit, drain, flush)
      /\ AmoBuffer(ex, flush, avc, ack)
      /\ Memory(drain, ack)
      /\ Retired(cm)
      /\ Rob(new, answers, cm, flush)

\* The inputs of a cycle.
May(b) == IF b THEN BOOLEAN ELSE {FALSE}

Inputs(Step(_, _, _, _, _, _, _, _, _)) ==
  \E gnt \in May(data_req), rv \in May(port # NoOp),
     filled \in May(walk # NoOp /\ walk.ex # "walk"),
     err \in May(walk # NoOp /\ walk.ex \in {"walk", "mis"}),
     drain \in May(cmt # <<>>), avc \in May(Retirable /\ Oldest.op.fu = "AMO"),
     cm \in {"none"} \cup (IF Retirable THEN {"retire"} ELSE {})
                    \cup (IF FLUSHES \/ (rob # <<>> /\ Oldest.ex) THEN {"flush"} ELSE {}),
     val \in IF port # NoOp THEN {mem[port.addr], port.val} ELSE {0},
     new \in {NoOp} \cup (IF lsu_ready /\ Len(rob) < NR_SB_ENTRIES - 1 THEN Kind ELSE {}) :
    Step(new, gnt, rv, val, filled, err, drain, cm, avc)

Clock == Inputs(Tick)

LsuSpec == LsuInit /\ [][Clock]_lsuVars

-----------------------------------------------------------------------------
(* Properties                                                              *)

\* What the queue holds, with the operation that is just arriving.
Queued ==
  LET n == IF bp.cnt = 3 THEN 0 ELSE bp.cnt
  IN  [i \in 1 .. n |-> bp.mem[(bp.rp + i - 1) % 2]]
        \o (IF arr = NoOp THEN <<>> ELSE <<arr>>)

ProgramOrder == [i \in DOMAIN rob |-> rob[i].op]

\* No operation in flight will raise an exception.
Smooth == \A i \in DOMAIN rob : rob[i].op.ex = "none"

\* The queue never loses, doubles or overtakes an operation: it holds the
\* youngest operations in program order, and each older one is answered or is
\* in exactly the unit that will answer it (load_store_unit.sv:404-477).  Only
\* an exception may disturb it, and then a flush follows.
QueueExact ==
  Smooth =>
    /\ IsSuffix(Queued, ProgramOrder)
    /\ \A i \in 1 .. Len(rob) - Len(Queued) :
         \/ rob[i].done
         \/ port # NoOp /\ ld.id = rob[i].op.id /\ rob[i].op.fu = "LOAD"
         \/ st = "VALID_STORE" /\ last.op = rob[i].op

\* Each answer goes to an operation that waits for one, and reports an
\* exception exactly if that operation has one; operations younger than a
\* failing one are exempt, they will be flushed (load_unit.sv:234-260,
\* store_unit.sv:164-170).
AnswersExact ==
  /\ ~wild
  /\ \A i \in DOMAIN rob :
       rob[i].done /\ (\A j \in 1 .. i - 1 : rob[j].op.ex = "none") =>
         rob[i].ex = (rob[i].op.ex # "none")

\* When the commit stage retires a store, the oldest store in the store buffer
\* is that store; when it retires an AMO, the AMO buffer holds that AMO
\* (commit_stage.sv:125-204, amo_buffer.sv:59-78).
CommitsOwnStore ==
  Retirable =>
    /\ Oldest.op.fu = "STORE" => spec # <<>> /\ Head(spec) = Oldest.op
    /\ Oldest.op.fu = "AMO" => amo = Oldest.op

\* A load that retires has read what the youngest older store to its address
\* wrote: it never overtook a store in the store buffer, one that was just
\* entering it, or an AMO (store_buffer.sv:195-218).
LoadsInOrder ==
  Retirable /\ Oldest.op.fu = "LOAD" => Oldest.val = arch[Oldest.op.addr]

\* An AMO reads and writes memory only when every store retired before it is
\* there (amo_buffer.sv:48).
AmoAfterStores == amo_req(atc) => mem = arch

\* Loads and AMOs read memory as program order leaves it.
MemoryInOrder == LoadsInOrder /\ AmoAfterStores

\* After a flush nothing of the dropped operations is left: an answer of the
\* cache, a speculative store, an AMO or a queue entry that is still there
\* would be taken for one of a later operation (load_unit.sv:199-227).
FlushLeavesNothing ==
  rob = <<>> =>
    /\ Queued = <<>> /\ spec = <<>> /\ amo = NoOp /\ st = "IDLE"
    /\ port # NoOp => ld.state = "WAIT_FLUSH"

\* Each operation is in one place from its issue to its answer or its flush.
OperationsKept == QueueExact /\ FlushLeavesNothing

-----------------------------------------------------------------------------
(* Liveness: the clock ticks, the cache grants, answers and drains, walks  *)
(* end, and the commit stage retires what it can.                          *)

\* The commit stage has what it needs to retire or to flush the oldest operation.
CanLeave ==
  /\ rob # <<>> /\ Oldest.done
  /\ ~Oldest.ex /\ Oldest.op.fu = "STORE" => Len(cmt) < DEPTH_COMMIT
  /\ ~Oldest.ex /\ Oldest.op.fu = "AMO" => amo_req(TRUE)

\* A clock edge with no new operation and no help of the commit stage.
Alone(new, gnt, rv, val, filled, err, drain, cm, avc) ==
  /\ new = NoOp /\ cm = "none"
  /\ Tick(new, gnt, rv, val, filled, err, drain, cm, avc)

\* The unit never waits for itself: while operations are in flight and nobody
\* owes it anything (the cache an answer or a drained store, the walker a walk,
\* the commit stage a retirement or a flush), the next clock edge changes its
\* state.  Queue, load unit and store unit wait for each other's pops, for room
\* in the store buffer and for older stores (load_store_unit.sv:404-477,
\* load_unit.sv:90-227, store_unit.sv:87-173).
NeverStuck ==
  rob # <<>> /\ port = NoOp /\ walk = NoOp /\ cmt = <<>> /\ ~CanLeave =>
    ENABLED <<Inputs(Alone)>>_lsuVars

LsuFairSpec ==
  /\ LsuSpec
  /\ []<><<TRUE>>_lsuVars
  /\ []<>(ld.state # "WAIT_GNT")
  /\ []<>(port = NoOp)
  /\ []<>(walk = NoOp)
  /\ []<>(cmt = <<>>)
  /\ []<>~CanLeave

\* The unit never waits for itself, and the oldest operation retires or is
\* flushed: no order of misses, full buffers, waits for older stores and
\* translations blocks the unit (load_unit.sv:90-227, store_unit.sv:87-173).
LsuProgress ==
  /\ []NeverStuck
  /\ \A i \in 0 .. NR_SB_ENTRIES - 1 :
       (rob # <<>> /\ Oldest.op.id = i) ~> (rob = <<>> \/ Oldest.op.id # i)
=============================================================================
