----------------------------- MODULE BackendInv -----------------------------
(***************************************************************************)
(* The inductive invariant of the back end (Backend.tla).                  *)
(*                                                                         *)
(* BInv says for every slot of the scoreboard which unit works on it, so   *)
(* that the write-back of a unit can be matched with a slot: the units,    *)
(* the CSR buffer and the mark behind a mispredicted branch are tied to    *)
(* the slots that wait for them.  The second half names what a cycle does  *)
(* to the scoreboard, the terms in which the proofs speak.                 *)
(***************************************************************************)
EXTENDS Backend

-----------------------------------------------------------------------------
(* The scoreboard is a reorder queue.                                       *)

\* The queue that n slots from slot c of the ring m hold.
InOrder(m, c, n) == [k \in 1 .. n |-> Queued(m[Inc(c, k - 1)])]

-----------------------------------------------------------------------------
(* The invariant of the back end                                            *)

\* Slot i still waits for its result.
Pending(i) == mem[i].issued /\ ~mem[i].valid

\* What the ID/issue register holds.
FetchInv ==
  \/ issue_q = NoFetch
  \/ /\ issue_q.op \in Operations /\ issue_q.rd \in Regs
     /\ issue_q.ex \in BOOLEAN /\ issue_q.mispredict \in BOOLEAN
     /\ issue_q.op = "EXC" => issue_q.ex
     /\ issue_q.mispredict => issue_q.op = "BRANCH"
     /\ issue_q.op \in NoDestination => issue_q.rd = X0
     /\ \A ok \in BOOLEAN :
          [op |-> issue_q.op, fu |-> fu_of(issue_q.op), rd |-> issue_q.rd, ok |-> ok]
             \in Instr

\* The units whose result is the one the program computes.
Computing == {"ALU", "LOAD", "CTRL_FLOW", "MULT", "FPU"}

\* What an issued slot holds.
SlotInv ==
  \A i \in Entries : mem[i].issued =>
    /\ mem[i].instr.op \in Operations
    /\ mem[i].instr.fu = fu_of(mem[i].instr.op)
    /\ mem[i].instr.op = "EXC" => mem[i].ex
    /\ mem[i].instr.op \in NoDestination => mem[i].instr.rd = X0
    /\ mem[i].valid /\ ~mem[i].ex /\ mem[i].instr.fu \in Computing
         => mem[i].result = "ok"

\* Slot i of m waits for the result of one of the operations ops.
Owes(m, i, ops) ==
  i \in Entries /\ m[i].issued /\ ~m[i].valid /\ m[i].instr.op \in ops

\* What a unit works on.
Works(i, ops) == Owes(mem, i, ops)

\* A load is in the register behind the load unit and its slot waits for it.
LoadDue == ld_pipe.valid /\ ld_pipe.result = "ok"

\* The load in that register was flushed.
LoadLate == ld_pipe.valid /\ ld_pipe.result # "ok"

\* A unit holds the transaction ID of a pending slot with an operation of that
\* unit.  The one exception is a flushed load: the ring is still empty then.
UnitInv ==
  /\ \/ ex_q = NoOp
     \/ /\ ex_q.op # "EXC" /\ ex_q.mispredict \in BOOLEAN
        /\ Works(ex_q.id, {ex_q.op}) /\ ~mem[ex_q.id].ex
  /\ mul_q = NoId \/ Works(mul_q, {"MUL"})
  /\ div = [state |-> div.state, id |-> div.id]
  /\ \/ div.state = "IDLE" /\ div.id = NoId
     \/ div.state \in {"DIVIDE", "FINISH"} /\ Works(div.id, {"DIV"})
  /\ \A i \in lsu_out : Works(i, {"LOAD", "STORE", "AMO"})
  /\ \A i \in fpu_out : Works(i, {"FPU"})
  /\ ld_pipe \in WriteBack
  /\ LoadDue => Works(ld_pipe.id, {"LOAD"})
  /\ LoadLate => issue_cnt = 0 /\ issue_q = NoFetch

\* Two units that could hold the same slot do not.
ApartInv ==
  /\ ex_q.op # "none" => ex_q.id # mul_q /\ ex_q.id \notin lsu_out \cup fpu_out
  /\ LoadDue => ld_pipe.id \notin lsu_out /\ ld_pipe.id # ex_q.id

\* Every pending slot is worked on by some unit: no result is forgotten.
CoverInv ==
  \A i \in Entries : Pending(i) =>
     \/ i \in {ex_q.id, mul_q, div.id}
     \/ i \in lsu_out \cup fpu_out
     \/ LoadDue /\ ld_pipe.id = i

\* Who can be in EX while the multiplier or the divider has a result to come.
BusInv ==
  /\ mul_q # NoId => ex_q.op \in {"none", "MUL", "DIV"}
  /\ div.state # "IDLE" => mul_q = NoId /\ ex_q.op \in {"none", "LOAD", "STORE", "AMO", "FPU"}

\* The oldest instruction is a fence: nothing behind it survives.
FenceAtHead == head.instr.op \in FenceOps

\* The slots whose instruction goes through the CSR buffer.
CsrSlots == {i \in Entries : mem[i].issued /\ ~mem[i].ex /\ mem[i].instr.fu = "CSR"}

\* Unless a fence is going to flush the ring, one instruction at a time uses
\* the CSR buffer, and the buffer is its own once it has executed.
CsrInv ==
  \/ issue_cnt > 0 /\ FenceAtHead
  \/ /\ \A i, j \in CsrSlots : i = j
     /\ \A i \in CsrSlots : mem[i].valid => csr_reg = [valid |-> TRUE, id |-> i]

\* The cache is being flushed exactly while a fence halts the commit stage.
HaltInv == flush_dcache = fence_active

\* Behind a mispredicted branch the instruction in the ID/issue register is
\* marked, until the branch resolves and removes it.
PathInv ==
  /\ issue_q.wrong => mispredict
  /\ wrong_path /\ ~mispredict
       => issue_q.op = "BRANCH" /\ issue_q.mispredict /\ ~issue_q.ex

\* In the slots m, with p the oldest one, slot i or one before it carries an
\* exception: the instruction in it cannot retire.
FaultedIn(m, p, i) ==
  \E k \in Entries : m[k].issued /\ m[k].ex /\ Dist(p, k) <= Dist(p, i)

\* Slot i cannot retire any more.
Faulted(i) == FaultedIn(mem, commit_pointer[0], i)

\* Only an instruction that cannot retire may have got a wrong operand.
OperandInv == \A i \in Entries : mem[i].issued /\ ~mem[i].instr.ok => Faulted(i)

\* The inductive invariant.
BInv ==
  /\ workload \in DOMAIN Workloads
  /\ SbInv /\ FetchInv /\ SlotInv /\ UnitInv /\ ApartInv /\ CoverInv /\ BusInv
  /\ CsrInv /\ HaltInv /\ PathInv

-----------------------------------------------------------------------------
(* The write-back ports                                                     *)

\* Slot i gets a result on the fixed latency port.
FluAnswers(d, i) ==
  \/ Immediate /\ ex_q.id = i
  \/ mul_q # NoId /\ mul_q = i
  \/ div_valid(d) /\ div.id = i

\* The slots that are written back in a cycle.
Done(d, st_wb, fpu_wb) ==
  {i \in Entries : \/ fpu_wb.valid /\ fpu_wb.id = i
                   \/ st_wb.valid /\ st_wb.id = i
                   \/ ld_pipe.valid /\ ld_pipe.id = i
                   \/ FluAnswers(d, i)}

-----------------------------------------------------------------------------
(* One clock edge without a flush                                           *)

\* A cycle without a flush.
RunStep(c, d, ld_ret, st_wb, fpu_wb, branch_ex, unit_ready) ==
  /\ c \in CommitOutcomes /\ d \in DivSteps /\ ld_ret \in LoadReturns
  /\ st_wb \in StoreReturns /\ fpu_wb \in FpuReturns /\ branch_ex \in BOOLEAN
  /\ unit_ready \in UnitReady(c)
  /\ ~c.flush
  /\ Run(c, d, ld_ret, st_wb, fpu_wb, branch_ex, unit_ready)

\* An instruction is issued in it.
Issues(c, d, st_wb, fpu_wb, branch_ex, unit_ready) ==
  issue_ack(c, WbBus(fpu_wb, st_wb, d, branch_ex), unit_ready) /\ ~mispredict

\* What it does to the slots: those in gone retire, the instruction new is
\* issued, those in done get their result.
Edge(issue, new, gone, done) ==
  /\ issue \in BOOLEAN
  /\ issue => ~mem[issue_pointer].issued /\ issue_q # NoFetch
  /\ issue => issue_pointer \in Entries /\ mem'[issue_pointer] = Pushed(new.instr, new.ex)
  /\ \A i \in gone : i \in Entries /\ mem[i].issued /\ mem[i].valid /\ ~mem[i].ex
                     /\ mem'[i] = FreeEntry
  /\ \A i \in Entries :
       i \notin gone /\ ~(issue /\ i = issue_pointer) =>
         /\ mem'[i].issued = mem[i].issued
         /\ mem'[i].instr = mem[i].instr
         /\ mem'[i].valid = (mem[i].valid \/ (mem[i].issued /\ i \in done))
         /\ mem[i].ex => mem'[i].ex
         /\ \/ mem'[i] = mem[i]
            \/ mem[i].instr.fu \in Computing => mem'[i].result = "ok"

\* The slot that is issued to the scoreboard, if any.
Push(issue, new) == IF issue THEN {new} ELSE {}

\* What the ports of the scoreboard carry: an instruction only if there is room
\* for it, write-backs of their type, and an acknowledge for complete
\* instructions only.
PortsOk(push, wb, n) ==
  /\ push \in Pushes /\ (push # {} => ~issue_full)
  /\ wb \in [WbPorts -> WriteBack]
  /\ n \in 0 .. NR_COMMIT_PORTS /\ AckOk(n)
  /\ Advance(push, wb, n)

\* What the registers of the units get.
UnitStep(c, d, ld_ret, st_wb, fpu_wb, issue) ==
  /\ ex_q' = IF issue /\ ~issue_q.ex
             THEN [op |-> issue_q.op, id |-> issue_pointer,
                   mispredict |-> issue_q.mispredict]
             ELSE NoOp
  /\ mul_q' = IF ex_q.op = "MUL" THEN ex_q.id ELSE NoId
  /\ div' = DivNext(d)
  /\ \A i : i \in lsu_out' <=>
       \/ /\ i \in lsu_out
          /\ ~(ld_ret.valid /\ ld_ret.id = i)
          /\ ~(st_wb.valid /\ st_wb.id = i)
          /\ ~(fpu_wb.valid /\ fpu_wb.id = i)
       \/ i = ex_q.id /\ fu_of(ex_q.op) \in {"LOAD", "STORE"}
  /\ \A i : i \in fpu_out' <=>
       \/ /\ i \in fpu_out
          /\ ~(ld_ret.valid /\ ld_ret.id = i)
          /\ ~(st_wb.valid /\ st_wb.id = i)
          /\ ~(fpu_wb.valid /\ fpu_wb.id = i)
       \/ i = ex_q.id /\ ex_q.op = "FPU"
  /\ ld_pipe' = ld_ret

\* An empty pipeline: the state after reset and after every flush, but for the
\* load that may still be on its way to the write-back port.
Drained ==
  /\ mem = [i \in Entries |-> FreeEntry] /\ issue_cnt = 0
  /\ issue_q = NoFetch /\ wrong_path = FALSE
  /\ ex_q = NoOp /\ mul_q = NoId /\ div = [state |-> "IDLE", id |-> NoId]
  /\ lsu_out = {} /\ fpu_out = {}
  /\ flush_dcache = fence_active
  /\ ld_pipe \in WriteBack /\ (ld_pipe.valid => ld_pipe.result # "ok")

-----------------------------------------------------------------------------
(* The monitors of the commit stage and of the issue stage                  *)

\* The rules of the monitors, by name.
CommitRules == {"operand", "result", "resume", "csr", "dpc", "commit_and_flush"}

\* The monitors for every program.
AlarmsOk == alarm \cap {"wrong_path", "flu", "csr", "result"} = {}

-----------------------------------------------------------------------------
(* The back end keeps the assertions of the scoreboard                      *)

\* The operations whose result port p carries.
PortOps(p) ==
  CASE p = 0 -> {"FPU"}
    [] p = 1 -> {"STORE", "AMO"}
    [] p = 2 -> {"LOAD"}
    [] OTHER -> {"ALU", "BRANCH", "MUL", "DIV"} \cup CsrOps

-----------------------------------------------------------------------------
(* Writers of a register and operands                                       *)

\* The ring in a cycle without a flush: the slots that stay move up by the
\* number of those that retire, the new one is behind all others, and a slot
\* with an exception stays.
RingStep(issue, n) ==
  /\ n \in Nat /\ commit_pointer[0] \in Entries /\ commit_pointer'[0] \in Entries
  /\ issue_pointer \in Entries
  /\ \A i \in Entries : mem[i].issued => (i \in Committed(n) <=> Dist(commit_pointer[0], i) < n)
  /\ \A i \in Entries : mem'[i].issued /\ ~(issue /\ i = issue_pointer) =>
       /\ mem[i].issued /\ i \notin Committed(n)
       /\ mem'[i].instr = mem[i].instr
       /\ Dist(commit_pointer'[0], i) = Dist(commit_pointer[0], i) - n
       /\ issue => Dist(commit_pointer'[0], i) < Dist(commit_pointer'[0], issue_pointer)
  /\ \A i \in Entries : mem[i].issued /\ mem[i].ex =>
       /\ mem'[i].issued /\ mem'[i].ex
       /\ ~(issue /\ i = issue_pointer)

\* Programs without the operation o: the decoder delivers none.
Without(o) == \A w \in DOMAIN Workloads : \A f \in Workloads[w].fetch : f.op # o

\* Then none is in flight.
Absent(o) ==
  issue_q.op # o /\ \A i \in Entries : mem[i].issued => mem[i].instr.op # o

AbsentInv == \A o \in Operations : Without(o) => Absent(o)

\* Programs without atomic memory operations.
AmoFree == Without("AMO")

AmoInv == Absent("AMO")

\* A branch that is complete has written its target to its slot.
TargetInv ==
  \A i \in Entries : mem[i].valid /\ ~mem[i].ex /\ mem[i].instr.op = "BRANCH"
                       => i \in target

\* What the write-back ports can carry in a cycle.
IsBus(wb) ==
  \E fpu_wb \in FpuReturns, st_wb \in StoreReturns, d \in DivSteps, branch_ex \in BOOLEAN :
     wb = WbBus(fpu_wb, st_wb, d, branch_ex)
=============================================================================
