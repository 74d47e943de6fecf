------------------------------- MODULE Backend -------------------------------
(***************************************************************************)
(* The back end of the core: the ID/issue register, operand read and       *)
(* issue (issue_read_operands.sv), the execute stage (ex_stage.sv with     *)
(* mult.sv, serdiv.sv and csr_buffer.sv), the commit stage, the controller *)
(* and the parts of csr_regfile.sv that stop or redirect the pipeline,     *)
(* around the scoreboard.  One clock edge is one step: RunCycle if the     *)
(* controller does not flush the execute stage, FlushCycle if it does.     *)
(*                                                                         *)
(* Data.  A value is "ok" (what the program computes), "bad" (anything     *)
(* else: a placeholder, the result of a flushed instruction) or "none".    *)
(* An instruction in the scoreboard carries the ghost bit ok: the operands *)
(* it was issued with are the ones program order gives it.  The variable   *)
(* alarm collects the names of the rules that a clock edge broke, like a   *)
(* monitor bound to the RTL.  wrong_path and the wrong bit of issue_q are  *)
(* ghosts too: what is decoded after a mispredicted branch is not part of  *)
(* the program.                                                            *)
(*                                                                         *)
(* Abstracted to free choices: the front end (any decoded instruction at   *)
(* any time), the load-store unit and the FPU (they accept when they like, *)
(* and answer each operation once, after any delay), the store buffer and  *)
(* the data cache as the commit stage sees them, and interrupts.           *)
(***************************************************************************)
EXTENDS Scoreboard

CONSTANTS
  Workloads,   \* by name, records [fetch, step] of what the decoder can deliver, a
               \* set of records [op, rd, rs, ex, mispredict], and of dcsr.step
  WT_DCACHE    \* the write-through cache is built in: fences do not flush it

ASSUME BackendAssumption ==
  /\ NR_WB_PORTS = 4 /\ NR_COMMIT_PORTS = 2
  /\ WT_DCACHE \in BOOLEAN
  /\ \A w \in DOMAIN Workloads :
       /\ Workloads[w].step \in BOOLEAN
       /\ \A f \in Workloads[w].fetch : f.rd \in Regs /\ f.rs \subseteq Regs

VARIABLES
  workload,      \* name of the workload, the same all along a behaviour
  issue_q,       \* ID/issue register: a fetched instruction or NoFetch
  wrong_path,    \* ghost: the front end is behind a mispredicted branch
  ex_q,          \* issue/EX register: [op, id, mispredict] or NoOp
  mul_q,         \* multiplier output register: a transaction ID or NoId
  div,           \* divider: [state, id]
  csr_reg,       \* CSR buffer: [valid, id]; id whose address it holds
  lsu_out,       \* loads, stores and AMOs the load-store unit works on
  ld_pipe,       \* pipeline register of the load write-back port
  fpu_out,       \* operations the FPU works on
  target,        \* slots of branches whose bp.predict_address is where they went
  fence_active, flush_dcache,  \* controller
  wfi, debug_mode,             \* csr_regfile
  alarm          \* ghost: rules broken so far

unitVars == <<ex_q, mul_q, div, csr_reg, lsu_out, ld_pipe, fpu_out>>
ctrlVars == <<fence_active, flush_dcache, wfi, debug_mode>>
vars == <<workload, sbVars, issue_q, wrong_path, unitVars, target, ctrlVars, alarm>>

Fetchable == Workloads[workload].fetch
STEP == Workloads[workload].step

NoId == -1
NoFetch == [op |-> "none", rd |-> X0, rs |-> {}, ex |-> FALSE,
            mispredict |-> FALSE, wrong |-> FALSE]
NoOp == [op |-> "none", id |-> NoId, mispredict |-> FALSE]

FenceOps == {"FENCE", "FENCE_I", "SFENCE_VMA"}
CsrOps == FenceOps \cup {"CSR", "XRET", "DRET", "WFI"}

\* The functional unit the decoder selects for an operation.
fu_of(op) ==
  CASE op \in CsrOps -> "CSR"
    [] op \in {"MUL", "DIV"} -> "MULT"
    [] op \in {"STORE", "AMO"} -> "STORE"
    [] op = "BRANCH" -> "CTRL_FLOW"
    [] op = "EXC" -> "NONE"
    [] OTHER -> op

\* The operations of the model, and those that write no register.
Operations == {"ALU", "LOAD", "BRANCH", "MUL", "DIV", "FPU", "EXC", "STORE", "AMO"}
                \cup CsrOps
NoDestination == {"STORE"} \cup (CsrOps \ {"CSR"})

\* What the decoder guarantees of the instructions it delivers.
ASSUME DecoderAssumption ==
  /\ NONE = "NONE" /\ {"ok", "bad"} \subseteq Value
  /\ \A w \in DOMAIN Workloads : \A f \in Workloads[w].fetch :
       /\ f.op \in Operations /\ f.ex \in BOOLEAN /\ f.mispredict \in BOOLEAN
       /\ f.op = "EXC" => f.ex
       /\ f.mispredict => f.op = "BRANCH"
       /\ f.op \in NoDestination => f.rd = X0
       /\ \A ok \in BOOLEAN :
            [op |-> f.op, fu |-> fu_of(f.op), rd |-> f.rd, ok |-> ok] \in Instr

Init ==
  /\ workload \in DOMAIN Workloads
  /\ SbInit
  /\ issue_q = NoFetch /\ wrong_path = FALSE
  /\ ex_q = NoOp /\ mul_q = NoId
  /\ div = [state |-> "IDLE", id |-> NoId]
  /\ csr_reg = [valid |-> FALSE, id |-> NoId]
  /\ lsu_out = {} /\ fpu_out = {} /\ ld_pipe = NoWriteBack /\ target = {}
  /\ fence_active = FALSE /\ flush_dcache = FALSE
  /\ wfi = FALSE /\ debug_mode = FALSE
  /\ alarm = {}

-----------------------------------------------------------------------------
(* Commit stage                                                            *)

halt == wfi \/ fence_active

head == commit_instr(0)
second == commit_instr(1)

\* What the commit stage samples from outside: the store buffer, the AMO
\* unit, and whether a CSR access faults or asks for a pipeline flush (each
\* of them where it matters).
CommitInputs ==
  LET If(op) == IF head.instr.op = op THEN BOOLEAN ELSE {FALSE}
  IN  [lsu_ready : If("STORE"), no_st_pending : BOOLEAN, amo_ack : If("AMO"),
       csr_ex : If("CSR"), flush_csr : If("CSR")]

\* Port 0 holds an instruction that may commit.
go == head.valid /\ ~head.ex /\ ~halt

csr_exception(in) == go /\ head.instr.op = "CSR" /\ in.csr_ex

exception(in) == head.valid /\ ~halt /\ (head.ex \/ csr_exception(in))

\* The wait for the store buffer to drain: fences, and everything but stores
\* while the data cache is being flushed.
drains == \/ head.instr.op \in FenceOps
          \/ flush_dcache /\ head.instr.fu # "STORE"

commit_ack_0(in) ==
  /\ go
  /\ head.instr.op = "AMO" => in.amo_ack
  /\ head.instr.op = "STORE" => in.lsu_ready
  /\ drains => in.no_st_pending
  /\ ~csr_exception(in)

\* Fault: the second port retires behind a CSR instruction.
commit_ack_1_BehindCsr(in) ==
  /\ commit_ack_0(in)
  /\ second.valid /\ ~second.ex
  /\ ~flush_dcache /\ ~STEP
  /\ second.instr.fu \in {"ALU", "LOAD", "CTRL_FLOW", "MULT", "FPU"}

\* The second port retires only simple instructions, not behind a CSR
\* instruction and not when single stepping.
commit_ack_1(in) ==
  /\ commit_ack_0(in)
  /\ second.valid /\ ~second.ex
  /\ head.instr.fu # "CSR"
  /\ ~flush_dcache /\ ~STEP
  /\ second.instr.fu \in {"ALU", "LOAD", "CTRL_FLOW", "MULT", "FPU"}

\* Register file write enable of port 0.  It is set for an instruction that
\* still waits for its acknowledge, except for AMOs.
we_0(in) ==
  go /\ ~csr_exception(in) /\ (head.instr.op = "AMO" => in.amo_ack)

\* dcsr.step: an instruction retired outside of debug mode enters it.
single_step(in) == STEP /\ ~debug_mode /\ commit_ack_0(in)

\* What the debug entry of a step saves for the way back: for a control flow
\* instruction the address in its slot, which the scoreboard has replaced if
\* the branch unit wrote back; the trap vector if there is an exception; else
\* the address behind the instruction.  The arm for returns from a trap is
\* never taken: the process tests eret_o before it assigns it, when it still
\* has its default.
dpc(in) ==
  CASE head.instr.fu = "CTRL_FLOW" -> IF commit_pointer[0] \in target THEN "target"
                                      ELSE "predicted"
    [] exception(in) -> "trap"
    [] OTHER         -> "behind"

\* Where the program goes on behind the instruction at port 0.
successor ==
  CASE head.instr.fu = "CTRL_FLOW" -> "target"
    [] head.instr.op = "XRET"      -> "epc"
    [] OTHER                       -> "behind"

\* The controller flushes the execute stage: for an exception, debug entry or
\* return, and (set_pc_commit) for fences, CSR writes with side effects and
\* AMOs.
flush_ex(in) ==
  \/ exception(in)
  \/ single_step(in)
  \/ commit_ack_0(in) /\ \/ drains
                         \/ head.instr.op \in {"XRET", "DRET", "AMO"}
                         \/ head.instr.op = "CSR" /\ in.flush_csr

\* The value that the commit stage writes for port 0: CSRs and AMOs deliver
\* theirs in this cycle.
wdata_0 == IF head.instr.op \in {"CSR", "AMO"} THEN "ok" ELSE head.result

\* The rules that a commit breaks.
\*  operand: an instruction retires that had wrong operands;
\*  result: it writes something else than its result;
\*  resume: the front end restarts right behind the instruction at port 0, or
\*    at a trap handler whose epc is that instruction, but more or less than
\*    that has retired;
\*  csr: the CSR buffer holds the address of another instruction;
\*  dpc: after a step the debugger returns to another instruction than the one
\*    that the program goes on with;
\*  commit_and_flush: a store is committed in a cycle with a flush.
CommitAlarms(in, n) ==
  LET Retired == {commit_pointer[k] : k \in 0 .. n - 1}
  IN  {a \in {"operand", "result", "resume", "csr", "dpc", "commit_and_flush"} :
        CASE a = "operand" -> \E i \in Retired : ~mem[i].instr.ok
          [] a = "result"  ->
               \/ n > 0 /\ head.instr.rd # X0 /\ wdata_0 # "ok"
               \/ n > 1 /\ second.instr.rd # X0 /\ second.result # "ok"
          [] a = "resume"  ->
               flush_ex(in) /\ n # (IF exception(in) THEN 0 ELSE 1)
          [] a = "csr"     ->
               go /\ head.instr.op = "CSR" /\ csr_reg.id # commit_pointer[0]
          [] a = "dpc"     -> single_step(in) /\ dpc(in) # successor
          [] OTHER         ->
               n > 0 /\ head.instr.op = "STORE" /\ flush_ex(in)}

\* All that the rest of the core sees of the commit stage in a cycle.
CommitStage(in) ==
  LET n == IF commit_ack_1(in) THEN 2 ELSE IF commit_ack_0(in) THEN 1 ELSE 0
      op == head.instr.op
  IN  [n |-> n,
       flush |-> flush_ex(in),
       exception |-> exception(in),
       we |-> {r \in Regs : \/ we_0(in) /\ r = head.instr.rd
                            \/ n = 2 /\ r = second.instr.rd},
       commit_csr |-> go /\ head.instr.fu = "CSR" /\ ~csr_exception(in),
       fence |-> /\ n > 0 /\ drains /\ ~WT_DCACHE
                 /\ op \in {"FENCE", "FENCE_I"} \/ flush_dcache,
       wfi |-> go /\ op = "WFI" /\ ~debug_mode,
       dret |-> n > 0 /\ op = "DRET",
       step |-> single_step(in),
       alarms |-> CommitAlarms(in, n)]

CommitOutcomes == {CommitStage(in) : in \in CommitInputs}

-----------------------------------------------------------------------------
(* Execute stage                                                           *)

Wb(i, result, ex) == [valid |-> TRUE, id |-> i, result |-> result, ex |-> ex]

\* What is taken for granted of the load-store unit (Lsu.tla shows it) and of
\* the FPU: they write back each operation that is outstanding once, in any
\* order, and a memory operation with or without an exception.
Returns(ids, result, exs) == {NoWriteBack} \cup {Wb(i, result, x) : i \in ids, x \in exs}

LoadsOut == {i \in lsu_out : mem[i].instr.fu = "LOAD"}
LoadReturns == Returns(LoadsOut, "ok", BOOLEAN)
StoreReturns == Returns(lsu_out \ LoadsOut, "bad", BOOLEAN)
FpuReturns == Returns(fpu_out, "ok", {FALSE})

\* The divider in state DIVIDE goes on, has its quotient in the next cycle, or
\* saw that the quotient is zero and is done at once.
DivSteps == IF div.state = "DIVIDE" THEN {"busy", "done", "zero"} ELSE {"busy"}

div_valid(d) == div.state = "FINISH" \/ d = "zero"

\* The multiplier has precedence on the output of mult.sv: the divider waits.
div_ready == mul_q = NoId

DivNext(d) ==
  CASE div_valid(d) -> IF div_ready THEN [state |-> "IDLE", id |-> NoId]
                       ELSE [div EXCEPT !.state = "FINISH"]
    [] d = "done"   -> [div EXCEPT !.state = "FINISH"]
    [] div.state = "IDLE" /\ ex_q.op = "DIV"
                    -> [state |-> "DIVIDE", id |-> ex_q.id]
    [] OTHER        -> div

\* The operation in EX that answers in this cycle over the fixed latency bus.
Immediate == fu_of(ex_q.op) \in {"ALU", "CTRL_FLOW", "CSR"}

\* The fixed latency write-back port: ALU and CSR buffer first, then the
\* multiplier and divider, then the branch unit.  A CSR instruction writes
\* back its operand; only commit knows the value of the CSR.
flu_wb(d, branch_ex) ==
  LET result == IF fu_of(ex_q.op) = "CSR" THEN "bad" ELSE "ok"
      ex == ex_q.op = "BRANCH" /\ branch_ex
      mult_valid == mul_q # NoId \/ div_valid(d)
  IN  IF fu_of(ex_q.op) \in {"ALU", "CSR"} THEN Wb(ex_q.id, result, FALSE)
      ELSE IF mult_valid THEN Wb(IF mul_q # NoId THEN mul_q ELSE div.id, "ok", ex)
      ELSE IF Immediate THEN Wb(ex_q.id, result, ex)
      ELSE NoWriteBack

-----------------------------------------------------------------------------
(* Operand read and issue                                                  *)

\* Fault: the buffer does not see the CSR instruction that enters it now.
csr_ready_Late(c) == csr_reg.valid => c.commit_csr

\* The CSR buffer is free, or becomes so in this cycle.
csr_ready(c) == (csr_reg.valid \/ fu_of(ex_q.op) = "CSR") => c.commit_csr

\* Fault: the divider does not see the division that enters it now.
mult_ready_Late == div.state = "IDLE"

mult_ready == div.state = "IDLE" /\ ex_q.op # "DIV"

\* Is the unit that the waiting instruction needs ready?  The load-store unit
\* and the FPU decide freely.
UnitReady(c) ==
  CASE fu_of(issue_q.op) = "NONE" -> {TRUE}
    [] fu_of(issue_q.op) \in {"LOAD", "STORE", "FPU"} -> BOOLEAN
    [] OTHER -> {csr_ready(c) /\ mult_ready}

\* A clobbered operand has to be forwarded.  CSR instructions cannot forward.
operand_available(r, wb) ==
  rd_clobber(r) # NONE => rs_valid(r, wb) /\ rd_clobber(r) # "CSR"

\* Fault: the write-after-write check is left out.
no_waw_Unchecked(c) == TRUE

\* No issued instruction has the same destination, or it is written now.
no_waw(c) == rd_clobber(issue_q.rd) = NONE \/ issue_q.rd \in c.we

\* Behind a multiplication or division only another one may issue.
mult_blocks == fu_of(ex_q.op) = "MULT" /\ fu_of(issue_q.op) # "MULT"

issue_ack(c, wb, unit_ready) ==
  /\ issue_q.op # "none" /\ ~issue_full
  /\ \/ /\ \A r \in issue_q.rs : operand_available(r, wb)
        /\ unit_ready
        /\ no_waw(c)
     \/ issue_q.ex
     \/ fu_of(issue_q.op) = "NONE"
  /\ ~mult_blocks

\* The last instruction in program order that writes r.
Youngest(r) ==
  CHOOSE i \in Writers(r) :
     \A j \in Writers(r) : Dist(commit_pointer[0], j) <= Dist(commit_pointer[0], i)

\* The operand that issue_read_operands.sv selects is the right one: the
\* register file if nothing in flight writes r, else the finished result of
\* the last instruction that does.
OperandOk(r, wb) ==
  rd_clobber(r) # NONE => rs_data(r, wb) = [id |-> Youngest(r), result |-> "ok"]

\* The instruction as it enters the scoreboard.
Issued(wb) ==
  [instr |-> [op |-> issue_q.op, fu |-> fu_of(issue_q.op), rd |-> issue_q.rd,
              ok |-> \A r \in issue_q.rs : OperandOk(r, wb)],
   ex |-> issue_q.ex]

-----------------------------------------------------------------------------
(* One clock edge without a flush of the execute stage                     *)

\* The branch in EX was predicted wrongly: what is not issued is dropped.
mispredict == ex_q.op = "BRANCH" /\ ex_q.mispredict

\* Fault: the register keeps its instruction.
IdFlush_Keep == UNCHANGED <<issue_q, wrong_path>>

\* A flush of the ID/issue register, on a mispredict or a pipeline flush.
IdFlush == issue_q' = NoFetch /\ wrong_path' = FALSE

\* What the front end may offer (a DRET is illegal outside of debug mode).
Fetches == {NoFetch} \cup
  {[op |-> f.op, rd |-> f.rd, rs |-> f.rs, ex |-> f.ex,
    mispredict |-> f.mispredict, wrong |-> wrong_path] :
     f \in {g \in Fetchable : g.op = "DRET" => debug_mode}}

\* The ID/issue register.
IdStage(ack) ==
  IF mispredict THEN IdFlush
  ELSE IF issue_q # NoFetch /\ ~ack THEN UNCHANGED <<issue_q, wrong_path>>
  ELSE \E f \in Fetches :
         /\ issue_q' = f
         /\ wrong_path' = (wrong_path \/ (f.mispredict /\ ~f.ex))

\* The CSR buffer.  The address of an instruction that retires is nobody's.
CsrBuffer(c) ==
  csr_reg' = [valid |-> \/ fu_of(ex_q.op) = "CSR"
                        \/ csr_reg.valid /\ ~c.commit_csr,
              id |-> IF fu_of(ex_q.op) = "CSR" THEN ex_q.id
                     ELSE IF c.n > 0 /\ csr_reg.id = commit_pointer[0] THEN NoId
                     ELSE csr_reg.id]

\* Fault: the slot keeps the address that the front end predicted.
SaveTarget_Predicted(wb, n) == target' = target \ Committed(n)

\* Every write-back stores the target of the branch that is resolved in this
\* cycle in its slot, so that it is right for that branch only.  Before that
\* the slot has the predicted address.
SaveTarget(wb, n) ==
  target' = {i \in Entries \ Committed(n) :
               IF mem[i].issued /\ \E p \in WbPorts : wb[p].valid /\ wb[p].id = i
               THEN ex_q.op = "BRANCH" /\ ex_q.id = i
               ELSE i \in target}

\* The core stays halted until the data cache acknowledges its flush, and
\* after a WFI until an interrupt is pending.
Halting(c) ==
  /\ fence_active' \in {FALSE, fence_active}
  /\ flush_dcache' = fence_active'
  /\ wfi' \in {FALSE, wfi \/ c.wfi}
  /\ UNCHANGED debug_mode

\* The rules that issue and write-back break.
\*  wrong_path: an instruction behind a mispredicted branch is issued;
\*  flu: two results on the fixed latency bus in one cycle.
RunAlarms(issue, d) ==
  {a \in {"wrong_path", "flu"} :
     CASE a = "wrong_path" -> issue /\ issue_q.wrong
       [] OTHER            -> Immediate /\ (mul_q # NoId \/ div_valid(d))}

\* The write-back ports, in the order of their numbers.
WbBus(fpu_wb, st_wb, d, branch_ex) ==
  [p \in WbPorts |-> CASE p = 0 -> fpu_wb [] p = 1 -> st_wb [] p = 2 -> ld_pipe
                       [] p = 3 -> flu_wb(d, branch_ex)]

Run(c, d, ld_ret, st_wb, fpu_wb, branch_ex, unit_ready) ==
  LET wb == WbBus(fpu_wb, st_wb, d, branch_ex)
      ack == issue_ack(c, wb, unit_ready)
      issue == ack /\ ~mispredict
      start == issue /\ ~issue_q.ex /\ fu_of(issue_q.op) # "NONE"
      answers == {w.id : w \in {v \in {ld_ret, st_wb, fpu_wb} : v.valid}}
  IN  /\ Advance(IF issue THEN {Issued(wb)} ELSE {}, wb, c.n)
      /\ ex_q' = IF start THEN [op |-> issue_q.op, id |-> issue_pointer,
                                mispredict |-> issue_q.mispredict]
                 ELSE NoOp
      /\ mul_q' = IF ex_q.op = "MUL" THEN ex_q.id ELSE NoId
      /\ div' = DivNext(d)
      /\ CsrBuffer(c)
      /\ lsu_out' = (lsu_out \ answers) \cup
                      {i \in {ex_q.id} : fu_of(ex_q.op) \in {"LOAD", "STORE"}}
      /\ fpu_out' = (fpu_out \ answers) \cup {i \in {ex_q.id} : ex_q.op = "FPU"}
      /\ ld_pipe' = ld_ret
      /\ SaveTarget(wb, c.n)
      /\ alarm' = alarm \cup c.alarms \cup RunAlarms(issue, d)
      /\ IdStage(ack)
      /\ Halting(c)

RunCycle ==
  \E c \in CommitOutcomes, d \in DivSteps, ld_ret \in LoadReturns,
     st_wb \in StoreReturns, fpu_wb \in FpuReturns,
     branch_ex \in IF ex_q.op = "BRANCH" THEN BOOLEAN ELSE {FALSE} :
  \E unit_ready \in UnitReady(c) :
     /\ ~c.flush
     /\ Run(c, d, ld_ret, st_wb, fpu_wb, branch_ex, unit_ready)

-----------------------------------------------------------------------------
(* One clock edge with a flush of the execute stage                        *)

\* The pipeline registers of the write-back ports are not flushed: a load that
\* returns in this cycle is written back in the next one, to a slot that is
\* free then.
LateLoad(ld_ret) ==
  IF ld_ret.valid THEN [ld_ret EXCEPT !.result = "bad"] ELSE NoWriteBack

\* What the load-store unit promises (OperationsKept of Lsu.tla): on a flush it
\* forgets what it works on and answers neither for the operations it queues nor
\* for the loads whose data is on its way.
LsuFlush == lsu_out' = {}

\* Whatever is in the pipeline is dropped, and the front end starts anew.
\* debug: the exception is a debug request or a breakpoint for the debugger
\* (which is there only if it also steps, to keep the other instances small).
FlushCycle ==
  \E c \in CommitOutcomes, ld_ret \in LoadReturns, debug \in BOOLEAN :
     /\ c.flush
     /\ debug => STEP /\ c.exception /\ ~debug_mode
     /\ Flush
     /\ IdFlush
     /\ ex_q' = NoOp /\ mul_q' = NoId
     /\ div' = [state |-> "IDLE", id |-> NoId]
     /\ csr_reg' = [valid |-> FALSE, id |-> NoId]
     /\ LsuFlush /\ fpu_out' = {}
     /\ ld_pipe' = LateLoad(ld_ret)
     /\ target' = {}
     /\ fence_active' = c.fence /\ flush_dcache' = c.fence
     /\ wfi' \in {FALSE, c.wfi}
     /\ debug_mode' = (debug \/ c.step \/ (debug_mode /\ ~c.dret))
     /\ alarm' = alarm \cup c.alarms

Next == (RunCycle \/ FlushCycle) /\ UNCHANGED workload

Spec == Init /\ [][Next]_vars

\* Fairness.  The clock does not stop, and whoever the core waits for answers
\* at some time, which is always in its power: the load-store unit and the FPU
\* each operation, the divider counts down, the cache acknowledges its flush,
\* an interrupt ends a WFI, and the store buffer drains (it makes room for a
\* store, lets a fence pass, and performs an AMO).
Waiting == go /\ head.instr.op \in FenceOps \cup {"STORE", "AMO"}

FairSpec ==
  /\ Spec
  /\ WF_vars(Next)
  /\ \A i \in Entries : []<>(i \notin lsu_out \cup fpu_out)
  /\ []<>(div.state # "DIVIDE")
  /\ []<>~halt
  /\ []<>~Waiting

-----------------------------------------------------------------------------
(* Properties                                                              *)

\* The units that still owe slot i a result.  The load port owes it to an
\* instruction that is not flushed.
Owing(i) ==
  {u \in {"ex", "mul", "div", "lsu", "load", "fpu"} :
     CASE u = "ex"  -> ex_q.id = i
       [] u = "mul" -> mul_q = i
       [] u = "div" -> div.id = i
       [] u = "lsu" -> i \in lsu_out
       [] u = "fpu" -> i \in fpu_out
       [] OTHER     -> ld_pipe.valid /\ ld_pipe.id = i /\ ld_pipe.result = "ok"}

\* Every issued instruction without a result is in exactly one functional
\* unit, and no unit works for any other slot: no result is lost on a shared
\* bus or in a busy divider, none is produced twice, and none can arrive after
\* its slot was given to another instruction.  In particular no two write-back
\* ports carry the same transaction ID (the assertion in scoreboard.sv).  That
\* the load-store unit owes nothing after a flush is assumed (LsuFlush).
EveryResultOwedOnce ==
  \A i \in Entries :
     IF mem[i].issued /\ ~mem[i].valid THEN \E u \in Owing(i) : Owing(i) = {u}
                                       ELSE Owing(i) = {}

\* A write-back that arrives after a flush finds the scoreboard empty: its
\* transaction ID has not been given to a new instruction.  The only one that
\* can is in the pipeline register of the load port (LsuFlush).
LateWriteBackHarmless ==
  ld_pipe.valid /\ ld_pipe.result = "bad" => issue_cnt = 0 /\ issue_q = NoFetch

\* Every write-back finds the slot of its own instruction, or none.
OneResultPerSlot == EveryResultOwedOnce /\ LateWriteBackHarmless

\* Of two instructions in flight with the same destination the younger one
\* never retires: it, or an instruction before it, carries an exception (only
\* then is it issued without the write-after-write check).  So rd_clobber and
\* the forwarding network need not tell writers of a register apart.
SingleWriter ==
  \A r \in Regs \ {X0} : \A i, j \in Writers(r) :
     Dist(commit_pointer[0], i) < Dist(commit_pointer[0], j) =>
       \E k \in Entries : /\ mem[k].issued /\ mem[k].ex
                          /\ Dist(commit_pointer[0], k) <= Dist(commit_pointer[0], j)

\* Every instruction that retires was issued with the operands that program
\* order gives it, whatever was forwarded, written back late or retired in
\* the cycle in which it was issued.
OperandsInOrder == "operand" \notin alarm

\* Every instruction that retires writes its own result.
ResultsInOrder == "result" \notin alarm

\* What retires is what the program computes in order, operands and results.
RetiresInOrder == OperandsInOrder /\ ResultsInOrder

\* When the pipeline is flushed, exactly the instructions before the address
\* at which the front end restarts have retired: none is skipped and none is
\* executed twice (precise exceptions, fences, CSR writes, returns).
ResumeExact == "resume" \notin alarm

\* The debugger that steps over an instruction returns to the one that the
\* program goes on with: behind it or, for a branch, where it really went,
\* whatever the front end had predicted.
StepResumes == "dpc" \notin alarm

\* A CSR instruction that commits finds its own address in the CSR buffer.
CsrAddressKept == "csr" \notin alarm

\* No instruction behind a mispredicted branch enters the scoreboard, although
\* the issue logic does not look for unresolved branches
\* (unresolved_branch_i is tied to zero).
WrongPathNotIssued == "wrong_path" \notin alarm

\* The fixed latency units never produce two results in one cycle.
FluNeverContended == "flu" \notin alarm

\* Every instruction that is issued retires or is flushed: its result is not
\* lost and whatever it waits for inside the core comes.  That the store buffer
\* drains and that a halt ends is assumed.
EveryInstructionLeaves ==
  \A i \in Entries : mem[i].issued ~> ~mem[i].issued

\* Commit and flush never come in the same cycle for a store: the store
\* buffer takes the read pointer of before the commit for the flush.
CommitOrFlush == "commit_and_flush" \notin alarm
=============================================================================
