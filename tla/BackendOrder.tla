---------------------------- MODULE BackendOrder ----------------------------
(***************************************************************************)
(* What follows from the invariant of the back end (BackendProofs.tla),    *)
(* for every ring size, register set and program:                          *)
(*                                                                         *)
(*   BackendResults     one unit owes the result of a pending slot         *)
(*   BackendScoreboard  the back end drives the scoreboard within its      *)
(*                      assertions, hence BackendSlots and BackendQueue    *)
(*   BackendWriters     a register has one writer in flight                *)
(*   BackendPath, BackendBus, BackendCsr, BackendWritesResults             *)
(*                      no alarm of that kind is ever raised               *)
(*   BackendRetires, BackendResume                                         *)
(*                      operands and restarts, for programs without AMOs   *)
(*   BackendStep        where a step resumes, for programs without XRET    *)
(*   BackendStores      no commit of a store in a flush, without stepping  *)
(***************************************************************************)
EXTENDS BackendProofs

\* The prover of a leaf that names none.
USE Zenon

-----------------------------------------------------------------------------
(* What the invariant says about results and transaction IDs                *)

\* A unit that owes a result to slot i, and the operations it can have.
LEMMA OwingCases ==
  ASSUME BInv, NEW i \in Entries, NEW u \in Owing(i)
  PROVE  \/ u = "ex" /\ ex_q.id = i /\ ex_q.op # "none" /\ Owes(mem, i, {ex_q.op})
         \/ u = "mul" /\ mul_q = i /\ Owes(mem, i, {"MUL"})
         \/ u = "div" /\ div.id = i /\ div.state # "IDLE" /\ Owes(mem, i, {"DIV"})
         \/ u = "lsu" /\ i \in lsu_out /\ Owes(mem, i, {"LOAD", "STORE", "AMO"})
         \/ u = "fpu" /\ i \in fpu_out /\ Owes(mem, i, {"FPU"})
         \/ u = "load" /\ LoadDue /\ ld_pipe.id = i /\ Owes(mem, i, {"LOAD"})
<1>1. UnitInv /\ i # NoId
  BY SMT, ScoreboardAssumption DEF BInv, NoId, Entries
<1>2. ex_q.id = i => ex_q.op # "none" /\ Owes(mem, i, {ex_q.op})
  <2>1. ASSUME ex_q.id = i PROVE ex_q # NoOp
    BY SMT, <1>1, <2>1 DEF NoOp
  <2>2. ASSUME Owes(mem, i, {ex_q.op}) PROVE ex_q.op # "none"
    BY <2>2, OpCases DEF BInv, SlotInv, Owes
  <2> QED BY <1>1, <2>1, <2>2 DEF UnitInv, Works
<1> QED BY SMT, <1>1, <1>2 DEF Owing, UnitInv, Works, LoadDue

\* Every slot that waits for a result is owed it by one unit, and no other
\* slot is owed anything.
LEMMA OwedOnce == BInv => EveryResultOwedOnce
<1> SUFFICES ASSUME BInv, NEW i \in Entries
             PROVE  IF Pending(i) THEN \E u \in Owing(i) : Owing(i) = {u}
                                  ELSE Owing(i) = {}
  BY DEF EveryResultOwedOnce, Pending
<1>1. ASSUME NEW u \in Owing(i) PROVE Pending(i)
  BY OwingCases DEF Owes, Pending
<1>2. ASSUME NEW u \in Owing(i), NEW v \in Owing(i) PROVE u = v
  <2>1. /\ ApartInv /\ BusInv
    BY DEF BInv
  <2>2. \/ u = "ex" /\ ex_q.id = i /\ ex_q.op # "none" /\ Owes(mem, i, {ex_q.op})
        \/ u = "mul" /\ mul_q = i /\ Owes(mem, i, {"MUL"})
        \/ u = "div" /\ div.id = i /\ div.state # "IDLE" /\ Owes(mem, i, {"DIV"})
        \/ u = "lsu" /\ i \in lsu_out /\ Owes(mem, i, {"LOAD", "STORE", "AMO"})
        \/ u = "fpu" /\ i \in fpu_out /\ Owes(mem, i, {"FPU"})
        \/ u = "load" /\ LoadDue /\ ld_pipe.id = i /\ Owes(mem, i, {"LOAD"})
    BY OwingCases
  <2>3. \/ v = "ex" /\ ex_q.id = i /\ ex_q.op # "none" /\ Owes(mem, i, {ex_q.op})
        \/ v = "mul" /\ mul_q = i /\ Owes(mem, i, {"MUL"})
        \/ v = "div" /\ div.id = i /\ div.state # "IDLE" /\ Owes(mem, i, {"DIV"})
        \/ v = "lsu" /\ i \in lsu_out /\ Owes(mem, i, {"LOAD", "STORE", "AMO"})
        \/ v = "fpu" /\ i \in fpu_out /\ Owes(mem, i, {"FPU"})
        \/ v = "load" /\ LoadDue /\ ld_pipe.id = i /\ Owes(mem, i, {"LOAD"})
    BY OwingCases
  <2>4. ~(ex_q.id = i /\ ex_q.op # "none" /\ div.state # "IDLE"
            /\ Owes(mem, i, {ex_q.op}) /\ Owes(mem, i, {"DIV"}))
    BY <2>1 DEF BusInv, Owes
  <2>5. ~(ex_q.id = i /\ ex_q.op # "none" /\
            (mul_q = i \/ i \in lsu_out \/ i \in fpu_out \/ (LoadDue /\ ld_pipe.id = i)))
    BY <2>1 DEF ApartInv
  <2>6. ~(LoadDue /\ ld_pipe.id = i /\ i \in lsu_out)
    BY <2>1 DEF ApartInv
  <2> QED BY <2>2, <2>3, <2>4, <2>5, <2>6 DEF Owes
<1>3. ASSUME Pending(i) PROVE \E u : u \in Owing(i)
  BY SMT, <1>3 DEF BInv, CoverInv, Owing, LoadDue
<1>4. CASE Pending(i)
  <2>1. PICK u : u \in Owing(i)
    BY <1>3, <1>4
  <2>2. Owing(i) = {u}
    BY <1>2, <2>1
  <2> QED BY <1>4, <2>1, <2>2
<1>5. CASE ~Pending(i)
  <2>1. Owing(i) = {}
    BY <1>1, <1>5
  <2> QED BY <1>5, <2>1
<1> QED BY <1>4, <1>5

\* Every issued instruction without a result is in exactly one functional unit,
\* no unit works for another slot, and a write-back that comes after a flush
\* finds the scoreboard empty.
THEOREM BackendResults == Spec => []OneResultPerSlot
<1>1. BInv => LateWriteBackHarmless
  BY DEF BInv, UnitInv, LoadLate, LateWriteBackHarmless
<1>2. BInv => OneResultPerSlot
  BY <1>1, OwedOnce DEF OneResultPerSlot
<1> QED BY <1>2, BackendSafe, PTL

-----------------------------------------------------------------------------
(* The monitors of the commit stage and of the issue stage                  *)

\* A rule that a clock edge breaks is a rule of the commit stage or of issue
\* and write-back.
LEMMA NewAlarm ==
  ASSUME RunCycle \/ FlushCycle, NEW a \in alarm', a \notin alarm
  PROVE  \/ \E in \in CommitInputs : a \in CommitAlarms(in, CommitStage(in).n)
         \/ \E c, d, ld_ret, st_wb, fpu_wb, branch_ex, unit_ready :
              /\ RunStep(c, d, ld_ret, st_wb, fpu_wb, branch_ex, unit_ready)
              /\ a \in RunAlarms(Issues(c, d, st_wb, fpu_wb, branch_ex, unit_ready), d)
<1>1. ASSUME NEW c \in CommitOutcomes, a \in c.alarms
      PROVE  \E in \in CommitInputs : a \in CommitAlarms(in, CommitStage(in).n)
  <2>1. PICK in \in CommitInputs : c = CommitStage(in)
    BY DEF CommitOutcomes
  <2>2. c.alarms = CommitAlarms(in, CommitStage(in).n)
    BY <2>1 DEF CommitStage
  <2> QED BY <1>1, <2>2
<1>2. CASE RunCycle
  <2>1. PICK c, d, ld_ret, st_wb, fpu_wb, branch_ex, unit_ready :
          RunStep(c, d, ld_ret, st_wb, fpu_wb, branch_ex, unit_ready)
    BY <1>2, RunCycleStep
  <2>2. alarm' = alarm \cup c.alarms
                 \cup RunAlarms(Issues(c, d, st_wb, fpu_wb, branch_ex, unit_ready), d)
    BY <2>1 DEF RunStep, Run, Issues
  <2>3. c \in CommitOutcomes
    BY <2>1 DEF RunStep
  <2> QED BY <1>1, <2>1, <2>2, <2>3
<1>3. CASE FlushCycle
  <2>1. PICK c \in CommitOutcomes : alarm' = alarm \cup c.alarms
    BY <1>3 DEF FlushCycle
  <2> QED BY <1>1, <2>1
<1> QED BY <1>2, <1>3

\* What the commit stage acknowledges.
LEMMA CommitCount ==
  ASSUME NEW in \in CommitInputs
  PROVE  /\ CommitStage(in) \in CommitOutcomes
         /\ CommitStage(in).n = IF commit_ack_1(in) THEN 2
                                ELSE IF commit_ack_0(in) THEN 1 ELSE 0
         /\ commit_ack_1(in) => commit_ack_0(in)
         /\ CommitStage(in).n > 0 => commit_ack_0(in)
         /\ CommitStage(in).n > 1 => commit_ack_1(in)
<1>1. CommitStage(in).n = IF commit_ack_1(in) THEN 2
                          ELSE IF commit_ack_0(in) THEN 1 ELSE 0
  BY DEF CommitStage
<1>2. commit_ack_1(in) => commit_ack_0(in)
  BY DEF commit_ack_1
<1> QED BY SMT, <1>1, <1>2 DEF CommitOutcomes

\* A complete instruction at a commit port is in an issued slot.
LEMMA HeadFacts ==
  ASSUME BInv
  PROVE  /\ commit_pointer[0] \in Entries /\ commit_pointer[1] \in Entries
         /\ head.valid => /\ mem[commit_pointer[0]].issued
                          /\ head.instr.op \in Operations
                          /\ head.instr.fu = fu_of(head.instr.op)
                          /\ head.instr.op = "EXC" => head.ex
                          /\ head.instr.op \in NoDestination => head.instr.rd = X0
                          /\ ~head.ex /\ head.instr.fu \in Computing => head.result = "ok"
                          /\ issue_cnt > 0
         /\ second.valid => /\ mem[commit_pointer[1]].issued
                            /\ ~second.ex /\ second.instr.fu \in Computing
                                 => second.result = "ok"
<1>1. SbInv /\ SlotInv
  BY DEF BInv
<1>2. commit_pointer[0] \in Entries /\ commit_pointer[1] \in Entries
  BY <1>1, Ports
<1>3. \A i \in Entries : mem[i].valid => mem[i].issued
  BY <1>1 DEF SbInv, ValidIsIssued
<1>4. mem[commit_pointer[0]].issued => issue_cnt > 0
  <2>1. Dist(commit_pointer[0], commit_pointer[0]) = 0 /\ issue_cnt \in Int
    BY SMT, <1>1, <1>2 DEF Dist, Entries, SbInv, SbTypeOK
  <2> QED BY <1>1, <1>2, <2>1 DEF SbInv, RingInv
<1> QED BY <1>1, <1>2, <1>3, <1>4 DEF head, second, commit_instr, SlotInv

\* The rules that hold for every program.
LEMMA CommitKeeps ==
  ASSUME BInv, NEW in \in CommitInputs
  PROVE  /\ "result" \notin CommitAlarms(in, CommitStage(in).n)
         /\ "csr" \notin CommitAlarms(in, CommitStage(in).n)
<1> DEFINE n == CommitStage(in).n
<1>1. /\ n > 0 => commit_ack_0(in)
      /\ n > 1 => commit_ack_1(in)
      /\ commit_ack_1(in) => commit_ack_0(in)
  BY CommitCount
<1>2. commit_ack_0(in) => head.valid /\ ~head.ex
  BY DEF commit_ack_0, go
<1>3. commit_ack_1(in) => second.valid /\ ~second.ex /\ second.instr.fu \in Computing
  BY DEF commit_ack_1, Computing
<1> HIDE DEF n
<1>4. ASSUME n > 0, head.instr.rd # X0 PROVE wdata_0 = "ok"
  <2>1. head.instr.op \in Operations /\ head.instr.op \notin NoDestination
        /\ head.instr.op # "EXC" /\ head.valid /\ ~head.ex
    BY <1>1, <1>2, <1>4, HeadFacts
  <2>2. \/ head.instr.op \in {"CSR", "AMO"}
        \/ head.instr.op \in {"ALU", "LOAD", "BRANCH", "MUL", "DIV", "FPU"}
    BY <2>1 DEF Operations, NoDestination, CsrOps, FenceOps
  <2>3. CASE head.instr.op \in {"CSR", "AMO"}
    BY <2>3 DEF wdata_0
  <2>4. CASE head.instr.op \in {"ALU", "LOAD", "BRANCH", "MUL", "DIV", "FPU"}
    <3>1. fu_of(head.instr.op) \in Computing
      BY <2>4, Units DEF Computing
    <3>2. head.result = "ok"
      BY <2>1, <3>1, HeadFacts
    <3> QED BY <2>4, <3>2 DEF wdata_0
  <2> QED BY <2>2, <2>3, <2>4
<1>5. n > 1 => second.result = "ok"
  BY <1>1, <1>3, HeadFacts
<1>6. "result" \notin CommitAlarms(in, n)
  BY <1>4, <1>5 DEF CommitAlarms
<1>7. ASSUME go, head.instr.op = "CSR" PROVE csr_reg.id = commit_pointer[0]
  <2>1. /\ head.valid /\ ~head.ex /\ mem[commit_pointer[0]].issued /\ issue_cnt > 0
        /\ head.instr.fu = fu_of(head.instr.op) /\ commit_pointer[0] \in Entries
    BY <1>7, HeadFacts DEF go
  <2>2. commit_pointer[0] \in CsrSlots
    BY <1>7, <2>1, Units DEF CsrSlots, head, commit_instr, CsrOps
  <2>3. ~FenceAtHead
    BY <1>7 DEF FenceAtHead, FenceOps
  <2>4. mem[commit_pointer[0]].valid
    BY <2>1 DEF head, commit_instr
  <2>5. csr_reg = [valid |-> TRUE, id |-> commit_pointer[0]]
    BY <2>2, <2>3, <2>4 DEF BInv, CsrInv
  <2> QED BY <2>5
<1>8. "csr" \notin CommitAlarms(in, n)
  BY <1>7 DEF CommitAlarms
<1> QED BY <1>6, <1>8 DEF n

\* Issue and write-back keep their rules.
LEMMA RunKeeps ==
  ASSUME BInv, NEW c, NEW d, NEW ld_ret, NEW st_wb, NEW fpu_wb, NEW branch_ex,
         NEW unit_ready,
         RunStep(c, d, ld_ret, st_wb, fpu_wb, branch_ex, unit_ready)
  PROVE  RunAlarms(Issues(c, d, st_wb, fpu_wb, branch_ex, unit_ready), d) = {}
<1>1. ~(Immediate /\ (mul_q # NoId \/ div_valid(d)))
  BY FluFacts DEF BInv, RunStep
<1>2. Issues(c, d, st_wb, fpu_wb, branch_ex, unit_ready) => ~issue_q.wrong
  BY DEF BInv, PathInv, Issues
<1> QED BY <1>1, <1>2 DEF RunAlarms

\* No rule but "operand", "resume", "dpc" and "commit_and_flush" is ever broken.
LEMMA AlarmsKept ==
  BInv /\ [Next]_vars =>
    (alarm' \ alarm) \subseteq {"operand", "resume", "dpc", "commit_and_flush"}
<1> SUFFICES ASSUME BInv, [Next]_vars, NEW a \in alarm', a \notin alarm
             PROVE  a \in {"operand", "resume", "dpc", "commit_and_flush"}
  OBVIOUS
<1>1. RunCycle \/ FlushCycle
  BY DEF Next, vars
<1>2. ASSUME NEW in \in CommitInputs, a \in CommitAlarms(in, CommitStage(in).n)
      PROVE  a \in {"operand", "resume", "dpc", "commit_and_flush"}
  <2>1. a \in CommitRules
    BY <1>2 DEF CommitAlarms, CommitRules
  <2> QED BY <1>2, <2>1, CommitKeeps DEF CommitRules
<1> QED BY <1>1, <1>2, NewAlarm, RunKeeps

\* None of these rules is ever broken.
LEMMA BackendMonitors == Spec => []AlarmsOk
<1>1. Init => AlarmsOk
  BY DEF Init, AlarmsOk
<1>2. BInv /\ AlarmsOk /\ [Next]_vars => AlarmsOk'
  BY AlarmsKept DEF AlarmsOk
<1> QED BY <1>1, <1>2, BackendSafe, PTL DEF Spec

\* No instruction behind a mispredicted branch is issued, although issue does
\* not wait for unresolved branches: the branch is resolved in the cycle in
\* which the first instruction behind it could be issued.
THEOREM BackendPath == Spec => []WrongPathNotIssued
<1>1. AlarmsOk => WrongPathNotIssued
  BY DEF AlarmsOk, WrongPathNotIssued
<1> QED BY <1>1, BackendMonitors, PTL

\* The arbitration of the fixed latency write-back port never drops a result.
THEOREM BackendBus == Spec => []FluNeverContended
<1>1. AlarmsOk => FluNeverContended
  BY DEF AlarmsOk, FluNeverContended
<1> QED BY <1>1, BackendMonitors, PTL

\* A CSR instruction that commits finds its own address in the CSR buffer.
THEOREM BackendCsr == Spec => []CsrAddressKept
<1>1. AlarmsOk => CsrAddressKept
  BY DEF AlarmsOk, CsrAddressKept
<1> QED BY <1>1, BackendMonitors, PTL

\* Every instruction that retires writes its own result.
THEOREM BackendWritesResults == Spec => []ResultsInOrder
<1>1. AlarmsOk => ResultsInOrder
  BY DEF AlarmsOk, ResultsInOrder
<1> QED BY <1>1, BackendMonitors, PTL

-----------------------------------------------------------------------------
(* The back end keeps the assertions of the scoreboard                      *)

\* A port carries the result of one of its operations, unless it is the load
\* port after a flush; then nothing is issued.
LEMMA PortOwner ==
  ASSUME BInv, NEW d \in DivSteps, NEW st_wb \in StoreReturns, NEW fpu_wb \in FpuReturns,
         NEW branch_ex \in BOOLEAN, NEW p \in WbPorts,
         WbBus(fpu_wb, st_wb, d, branch_ex)[p].valid
  PROVE  \/ Owes(mem, WbBus(fpu_wb, st_wb, d, branch_ex)[p].id, PortOps(p))
         \/ p = 2 /\ issue_cnt = 0
<1> DEFINE wb == WbBus(fpu_wb, st_wb, d, branch_ex)
<1>1. UnitInv /\ SlotInv /\ BusInv
  BY DEF BInv
<1>2. NoWriteBack \in LoadReturns
  BY SMT DEF LoadReturns, Returns
<1>3. /\ WbPorts = 0 .. 3
      /\ wb[0] = fpu_wb /\ wb[1] = st_wb /\ wb[2] = ld_pipe /\ wb[3] = flu_wb(d, branch_ex)
  BY SMT, <1>1, BusFacts
<1> HIDE DEF wb
<1>4. CASE p = 0
  <2>1. fpu_wb.id \in fpu_out
    BY <1>1, <1>2, <1>3, <1>4, Returned, NoWbFacts DEF wb
  <2> QED BY SMT, <1>1, <1>3, <1>4, <2>1 DEF UnitInv, Works, PortOps, wb
<1>5. CASE p = 1
  <2>1. st_wb.id \in lsu_out /\ mem[st_wb.id].instr.fu # "LOAD"
    BY <1>1, <1>2, <1>3, <1>5, Returned, NoWbFacts DEF wb
  <2>2. Owes(mem, st_wb.id, {"LOAD", "STORE", "AMO"})
    BY <1>1, <2>1 DEF UnitInv, Works
  <2>3. mem[st_wb.id].instr.op # "LOAD"
    BY <1>1, <2>1, <2>2, Units DEF SlotInv, Owes
  <2> QED BY SMT, <1>3, <1>5, <2>2, <2>3 DEF Owes, PortOps, wb
<1>6. CASE p = 2
  BY SMT, <1>1, <1>3, <1>6 DEF UnitInv, LoadDue, LoadLate, Works, PortOps, wb
<1>7. CASE p = 3
  <2> DEFINE i == flu_wb(d, branch_ex).id
  <2>1. flu_wb(d, branch_ex).valid /\ flu_wb(d, branch_ex) \in WriteBack
    BY <1>1, <1>3, <1>7, FluFacts DEF wb
  <2>2. i \in Entries
    BY <2>1, NoWbFacts DEF WriteBack
  <2>3. FluAnswers(d, i)
    BY <1>1, <2>1, <2>2, FluFacts
  <2> HIDE DEF i
  <2>4. CASE Immediate /\ ex_q.id = i
    <3>1. ex_q.op # "none"
      BY <2>4, Units DEF Immediate
    <3>2. Owes(mem, i, {ex_q.op})
      BY SMT, <1>1, <2>4, <3>1 DEF UnitInv, Works, NoOp
    <3>3. ex_q.op \in Operations
      BY <1>1, <3>2 DEF Owes, SlotInv
    <3>4. ex_q.op \in {"ALU", "BRANCH"} \cup CsrOps
      BY <2>4, <3>3, OpCases DEF Immediate
    <3> QED BY SMT, <1>3, <1>7, <3>2, <3>4 DEF Owes, PortOps, wb, i
  <2>5. CASE mul_q # NoId /\ mul_q = i
    BY SMT, <1>1, <1>3, <1>7, <2>5 DEF UnitInv, Works, Owes, PortOps, wb, i
  <2>6. CASE div_valid(d) /\ div.id = i
    <3>1. div.state # "IDLE"
      BY <1>1, <2>6, FluFacts
    <3> QED BY SMT, <1>1, <1>3, <1>7, <2>6, <3>1 DEF UnitInv, Works, Owes, PortOps, wb, i
  <2> QED BY <2>3, <2>4, <2>5, <2>6 DEF FluAnswers
<1> QED BY SMT, <1>3, <1>4, <1>5, <1>6, <1>7

\* The assertion on trans_id_i: no two ports carry the same ID.
LEMMA PortsDistinct ==
  ASSUME BInv, NEW d \in DivSteps, NEW st_wb \in StoreReturns, NEW fpu_wb \in FpuReturns,
         NEW branch_ex \in BOOLEAN
  PROVE  DistinctIds(WbBus(fpu_wb, st_wb, d, branch_ex))
<1> DEFINE wb == WbBus(fpu_wb, st_wb, d, branch_ex)
<1>1. WbPorts = 0 .. 3
  BY SMT, BackendAssumption DEF WbPorts
<1>2. \A p \in WbPorts : wb[p].valid =>
        Owes(mem, wb[p].id, PortOps(p)) \/ (p = 2 /\ issue_cnt = 0)
  BY PortOwner
<1>3. ASSUME NEW i, NEW ops, Owes(mem, i, ops) PROVE issue_cnt # 0
  <2>1. Dist(commit_pointer[0], i) < issue_cnt
    BY <1>3 DEF Owes, BInv, SbInv, RingInv
  <2>2. Dist(commit_pointer[0], i) \in 0 .. NR_ENTRIES - 1
    BY <1>3, Ports, DistFacts DEF BInv, Owes
  <2> QED BY SMT, <2>1, <2>2
<1> HIDE DEF wb
<1>4. ASSUME NEW p \in WbPorts, NEW q \in WbPorts, wb[p].valid, wb[q].valid,
             wb[p].id = wb[q].id
      PROVE  p = q
  <2>1. CASE issue_cnt = 0
    BY <1>2, <1>3, <1>4, <2>1
  <2>2. CASE issue_cnt # 0
    <3>1. /\ mem[wb[p].id].instr.op \in PortOps(p)
          /\ mem[wb[p].id].instr.op \in PortOps(q)
      BY <1>2, <1>4, <2>2 DEF Owes
    <3> QED BY SMT, <1>1, <3>1 DEF PortOps, CsrOps, FenceOps
  <2> QED BY <2>1, <2>2
<1>5. DistinctIds(wb)
  BY <1>4 DEF DistinctIds
<1> QED BY <1>5 DEF wb

\* What the back end does to the scoreboard is what the scoreboard was verified
\* for: every environment assumption of SbSpec (room for an issued instruction,
\* distinct transaction IDs, acknowledge of complete instructions only) is kept
\* by the stages around it.
THEOREM BackendScoreboard == Spec => SbSpec
<1>1. Init => SbInit
  BY DEF Init
<1>2. BInv /\ [Next]_vars => [SbNext]_sbVars
  <2> SUFFICES ASSUME BInv, [Next]_vars PROVE [SbNext]_sbVars
    OBVIOUS
  <2>1. CASE RunCycle
    <3>1. PICK c, d, ld_ret, st_wb, fpu_wb, branch_ex, unit_ready :
            RunStep(c, d, ld_ret, st_wb, fpu_wb, branch_ex, unit_ready)
      BY <2>1, RunCycleStep
    <3> DEFINE wb == WbBus(fpu_wb, st_wb, d, branch_ex)
               push == Push(Issues(c, d, st_wb, fpu_wb, branch_ex, unit_ready), Issued(wb))
    <3>2. PortsOk(push, wb, c.n)
      BY <3>1, RunPorts
    <3>3. DistinctIds(wb)
      BY <3>1, PortsDistinct DEF RunStep
    <3> HIDE DEF wb, push
    <3>4. SbAdvance
      BY <3>2, <3>3 DEF PortsOk, SbAdvance
    <3> QED BY <3>4 DEF SbNext
  <2>2. CASE FlushCycle
    BY <2>2 DEF FlushCycle, SbNext
  <2>3. CASE UNCHANGED vars
    BY <2>3 DEF vars
  <2> QED BY <2>1, <2>2, <2>3 DEF Next
<1> QED BY <1>1, <1>2, BackendSafe, PTL DEF Spec, SbSpec

\* So an instruction in flight keeps its slot and transaction ID.
THEOREM BackendSlots == Spec => SlotStable
BY BackendScoreboard, ScoreboardSlots, PTL

\* And the pipeline retires from a queue in program order.
THEOREM BackendQueue == Spec => ImplementsReorderQueue
BY BackendScoreboard, ScoreboardQueue, PTL

-----------------------------------------------------------------------------
(* Writers of a register and operands                                       *)

\* Every cycle without a flush is such a step.
LEMMA RunRing ==
  ASSUME BInv, NEW c, NEW d, NEW ld_ret, NEW st_wb, NEW fpu_wb, NEW branch_ex,
         NEW unit_ready,
         RunStep(c, d, ld_ret, st_wb, fpu_wb, branch_ex, unit_ready)
  PROVE  RingStep(Issues(c, d, st_wb, fpu_wb, branch_ex, unit_ready), c.n)
<1> DEFINE issue == Issues(c, d, st_wb, fpu_wb, branch_ex, unit_ready)
           new == Issued(WbBus(fpu_wb, st_wb, d, branch_ex))
           n == c.n
           p == commit_pointer[0]
<1>1. SbInv /\ SbInv' /\ n \in 0 .. 2 /\ AckOk(n) /\ NR_COMMIT_PORTS = 2
  BY RunEdge, CommitFacts, BackendAssumption DEF BInv, RunStep
<1>2. Edge(issue, new, Committed(n), Done(d, st_wb, fpu_wb))
  BY RunEdge
<1>3. /\ commit_pointer'[0] = Inc(Inc(p, n), 0)
      /\ issue_cnt' = issue_cnt - n + (IF issue THEN 1 ELSE 0)
      /\ issue_pointer' = IF issue THEN Inc(issue_pointer, 1) ELSE issue_pointer
  <2>1. Advance(Push(issue, new), WbBus(fpu_wb, st_wb, d, branch_ex), n)
    BY RunPorts DEF PortsOk
  <2>2. 0 \in CommitPorts /\ issue \in BOOLEAN
    BY <1>1, Ports DEF Issues
  <2> HIDE DEF issue, new, n
  <2> QED BY <2>1, <2>2 DEF Advance, Push
<1>4. /\ p \in Entries /\ commit_pointer'[0] \in Entries /\ issue_pointer \in Entries
      /\ NR_ENTRIES \in Nat /\ NR_ENTRIES >= 2 /\ issue_cnt \in 0 .. NR_ENTRIES - 1
      /\ issue_cnt' \in 0 .. NR_ENTRIES - 1
  <2>1. 0 \in CommitPorts
    BY <1>1, Ports
  <2> QED BY <1>1, <2>1, ScoreboardAssumption DEF SbInv, SbTypeOK, Entries
<1> HIDE DEF issue, new, n, p
<1>5. /\ n <= issue_cnt
      /\ \A i \in Entries : i \in Committed(n) <=> Dist(p, i) < n
  BY <1>1, CommittedFacts DEF p
<1>6. commit_pointer'[0] = Inc(p, n)
  <2>1. n \in 0 .. NR_ENTRIES
    BY SMT, <1>1, <1>4
  <2>2. Inc(p, n) \in Entries
    BY <1>4, <2>1, IncCases
  <2> QED BY <1>3, <2>2, IncZero
<1>7. Dist(p, issue_pointer) = issue_cnt
  BY SMT, <1>1, <1>4, DistFacts DEF SbInv, RingInv, p
<1>8. ASSUME NEW i \in Entries, Dist(p, i) >= n
      PROVE  Dist(commit_pointer'[0], i) = Dist(p, i) - n
  <2>1. n \in 0 .. NR_ENTRIES - 1
    BY SMT, <1>1, <1>4, <1>5
  <2> QED BY <1>4, <1>6, <1>8, <2>1, DistShift
<1>9. ASSUME NEW i \in Entries, mem'[i].issued, ~(issue /\ i = issue_pointer)
      PROVE  /\ mem[i].issued /\ i \notin Committed(n)
             /\ mem'[i].instr = mem[i].instr
             /\ Dist(commit_pointer'[0], i) = Dist(p, i) - n
             /\ issue => Dist(commit_pointer'[0], i) < Dist(commit_pointer'[0], issue_pointer)
  <2>1. i \notin Committed(n)
    BY <1>2, <1>9, FreeFields DEF Edge
  <2>2. mem[i].issued /\ mem'[i].instr = mem[i].instr
    BY <1>2, <1>9, <2>1 DEF Edge
  <2>3. Dist(p, i) \in 0 .. NR_ENTRIES - 1 /\ Dist(p, i) >= n /\ Dist(p, i) < issue_cnt
    <3>1. Dist(p, i) \in 0 .. NR_ENTRIES - 1
      BY <1>4, DistFacts
    <3>2. Dist(p, i) < issue_cnt
      BY <1>1, <2>2 DEF SbInv, RingInv, p
    <3> QED BY SMT, <1>1, <1>5, <2>1, <3>1, <3>2
  <2>4. Dist(commit_pointer'[0], issue_pointer) = issue_cnt - n
    BY <1>4, <1>5, <1>7, <1>8
  <2> QED BY SMT, <1>1, <1>4, <1>8, <2>1, <2>2, <2>3, <2>4
<1>10. ASSUME NEW i \in Entries, mem[i].issued, mem[i].ex
       PROVE  mem'[i].issued /\ mem'[i].ex /\ ~(issue /\ i = issue_pointer)
  BY <1>2, <1>10 DEF Edge
<1>11. RingStep(issue, n)
  BY SMT, <1>1, <1>4, <1>5, <1>9, <1>10 DEF RingStep, p
<1> QED BY <1>11 DEF issue, n

\* What stands behind an exception stays behind it.
LEMMA FaultStays ==
  ASSUME NEW issue, NEW n, RingStep(issue, n)
  PROVE  /\ \A i \in Entries :
              mem'[i].issued /\ ~(issue /\ i = issue_pointer)
                /\ FaultedIn(mem, commit_pointer[0], i)
              => FaultedIn(mem', commit_pointer'[0], i)
         /\ issue => \A k \in Entries : mem'[k].issued /\ mem'[k].ex
                       => FaultedIn(mem', commit_pointer'[0], issue_pointer)
<1>1. ASSUME NEW i \in Entries, mem'[i].issued, ~(issue /\ i = issue_pointer),
             FaultedIn(mem, commit_pointer[0], i)
      PROVE  FaultedIn(mem', commit_pointer'[0], i)
  <2>1. PICK k \in Entries : /\ mem[k].issued /\ mem[k].ex
                             /\ Dist(commit_pointer[0], k) <= Dist(commit_pointer[0], i)
    BY <1>1 DEF FaultedIn
  <2>2. mem'[k].issued /\ mem'[k].ex /\ ~(issue /\ k = issue_pointer)
    BY <2>1 DEF RingStep
  <2>3. /\ Dist(commit_pointer'[0], k) = Dist(commit_pointer[0], k) - n
        /\ Dist(commit_pointer'[0], i) = Dist(commit_pointer[0], i) - n
    BY <1>1, <2>2 DEF RingStep
  <2>4. Dist(commit_pointer[0], k) \in Int /\ Dist(commit_pointer[0], i) \in Int /\ n \in Nat
    BY SMT, ScoreboardAssumption DEF RingStep, Dist, Entries
  <2> QED BY SMT, <2>1, <2>2, <2>3, <2>4 DEF FaultedIn
<1>2. ASSUME issue, NEW k \in Entries, mem'[k].issued, mem'[k].ex
      PROVE  FaultedIn(mem', commit_pointer'[0], issue_pointer)
  <2>1. CASE k = issue_pointer
    <3>1. Dist(commit_pointer'[0], k) \in Int
      BY SMT, ScoreboardAssumption DEF RingStep, Dist, Entries
    <3> QED BY SMT, <1>2, <2>1, <3>1 DEF FaultedIn
  <2>2. CASE k # issue_pointer
    <3>1. Dist(commit_pointer'[0], k) < Dist(commit_pointer'[0], issue_pointer)
      BY <1>2, <2>2 DEF RingStep
    <3>2. /\ Dist(commit_pointer'[0], k) \in Int
          /\ Dist(commit_pointer'[0], issue_pointer) \in Int
      BY SMT, ScoreboardAssumption DEF RingStep, Dist, Entries
    <3> QED BY SMT, <1>2, <3>1, <3>2 DEF FaultedIn
  <2> QED BY <2>1, <2>2
<1> QED BY <1>1, <1>2

\* A register that the commit stage writes is the destination of an instruction
\* that retires in the same cycle: the write-after-write check may let the next
\* writer pass.
LEMMA WriteEnable ==
  ASSUME BInv, NEW c \in CommitOutcomes, NEW r \in c.we, r # X0
  PROVE  \E g \in Committed(c.n) : g \in Entries /\ mem[g].issued /\ mem[g].instr.rd = r
<1>1. PICK in \in CommitInputs : c = CommitStage(in)
  BY DEF CommitOutcomes
<1>2. /\ c.n = IF commit_ack_1(in) THEN 2 ELSE IF commit_ack_0(in) THEN 1 ELSE 0
      /\ commit_ack_1(in) => commit_ack_0(in)
  BY <1>1, CommitCount
<1>3. \/ we_0(in) /\ r = head.instr.rd
      \/ c.n = 2 /\ r = second.instr.rd
  BY <1>1 DEF CommitStage
<1>4. CASE we_0(in) /\ r = head.instr.rd
  <2>1. /\ head.valid /\ ~head.ex /\ ~halt /\ ~csr_exception(in)
        /\ head.instr.op = "AMO" => in.amo_ack
    BY <1>4 DEF we_0, go
  <2>2. head.instr.op \notin NoDestination /\ mem[commit_pointer[0]].issued
        /\ commit_pointer[0] \in Entries
    BY <1>4, <2>1, HeadFacts
  <2>3. head.instr.op # "STORE" /\ ~drains
    BY <2>1, <2>2 DEF NoDestination, drains, FenceOps, CsrOps, halt, BInv, HaltInv
  <2>4. commit_ack_0(in)
    BY <2>1, <2>3 DEF commit_ack_0, go
  <2>5. c.n \in {1, 2}
    BY <1>2, <2>4
  <2>6. commit_pointer[0] \in Committed(c.n)
    BY SMT, <2>5 DEF Committed
  <2> QED BY <1>4, <2>2, <2>6 DEF head, commit_instr
<1>5. CASE c.n = 2 /\ r = second.instr.rd
  <2>1. commit_ack_1(in)
    BY SMT, <1>2, <1>5
  <2>2. second.valid /\ mem[commit_pointer[1]].issued /\ commit_pointer[1] \in Entries
    BY <2>1, HeadFacts DEF commit_ack_1
  <2>3. commit_pointer[1] \in Committed(c.n)
    BY SMT, <1>5 DEF Committed
  <2> QED BY <1>5, <2>2, <2>3 DEF second, commit_instr
<1> QED BY <1>3, <1>4, <1>5

\* A priority encoder chooses the only element of a set.
LEMMA LowestOne ==
  ASSUME NEW i \in Nat
  PROVE  Lowest({i}) = i
<1>1. Lowest({i}) \in {i}
  BY SMT DEF Lowest
<1> QED BY <1>1

\* The priority encoder of the write-back ports chooses one that offers the
\* register.
LEMMA LowestPort ==
  ASSUME NEW r, NEW wb, FwdPorts(r, wb) # {}
  PROVE  Lowest(FwdPorts(r, wb)) \in FwdPorts(r, wb)
<1> DEFINE S == FwdPorts(r, wb)
<1>1. S \in SUBSET {0, 1, 2, 3}
  BY SMT, BackendAssumption DEF FwdPorts, WbPorts
<1> HIDE DEF S
<1>2. S # {}
  BY DEF S
<1>3. \E i \in S : \A j \in S : i <= j
  <2>1. CASE 0 \in S
    <3>1. 0 \in S /\ \A j \in S : 0 <= j
      BY SMT, <1>1, <2>1
    <3> QED BY <3>1
  <2>2. CASE 0 \notin S /\ 1 \in S
    <3>1. 1 \in S /\ \A j \in S : 1 <= j
      BY SMT, <1>1, <2>2
    <3> QED BY <3>1
  <2>3. CASE 0 \notin S /\ 1 \notin S /\ 2 \in S
    <3>1. 2 \in S /\ \A j \in S : 2 <= j
      BY SMT, <1>1, <2>3
    <3> QED BY <3>1
  <2>4. CASE 0 \notin S /\ 1 \notin S /\ 2 \notin S
    <3>1. \A j \in S : j = 3
      BY <1>1, <2>4
    <3>2. 3 \in S
      BY <1>2, <3>1
    <3> QED BY SMT, <3>1, <3>2
  <2> QED BY <2>1, <2>2, <2>3, <2>4
<1>4. Lowest(S) \in S
  BY <1>3 DEF Lowest
<1> QED BY <1>4 DEF S

\* Without an exception in flight a register has one writer.
LEMMA OneWriter ==
  ASSUME BInv, SingleWriter, \A k \in Entries : ~(mem[k].issued /\ mem[k].ex),
         NEW r, r # X0, NEW i \in Writers(r), NEW j \in Writers(r)
  PROVE  i = j
<1>1. /\ SbInv /\ commit_pointer[0] \in Entries /\ i \in Entries /\ j \in Entries
  BY Ports DEF BInv, Writers
<1>2. r \in Regs
  <2>1. mem[i] \in Entry /\ mem[i].instr.rd = r
    BY <1>1 DEF SbInv, SbTypeOK, Writers
  <2>2. mem[i].instr \in Instr
    BY <2>1 DEF Entry
  <2> QED BY <2>1, <2>2, ScoreboardAssumption
<1> DEFINE a == Dist(commit_pointer[0], i)
           b == Dist(commit_pointer[0], j)
<1>3. a \in 0 .. NR_ENTRIES - 1 /\ b \in 0 .. NR_ENTRIES - 1
  BY <1>1, DistFacts
<1>4. ~(a < b) /\ ~(b < a)
  BY <1>2 DEF SingleWriter
<1>5. a = b
  BY SMT, <1>3, <1>4
<1>6. i = Inc(commit_pointer[0], a) /\ j = Inc(commit_pointer[0], b)
  BY <1>1, <1>3, DistFacts
<1> QED BY <1>5, <1>6

\* The youngest of several instructions in flight with the same destination
\* does not retire.
LEMMA RunWriters ==
  ASSUME BInv, SingleWriter, RunCycle
  PROVE  SingleWriter'
<1>1. PICK c, d, ld_ret, st_wb, fpu_wb, branch_ex, unit_ready :
        RunStep(c, d, ld_ret, st_wb, fpu_wb, branch_ex, unit_ready)
  BY RunCycleStep
<1> DEFINE issue == Issues(c, d, st_wb, fpu_wb, branch_ex, unit_ready)
           new == Issued(WbBus(fpu_wb, st_wb, d, branch_ex))
           n == c.n
<1>2. RingStep(issue, n)
  BY <1>1, RunRing
<1>3. /\ \A i \in Entries :
           mem'[i].issued /\ ~(issue /\ i = issue_pointer)
             /\ FaultedIn(mem, commit_pointer[0], i)
           => FaultedIn(mem', commit_pointer'[0], i)
      /\ issue => \A k \in Entries : mem'[k].issued /\ mem'[k].ex
                    => FaultedIn(mem', commit_pointer'[0], issue_pointer)
  <2> HIDE DEF issue, n
  <2> QED BY <1>2, FaultStays
<1>4. issue => /\ mem'[issue_pointer].issued = TRUE
               /\ mem'[issue_pointer].ex = issue_q.ex
               /\ mem'[issue_pointer].instr.rd = issue_q.rd
  <2>1. issue => mem'[issue_pointer] = Pushed(new.instr, new.ex)
    BY <1>1, RunEdge DEF Edge
  <2>2. new.ex = issue_q.ex /\ new.instr.rd = issue_q.rd
    BY DEF Issued
  <2> HIDE DEF issue, new
  <2> QED BY SMT, <2>1, <2>2, PushedFields
<1>5. issue /\ ~issue_q.ex => no_waw(c)
  BY <1>1, IssueFacts DEF BInv, RunStep
<1>6. c \in CommitOutcomes
  BY <1>1 DEF RunStep
<1> HIDE DEF issue, new, n
<1>7. SUFFICES ASSUME NEW r \in Regs \ {X0}, NEW i \in Entries, NEW j \in Entries,
                      mem'[i].issued, mem'[i].instr.rd = r,
                      mem'[j].issued, mem'[j].instr.rd = r,
                      Dist(commit_pointer'[0], i) < Dist(commit_pointer'[0], j)
               PROVE  FaultedIn(mem', commit_pointer'[0], j)
  BY DEF SingleWriter, Writers, FaultedIn
<1>8. /\ n \in Nat /\ commit_pointer[0] \in Entries /\ commit_pointer'[0] \in Entries
      /\ issue_pointer \in Entries
  BY <1>2 DEF RingStep
<1>9. \A k \in Entries : Dist(commit_pointer[0], k) \in Int /\ Dist(commit_pointer'[0],
   k) \in Int
  BY SMT, <1>8, ScoreboardAssumption DEF Dist, Entries
<1>10. ~(issue /\ i = issue_pointer)
  <2>1. ASSUME issue, i = issue_pointer PROVE FALSE
    <3>1. j # issue_pointer
      BY SMT, <1>7, <1>9, <2>1
    <3>2. Dist(commit_pointer'[0], j) < Dist(commit_pointer'[0], i)
      BY <1>2, <1>7, <2>1, <3>1 DEF RingStep
    <3> QED BY SMT, <1>7, <1>9, <3>2
  <2> QED BY <2>1
<1>11. /\ mem[i].issued /\ i \notin Committed(n) /\ mem[i].instr.rd = r
       /\ Dist(commit_pointer'[0], i) = Dist(commit_pointer[0], i) - n
  BY <1>2, <1>7, <1>10 DEF RingStep
<1>12. ASSUME NEW g \in Entries, mem[g].issued, mem[g].instr.rd = r, NEW h \in Entries,
              mem[h].issued, mem[h].instr.rd = r,
              Dist(commit_pointer[0], g) < Dist(commit_pointer[0], h)
       PROVE  FaultedIn(mem, commit_pointer[0], h)
  BY <1>12 DEF SingleWriter, Writers, FaultedIn
<1>13. CASE ~(issue /\ j = issue_pointer)
  <2>1. /\ mem[j].issued /\ mem[j].instr.rd = r
        /\ Dist(commit_pointer'[0], j) = Dist(commit_pointer[0], j) - n
    BY <1>2, <1>7, <1>13 DEF RingStep
  <2>2. Dist(commit_pointer[0], i) < Dist(commit_pointer[0], j)
    BY SMT, <1>7, <1>8, <1>9, <1>11, <2>1
  <2>3. FaultedIn(mem, commit_pointer[0], j)
    BY <1>11, <1>12, <2>1, <2>2
  <2> QED BY <1>3, <1>7, <1>13, <2>3
<1>14. CASE issue /\ j = issue_pointer
  <2>1. CASE issue_q.ex
    BY <1>3, <1>4, <1>8, <1>14, <2>1
  <2>2. ASSUME NEW k \in Entries, mem[k].issued, mem[k].ex
        PROVE  FaultedIn(mem', commit_pointer'[0], j)
    <3>1. mem'[k].issued /\ mem'[k].ex
      BY <1>2, <2>2 DEF RingStep
    <3> QED BY <1>3, <1>14, <3>1
  <2>3. ASSUME FaultedIn(mem, commit_pointer[0], i)
        PROVE  FaultedIn(mem', commit_pointer'[0], j)
    BY <2>2, <2>3 DEF FaultedIn
  <2>4. CASE ~issue_q.ex
    <3>1. issue_q.rd = r
      BY <1>4, <1>7, <1>14
    <3>2. CASE rd_clobber(r) = NONE /\ \A k \in Entries : ~(mem[k].issued /\ mem[k].ex)
      <4>1. r # X0 /\ i \in Writers(r)
        BY <1>11 DEF Writers
      <4>2. Writers(r) = {i}
        <5>1. \A h \in Writers(r) : i = h
          BY <3>2, <4>1, OneWriter
        <5> QED BY <4>1, <5>1
      <4>3. Lowest({i}) = i
        BY SMT, LowestOne DEF Entries
      <4>4. mem[i].instr.fu = NONE
        BY <3>2, <4>1, <4>2, <4>3 DEF rd_clobber
      <4>5. mem[i].ex
        <5>1. /\ mem[i].instr.op \in Operations
              /\ mem[i].instr.fu = fu_of(mem[i].instr.op)
              /\ mem[i].instr.op = "EXC" => mem[i].ex
          BY <1>11 DEF BInv, SlotInv
        <5>2. fu_of(mem[i].instr.op) = "NONE" <=> mem[i].instr.op = "EXC"
          BY <5>1, OpCases
        <5>3. NONE = "NONE"
          BY DecoderAssumption
        <5> QED BY <4>4, <5>1, <5>2, <5>3
      <4> QED BY <1>11, <3>2, <4>5
    <3>3. CASE r \in c.we
      <4>1. PICK g \in Committed(n) : g \in Entries /\ mem[g].issued /\ mem[g].instr.rd = r
        BY <1>6, <3>3, WriteEnable DEF n
      <4>2. Dist(commit_pointer[0], g) < n /\ ~(Dist(commit_pointer[0], i) < n)
        BY <1>2, <1>11, <4>1 DEF RingStep
      <4>3. Dist(commit_pointer[0], g) < Dist(commit_pointer[0], i)
        BY SMT, <1>8, <1>9, <4>1, <4>2
      <4> QED BY <1>11, <1>12, <2>3, <4>1, <4>3
    <3> QED BY <1>5, <1>14, <2>2, <2>4, <3>1, <3>2, <3>3 DEF no_waw
  <2> QED BY <2>1, <2>4
<1> QED BY <1>13, <1>14

\* Of two instructions in flight with the same destination the younger one
\* never retires (SingleWriter): the write-after-write check of issue, which
\* lets an instruction pass when its register is written in the same cycle, is
\* enough for every number of slots.
THEOREM BackendWriters == Spec => []SingleWriter
<1>1. Init => SingleWriter
  BY SMT DEF Init, SbInit, SingleWriter, Writers, FreeEntry
<1>2. BInv /\ SingleWriter /\ [Next]_vars => SingleWriter'
  <2> SUFFICES ASSUME BInv, SingleWriter, [Next]_vars PROVE SingleWriter'
    OBVIOUS
  <2>1. CASE RunCycle
    BY <2>1, RunWriters
  <2>2. CASE FlushCycle
    <3>1. mem' = [i \in Entries |-> FreeEntry]
      BY <2>2 DEF FlushCycle, Flush
    <3>2. \A i \in Entries : mem'[i].issued = FALSE
      BY <3>1 DEF FreeEntry
    <3> QED BY <3>2 DEF SingleWriter, Writers
  <2>3. CASE UNCHANGED vars
    BY <2>3 DEF vars, sbVars, SingleWriter, Writers
  <2> QED BY <2>1, <2>2, <2>3 DEF Next
<1> QED BY <1>1, <1>2, BackendSafe, PTL DEF Spec

\* That is an invariant.
LEMMA BackendAbsent == Spec => []AbsentInv
<1> "none" \notin Operations
  BY OpCases
<1>1. Init => AbsentInv
  BY SMT DEF Init, SbInit, AbsentInv, Absent, NoFetch, FreeEntry
<1>2. BInv /\ AbsentInv /\ [Next]_vars => AbsentInv'
  <2> SUFFICES ASSUME BInv, [Next]_vars, NEW o \in Operations, Without(o), Absent(o)
               PROVE  Absent(o)'
    BY DEF AbsentInv, Without
  <2>1. CASE RunCycle
    <3>1. PICK c, d, ld_ret, st_wb, fpu_wb, branch_ex, unit_ready :
            RunStep(c, d, ld_ret, st_wb, fpu_wb, branch_ex, unit_ready)
      BY <2>1, RunCycleStep
    <3> DEFINE issue == Issues(c, d, st_wb, fpu_wb, branch_ex, unit_ready)
               new == Issued(WbBus(fpu_wb, st_wb, d, branch_ex))
    <3>2. RingStep(issue, c.n)
      BY <3>1, RunRing
    <3>3. issue => mem'[issue_pointer].instr.op = issue_q.op
      <4>1. issue => mem'[issue_pointer] = Pushed(new.instr, new.ex)
        BY <3>1, RunEdge DEF Edge
      <4>2. new.instr.op = issue_q.op
        BY DEF Issued
      <4> HIDE DEF issue, new
      <4> QED BY SMT, <4>1, <4>2, PushedFields
    <3> HIDE DEF issue, new
    <3>4. \A i \in Entries : mem'[i].issued => mem'[i].instr.op # o
      BY <3>2, <3>3 DEF RingStep, Absent
    <3>5. PICK ack : IdStage(ack)
      BY <3>1 DEF RunStep, Run
    <3>6. issue_q' \in Fetches \cup {NoFetch, issue_q}
      BY <3>5 DEF IdStage, IdFlush
    <3>7. \A f \in Fetches : f.op # o
      BY SMT DEF Fetches, NoFetch, Fetchable, Without, BInv
    <3> QED BY SMT, <3>4, <3>6, <3>7 DEF Absent, NoFetch
  <2>2. CASE FlushCycle
    <3>1. \A i \in Entries : mem'[i] = FreeEntry
      BY <2>2 DEF FlushCycle, Flush
    <3>2. issue_q' = NoFetch
      BY <2>2 DEF FlushCycle, IdFlush
    <3> QED BY <3>1, <3>2, FreeFields DEF Absent, NoFetch
  <2>3. CASE UNCHANGED vars
    BY <2>3 DEF vars, sbVars, Absent
  <2> QED BY <2>1, <2>2, <2>3 DEF Next
<1> QED BY <1>1, <1>2, BackendSafe, PTL DEF Spec

\* Without AMOs in the program there are none in the back end.
LEMMA BackendNoAmo ==
  ASSUME AmoFree
  PROVE  Spec => []AmoInv
<1>1. AbsentInv => AmoInv
  BY DEF AbsentInv, AmoFree, AmoInv, Operations
<1> QED BY <1>1, BackendAbsent, PTL

\* Slots in flight: something is issued.
LEMMA IssuedCount ==
  ASSUME SbInv, NEW i \in Entries, mem[i].issued
  PROVE  issue_cnt # 0
<1>1. Dist(commit_pointer[0], i) < issue_cnt
  BY DEF SbInv, RingInv
<1>2. Dist(commit_pointer[0], i) \in 0 .. NR_ENTRIES - 1
  BY Ports, DistFacts
<1> QED BY SMT, <1>1, <1>2

\* What a port offers for a register that is going to be written is the result
\* of its only writer.
LEMMA ForwardedPort ==
  ASSUME BInv, NEW wb, IsBus(wb), NEW r, NEW i \in Entries, Writers(r) = {i},
         mem[i].issued, mem[i].instr.fu \in Computing, NEW p \in FwdPorts(r, wb)
  PROVE  wb[p].id = i /\ wb[p].result = "ok"
<1>1. PICK fpu_wb \in FpuReturns, st_wb \in StoreReturns, d \in DivSteps,
   branch_ex \in BOOLEAN :
        wb = WbBus(fpu_wb, st_wb, d, branch_ex)
  BY DEF IsBus
<1>2. /\ p \in WbPorts /\ wb[p].valid
      /\ mem[wb[p].id].instr.rd = r \/ ~mem[wb[p].id].issued
  BY DEF FwdPorts
<1>3. issue_cnt # 0
  BY IssuedCount DEF BInv
<1>4. Owes(mem, wb[p].id, PortOps(p))
  BY <1>1, <1>2, <1>3, PortOwner
<1>5. wb[p].id \in Entries /\ mem[wb[p].id].issued
  BY <1>4 DEF Owes
<1>6. wb[p].id = i
  <2>1. wb[p].id \in Writers(r)
    BY <1>2, <1>5 DEF Writers
  <2> QED BY <2>1
<1>7. wb[p] \in {fpu_wb, st_wb, ld_pipe, flu_wb(d, branch_ex)}
  <2>1. /\ WbPorts = 0 .. 3
        /\ wb[0] = fpu_wb /\ wb[1] = st_wb /\ wb[2] = ld_pipe
        /\ wb[3] = flu_wb(d, branch_ex)
    <3>1. WbPorts = 0 .. 3
      BY SMT, BackendAssumption DEF WbPorts
    <3> QED BY SMT, <1>1, <3>1 DEF WbBus
  <2>2. p \in 0 .. 3
    BY <1>2, <2>1
  <2>3. p = 0 \/ p = 1 \/ p = 2 \/ p = 3
    BY SMT, <2>2
  <2> QED BY <2>1, <2>3
<1>8. wb[p].result = "ok"
  <2> DEFINE w == wb[p]
  <2>1. /\ w \in {fpu_wb, st_wb, ld_pipe, flu_wb(d, branch_ex)}
        /\ w.valid /\ w.id \in Entries
        /\ mem[w.id].issued /\ mem[w.id].instr.fu \in Computing
    BY <1>2, <1>5, <1>6, <1>7
  <2> HIDE DEF w
  <2>2. w.result = "ok"
    BY <2>1, PortResult
  <2> QED BY <2>2 DEF w
<1> QED BY <1>6, <1>8

\* Without an exception in flight an instruction is issued with the operands
\* that program order gives it: the register file, or the result of the one
\* instruction in flight that writes the register, from a write-back port or
\* from its slot.
LEMMA OperandsRight ==
  ASSUME BInv, SingleWriter, AmoInv, \A k \in Entries : ~(mem[k].issued /\ mem[k].ex),
         NEW d \in DivSteps, NEW st_wb \in StoreReturns, NEW fpu_wb \in FpuReturns,
         NEW branch_ex \in BOOLEAN,
         NEW r, operand_available(r, WbBus(fpu_wb, st_wb, d, branch_ex))
  PROVE  OperandOk(r, WbBus(fpu_wb, st_wb, d, branch_ex))
<1> DEFINE wb == WbBus(fpu_wb, st_wb, d, branch_ex)
<1> SUFFICES ASSUME rd_clobber(r) # NONE
             PROVE  rs_data(r, wb) = [id |-> Youngest(r), result |-> "ok"]
  BY DEF OperandOk
<1>1. rs_valid(r, wb) /\ rd_clobber(r) # "CSR"
  BY DEF operand_available
<1>2. r # X0 /\ Writers(r) # {}
  BY DEF rd_clobber
<1>3. PICK i : Writers(r) = {i}
  <2>1. PICK i : i \in Writers(r)
    BY <1>2
  <2>2. \A j \in Writers(r) : i = j
    BY <1>2, <2>1, OneWriter
  <2>3. Writers(r) = {i}
    BY <2>1, <2>2
  <2> QED BY <2>3
<1>4. i \in Entries /\ mem[i].issued /\ mem[i].instr.rd = r
  BY <1>3 DEF Writers
<1>5. Lowest({i}) = i
  BY SMT, <1>4, LowestOne DEF Entries
<1>6. Youngest(r) = i
  <2>1. Dist(commit_pointer[0], i) <= Dist(commit_pointer[0], i)
    <3>1. Dist(commit_pointer[0], i) \in 0 .. NR_ENTRIES - 1
      BY <1>4, Ports, DistFacts DEF BInv
    <3> QED BY SMT, <3>1
  <2> QED BY <1>3, <2>1 DEF Youngest
<1>7. mem[i].instr.fu \in Computing
  <2>1. rd_clobber(r) = mem[i].instr.fu
    BY <1>2, <1>3, <1>5 DEF rd_clobber
  <2>2. /\ mem[i].instr.op \in Operations /\ mem[i].instr.fu = fu_of(mem[i].instr.op)
        /\ mem[i].instr.op \notin NoDestination /\ mem[i].instr.op # "EXC"
        /\ mem[i].instr.op # "AMO"
    BY <1>2, <1>4 DEF BInv, SlotInv, AmoInv, Absent
  <2>3. mem[i].instr.op \notin CsrOps
    BY <1>1, <2>1, <2>2, OpCases
  <2>4. mem[i].instr.op \in {"ALU", "LOAD", "BRANCH", "MUL", "DIV", "FPU"}
    BY <2>2, <2>3 DEF Operations, NoDestination
  <2> QED BY <2>2, <2>4, Units DEF Computing
<1>8. CASE FwdPorts(r, wb) # {}
  <2> DEFINE p == Lowest(FwdPorts(r, wb))
  <2>1. p \in FwdPorts(r, wb)
    BY <1>8, LowestPort
  <2>2. \A q \in FwdPorts(r, wb) : wb[q].id = i /\ wb[q].result = "ok"
    <3>1. IsBus(wb)
      BY DEF IsBus
    <3> HIDE DEF wb
    <3> QED BY <1>3, <1>4, <1>7, <3>1, ForwardedPort
  <2>3. wb[p].id = i /\ wb[p].result = "ok"
    BY <2>1, <2>2
  <2> QED BY <1>6, <1>8, <2>3 DEF rs_data
<1>9. CASE FwdPorts(r, wb) = {}
  <2>1. FwdEntries(r) # {}
    BY <1>1, <1>9 DEF rs_valid
  <2>2. FwdEntries(r) = {i} /\ mem[i].valid
    BY <1>3, <2>1 DEF FwdEntries
  <2>3. mem[i].result = "ok"
    BY <1>4, <1>7, <2>2 DEF BInv, SlotInv
  <2> QED BY <1>5, <1>6, <1>9, <2>2, <2>3 DEF rs_data
<1> QED BY <1>8, <1>9

\* An instruction that has wrong operands stands behind an exception.
LEMMA RunOperands ==
  ASSUME BInv, SingleWriter, AmoInv, OperandInv, RunCycle
  PROVE  OperandInv'
<1>1. PICK c, d, ld_ret, st_wb, fpu_wb, branch_ex, unit_ready :
        RunStep(c, d, ld_ret, st_wb, fpu_wb, branch_ex, unit_ready)
  BY RunCycleStep
<1> DEFINE issue == Issues(c, d, st_wb, fpu_wb, branch_ex, unit_ready)
           wb == WbBus(fpu_wb, st_wb, d, branch_ex)
           new == Issued(wb)
<1>2. RingStep(issue, c.n)
  BY <1>1, RunRing
<1>3. /\ \A i \in Entries :
           mem'[i].issued /\ ~(issue /\ i = issue_pointer)
             /\ FaultedIn(mem, commit_pointer[0], i)
           => FaultedIn(mem', commit_pointer'[0], i)
      /\ issue => \A k \in Entries : mem'[k].issued /\ mem'[k].ex
                    => FaultedIn(mem', commit_pointer'[0], issue_pointer)
  <2> HIDE DEF issue
  <2> QED BY <1>2, FaultStays
<1>4. issue => /\ mem'[issue_pointer].issued = TRUE
               /\ mem'[issue_pointer].ex = issue_q.ex
               /\ mem'[issue_pointer].instr.ok = \A r \in issue_q.rs : OperandOk(r, wb)
  <2>1. issue => mem'[issue_pointer] = Pushed(new.instr, new.ex)
    BY <1>1, RunEdge DEF Edge
  <2>2. new.ex = issue_q.ex /\ new.instr.ok = \A r \in issue_q.rs : OperandOk(r, wb)
    BY DEF Issued
  <2> HIDE DEF issue, new, wb
  <2>3. issue => /\ mem'[issue_pointer].issued = TRUE
                 /\ mem'[issue_pointer].ex = new.ex
                 /\ mem'[issue_pointer].instr = new.instr
    BY SMT, <2>1, PushedFields
  <2> QED BY <2>2, <2>3
<1>5. issue /\ ~issue_q.ex => \A r \in issue_q.rs : operand_available(r, wb)
  BY <1>1, IssueFacts DEF BInv, RunStep
<1>6. (\A k \in Entries : ~(mem[k].issued /\ mem[k].ex)) =>
        \A r : operand_available(r, wb) => OperandOk(r, wb)
  BY <1>1, OperandsRight DEF RunStep
<1> HIDE DEF issue, new, wb
<1>7. SUFFICES ASSUME NEW i \in Entries, mem'[i].issued, ~mem'[i].instr.ok
               PROVE  FaultedIn(mem', commit_pointer'[0], i)
  BY DEF OperandInv, Faulted
<1>8. CASE ~(issue /\ i = issue_pointer)
  <2>1. mem[i].issued /\ ~mem[i].instr.ok
    BY <1>2, <1>7, <1>8 DEF RingStep
  <2>2. FaultedIn(mem, commit_pointer[0], i)
    BY <2>1 DEF OperandInv, Faulted
  <2> QED BY <1>3, <1>7, <1>8, <2>2
<1>9. CASE issue /\ i = issue_pointer
  <2>1. CASE issue_q.ex
    BY <1>3, <1>4, <1>7, <1>9, <2>1
  <2>2. CASE \E k \in Entries : mem[k].issued /\ mem[k].ex
    <3>1. \E k \in Entries : mem'[k].issued /\ mem'[k].ex
      BY <1>2, <2>2 DEF RingStep
    <3> QED BY <1>3, <1>9, <3>1
  <2>3. CASE ~issue_q.ex /\ ~\E k \in Entries : mem[k].issued /\ mem[k].ex
    <3>1. \A r \in issue_q.rs : OperandOk(r, wb)
      BY <1>5, <1>6, <1>9, <2>3
    <3> QED BY <1>4, <1>7, <1>9, <3>1
  <2> QED BY <2>1, <2>2, <2>3
<1> QED BY <1>8, <1>9

\* Without AMOs every instruction in flight has the right operands or stands
\* behind an exception.
LEMMA BackendOperands ==
  ASSUME AmoFree
  PROVE  Spec => []OperandInv
<1>1. Init => OperandInv
  BY SMT DEF Init, SbInit, OperandInv, FreeEntry
<1>2. BInv /\ SingleWriter /\ AmoInv /\ OperandInv /\ [Next]_vars => OperandInv'
  <2> SUFFICES ASSUME BInv, SingleWriter, AmoInv, OperandInv, [Next]_vars
               PROVE  OperandInv'
    OBVIOUS
  <2>1. CASE RunCycle
    BY <2>1, RunOperands
  <2>2. CASE FlushCycle
    <3>1. mem' = [i \in Entries |-> FreeEntry]
      BY <2>2 DEF FlushCycle, Flush
    <3> QED BY <3>1 DEF OperandInv, FreeEntry
  <2>3. CASE UNCHANGED vars
    BY <2>3 DEF vars, sbVars, OperandInv, Faulted, FaultedIn
  <2> QED BY <2>1, <2>2, <2>3 DEF Next
<1> QED BY <1>1, <1>2, BackendSafe, BackendWriters, BackendNoAmo, PTL DEF Spec

\* What retires in a cycle does not stand behind an exception.
LEMMA RetiredNotFaulted ==
  ASSUME BInv, NEW c \in CommitOutcomes, NEW i \in Committed(c.n)
  PROVE  i \in Entries /\ mem[i].issued /\ ~Faulted(i)
<1>1. /\ c.n \in 0 .. 2 /\ AckOk(c.n) /\ SbInv /\ NR_COMMIT_PORTS = 2
      /\ c.n > 0 => head.valid /\ ~head.ex
      /\ c.n > 1 => second.valid /\ ~second.ex
  BY CommitFacts, BackendAssumption DEF BInv
<1>2. \A k \in Entries : k \in Committed(c.n) <=> Dist(commit_pointer[0], k) < c.n
  BY <1>1, CommittedFacts
<1>3. ASSUME NEW k \in Committed(c.n) PROVE k \in Entries /\ mem[k].valid /\ ~mem[k].ex
  <2>1. PICK m \in 0 .. c.n - 1 : k = commit_pointer[m]
    BY DEF Committed
  <2>2. (m = 0 /\ c.n > 0) \/ (m = 1 /\ c.n > 1)
    BY SMT, <1>1
  <2> QED BY <1>1, <2>1, <2>2, Ports DEF head, second, commit_instr
<1>4. i \in Entries /\ mem[i].issued
  BY <1>1, <1>3 DEF SbInv, ValidIsIssued
<1>5. ASSUME NEW k \in Entries, mem[k].ex,
             Dist(commit_pointer[0], k) <= Dist(commit_pointer[0], i)
      PROVE  FALSE
  <2>1. Dist(commit_pointer[0], i) < c.n
    BY <1>2, <1>4
  <2>2. Dist(commit_pointer[0], k) \in Int /\ Dist(commit_pointer[0], i) \in Int
    BY SMT, <1>1, <1>4, Ports, ScoreboardAssumption DEF Dist, Entries
  <2>3. k \in Committed(c.n)
    BY SMT, <1>1, <1>2, <1>5, <2>1, <2>2
  <2> QED BY <1>3, <1>5, <2>3
<1> QED BY <1>4, <1>5 DEF Faulted, FaultedIn

\* Without AMOs every instruction retires with the operands of program order and
\* writes its own result (RetiresInOrder), whatever was forwarded, written back
\* late or retired in the cycle in which it was issued.
THEOREM BackendRetires ==
  ASSUME AmoFree
  PROVE  Spec => []RetiresInOrder
<1>1. Init => OperandsInOrder
  BY DEF Init, OperandsInOrder
<1>2. BInv /\ OperandInv /\ OperandsInOrder /\ [Next]_vars => OperandsInOrder'
  <2> SUFFICES ASSUME BInv, OperandInv, OperandsInOrder, [Next]_vars
               PROVE  OperandsInOrder'
    OBVIOUS
  <2> SUFFICES ASSUME "operand" \in alarm', "operand" \notin alarm PROVE FALSE
    BY DEF OperandsInOrder
  <2>1. RunCycle \/ FlushCycle
    BY DEF Next, vars
  <2>2. ASSUME NEW in \in CommitInputs PROVE "operand" \notin CommitAlarms(in,
     CommitStage(in).n)
    <3>1. CommitStage(in) \in CommitOutcomes
      BY CommitCount
    <3> DEFINE c == CommitStage(in)
    <3> HIDE DEF c
    <3>2. \A i \in Committed(c.n) : mem[i].instr.ok
      BY <3>1, RetiredNotFaulted DEF OperandInv, c
    <3>3. "operand" \notin CommitAlarms(in, c.n)
      BY <3>2 DEF CommitAlarms, Committed
    <3> QED BY <3>3 DEF c
  <2>3. \A c, d, ld_ret, st_wb, fpu_wb, branch_ex, unit_ready :
          RunStep(c, d, ld_ret, st_wb, fpu_wb, branch_ex, unit_ready) =>
            "operand" \notin RunAlarms(Issues(c, d, st_wb, fpu_wb, branch_ex, unit_ready), d)
    BY RunKeeps
  <2> QED BY <2>1, <2>2, <2>3, NewAlarm
<1>3. Spec => []OperandsInOrder
  BY <1>1, <1>2, BackendSafe, BackendOperands, PTL DEF Spec
<1>4. OperandsInOrder /\ ResultsInOrder => RetiresInOrder
  BY DEF RetiresInOrder
<1> QED BY <1>3, <1>4, BackendWritesResults, PTL

\* Without AMOs a flush restarts the front end exactly behind what has retired
\* (ResumeExact): precise exceptions, fences, CSR writes, returns and steps.
THEOREM BackendResume ==
  ASSUME AmoFree
  PROVE  Spec => []ResumeExact
<1>1. Init => ResumeExact
  BY DEF Init, ResumeExact
<1>2. BInv /\ AmoInv /\ ResumeExact /\ [Next]_vars => ResumeExact'
  <2> SUFFICES ASSUME BInv, AmoInv, ResumeExact, [Next]_vars PROVE ResumeExact'
    OBVIOUS
  <2> SUFFICES ASSUME "resume" \in alarm', "resume" \notin alarm PROVE FALSE
    BY DEF ResumeExact
  <2>1. RunCycle \/ FlushCycle
    BY DEF Next, vars
  <2>2. ASSUME NEW in \in CommitInputs PROVE "resume" \notin CommitAlarms(in, CommitStage(in).n)
    <3> DEFINE n == CommitStage(in).n
    <3>1. n = IF commit_ack_1(in) THEN 2 ELSE IF commit_ack_0(in) THEN 1 ELSE 0
      BY CommitCount
    <3>2. commit_ack_1(in) => commit_ack_0(in)
      BY DEF commit_ack_1
    <3>3. commit_ack_0(in) => head.valid /\ ~exception(in)
      BY DEF commit_ack_0, exception, go
    <3>4. ASSUME flush_ex(in), ~exception(in) PROVE commit_ack_0(in) /\ ~commit_ack_1(in)
      <4>1. commit_ack_0(in)
        BY <3>4 DEF flush_ex, single_step
      <4>2. head.instr.op # "AMO" /\ head.instr.fu = fu_of(head.instr.op)
        BY <3>3, <4>1, HeadFacts DEF AmoInv, Absent, head, commit_instr
      <4>3. head.instr.op \in CsrOps => head.instr.fu = "CSR"
        BY <4>2, Units
      <4>4. STEP \/ flush_dcache \/ head.instr.op \in CsrOps
        BY <3>4, <4>2 DEF flush_ex, single_step, drains, CsrOps
      <4>5. ~commit_ack_1(in)
        BY <4>3, <4>4 DEF commit_ack_1
      <4> QED BY <4>1, <4>5
    <3>5. flush_ex(in) => n = (IF exception(in) THEN 0 ELSE 1)
      BY <3>1, <3>2, <3>3, <3>4
    <3> HIDE DEF n
    <3>6. "resume" \notin CommitAlarms(in, n)
      BY <3>5 DEF CommitAlarms
    <3> QED BY <3>6 DEF n
  <2>3. \A c, d, ld_ret, st_wb, fpu_wb, branch_ex, unit_ready :
          RunStep(c, d, ld_ret, st_wb, fpu_wb, branch_ex, unit_ready) =>
            "resume" \notin RunAlarms(Issues(c, d, st_wb, fpu_wb, branch_ex, unit_ready), d)
    BY RunKeeps
  <2> QED BY <2>1, <2>2, <2>3, NewAlarm
<1> QED BY <1>1, <1>2, BackendSafe, BackendNoAmo, PTL DEF Spec

\* In every cycle a branch that becomes complete gets its target: only the branch
\* unit answers for it.
LEMMA RunTarget ==
  ASSUME BInv, TargetInv, RunCycle
  PROVE  TargetInv'
<1>1. PICK c, d, ld_ret, st_wb, fpu_wb, branch_ex, unit_ready :
        RunStep(c, d, ld_ret, st_wb, fpu_wb, branch_ex, unit_ready)
  BY RunCycleStep
<1> DEFINE wb == WbBus(fpu_wb, st_wb, d, branch_ex)
           issue == Issues(c, d, st_wb, fpu_wb, branch_ex, unit_ready)
           new == Issued(wb)
           done == Done(d, st_wb, fpu_wb)
<1>2. /\ d \in DivSteps /\ st_wb \in StoreReturns /\ fpu_wb \in FpuReturns
      /\ branch_ex \in BOOLEAN /\ SaveTarget(wb, c.n)
  BY <1>1 DEF RunStep, Run
<1>3. UnitInv /\ SlotInv /\ BusInv /\ \A i \in Entries : mem[i].valid => mem[i].issued
  BY DEF BInv, SbInv, ValidIsIssued
<1>4. Edge(issue, new, Committed(c.n), done)
  BY <1>1, RunEdge
<1>5. ASSUME NEW i \in Entries
      PROVE  i \in done <=> \E p \in WbPorts : wb[p].valid /\ wb[p].id = i
  BY SMT, <1>2, <1>3, BusFacts
<1>6. ASSUME NEW i \in Entries, i \in done, Pending(i), mem[i].instr.op = "BRANCH"
      PROVE  ex_q.op = "BRANCH" /\ ex_q.id = i
  <2>1. \/ fpu_wb.valid /\ fpu_wb.id = i /\ i \in fpu_out
        \/ st_wb.valid /\ st_wb.id = i /\ i \in lsu_out /\ mem[i].instr.fu # "LOAD"
        \/ LoadDue /\ ld_pipe.id = i
        \/ Immediate /\ ex_q.id = i
        \/ mul_q = i
        \/ div_valid(d) /\ div.id = i
    BY <1>2, <1>6, DoneCases
  <2>2. i # NoId
    BY SMT, <1>6, ScoreboardAssumption DEF NoId, Entries
  <2>3. div_valid(d) => div.state # "IDLE"
    BY <1>2 DEF div_valid, DivSteps
  <2>4. Immediate /\ ex_q.id = i
    BY <1>3, <1>6, <2>1, <2>2, <2>3 DEF UnitInv, Works, Owes
  <2>5. ex_q # NoOp
    BY SMT, <2>2, <2>4 DEF NoOp
  <2> QED BY <1>3, <1>6, <2>4, <2>5 DEF UnitInv, Works, Owes
<1>7. ASSUME NEW i \in Entries, i \in done, mem[i].issued PROVE Pending(i)
  <2>1. PICK p \in WbPorts : wb[p].valid /\ wb[p].id = i
    BY <1>5, <1>7
  <2>2. Owes(mem, i, PortOps(p)) \/ issue_cnt = 0
    BY <1>2, <2>1, PortOwner
  <2>3. issue_cnt # 0
    <3>1. SbInv /\ Dist(commit_pointer[0], i) < issue_cnt
      BY <1>7 DEF BInv, SbInv, RingInv
    <3>2. Dist(commit_pointer[0], i) \in 0 .. NR_ENTRIES - 1
      BY <1>7, <3>1, Ports, DistFacts
    <3>3. issue_cnt \in 0 .. NR_ENTRIES - 1
      BY <3>1 DEF SbInv, SbTypeOK, Entries
    <3> QED BY SMT, <3>1, <3>2, <3>3
  <2> QED BY <2>2, <2>3 DEF Owes, Pending
<1> HIDE DEF wb, issue, new, done
<1>8. ASSUME NEW i \in Entries, mem'[i].valid, ~mem'[i].ex, mem'[i].instr.op = "BRANCH"
      PROVE  i \in target'
  <2>1. i \notin Committed(c.n)
    BY <1>4, <1>8, FreeFields DEF Edge
  <2>2. ~(issue /\ i = issue_pointer)
    <3>1. ASSUME issue, i = issue_pointer PROVE mem'[i] = Pushed(new.instr, new.ex)
      BY <1>4, <3>1 DEF Edge
    <3>2. mem'[i] = Pushed(new.instr, new.ex)
            => mem'[i].valid = new.ex /\ mem'[i].ex = new.ex
      BY PushedSlot
    <3> QED BY <1>8, <3>1, <3>2
  <2>3. /\ mem[i].instr.op = "BRANCH" /\ ~mem[i].ex
        /\ mem[i].valid \/ (mem[i].issued /\ i \in done)
    BY <1>4, <1>8, <2>1, <2>2 DEF Edge
  <2>4. CASE mem[i].issued /\ i \in done
    BY <1>2, <1>5, <1>6, <1>7, <2>1, <2>3, <2>4 DEF SaveTarget, Pending
  <2>5. CASE ~(mem[i].issued /\ i \in done)
    BY <1>2, <1>5, <2>1, <2>3, <2>5 DEF SaveTarget, TargetInv
  <2> QED BY <2>4, <2>5
<1> QED BY <1>8 DEF TargetInv

\* The target of a complete branch is in its slot.
LEMMA BackendTargets == Spec => []TargetInv
<1>1. Init => TargetInv
  BY FreeFields DEF Init, SbInit, TargetInv
<1>2. BInv /\ TargetInv /\ [Next]_vars => TargetInv'
  <2> SUFFICES ASSUME BInv, TargetInv, [Next]_vars PROVE TargetInv'
    OBVIOUS
  <2>1. CASE RunCycle
    BY <2>1, RunTarget
  <2>2. CASE FlushCycle
    <3>1. \A i \in Entries : mem'[i] = FreeEntry
      BY <2>2 DEF FlushCycle, Flush
    <3> QED BY <3>1, FreeFields DEF TargetInv
  <2>3. CASE UNCHANGED vars
    BY <2>3 DEF vars, sbVars, TargetInv
  <2> QED BY <2>1, <2>2, <2>3 DEF Next
<1> QED BY <1>1, <1>2, BackendSafe, PTL DEF Spec

\* After a step the debugger returns to where the program goes on (StepResumes),
\* for programs without MRET and SRET, whose address csr_regfile.sv does not save.
THEOREM BackendStep ==
  ASSUME Without("XRET")
  PROVE  Spec => []StepResumes
<1>1. Init => StepResumes
  BY DEF Init, StepResumes
<1>2. BInv /\ TargetInv /\ Absent("XRET") /\ StepResumes /\ [Next]_vars => StepResumes'
  <2> SUFFICES ASSUME BInv, TargetInv, Absent("XRET"), StepResumes, [Next]_vars
               PROVE  StepResumes'
    OBVIOUS
  <2> SUFFICES ASSUME "dpc" \in alarm', "dpc" \notin alarm PROVE FALSE
    BY DEF StepResumes
  <2>1. RunCycle \/ FlushCycle
    BY DEF Next, vars
  <2>2. ASSUME NEW in \in CommitInputs PROVE "dpc" \notin CommitAlarms(in, CommitStage(in).n)
    <3> DEFINE n == CommitStage(in).n
    <3>1. single_step(in) => head.valid /\ ~head.ex /\ ~exception(in)
      BY DEF single_step, commit_ack_0, exception, go
    <3>2. ASSUME head.valid, ~head.ex
          PROVE  /\ head.instr.op # "XRET"
                 /\ head.instr.fu = "CTRL_FLOW" => commit_pointer[0] \in target
      <4>1. /\ commit_pointer[0] \in Entries /\ mem[commit_pointer[0]].issued
            /\ head.instr.op \in Operations /\ head.instr.fu = fu_of(head.instr.op)
        BY <3>2, HeadFacts
      <4>2. head.instr.op # "XRET"
        BY <4>1 DEF Absent, head, commit_instr
      <4>3. head.instr.fu = "CTRL_FLOW" => head.instr.op = "BRANCH"
        BY <4>1, OpCases
      <4>4. head.instr.op = "BRANCH" => commit_pointer[0] \in target
        BY <3>2, <4>1 DEF TargetInv, head, commit_instr
      <4> QED BY <4>2, <4>3, <4>4
    <3>3. single_step(in) => dpc(in) = successor
      BY <3>1, <3>2 DEF dpc, successor
    <3> HIDE DEF n
    <3>4. "dpc" \notin CommitAlarms(in, n)
      BY <3>3 DEF CommitAlarms
    <3> QED BY <3>4 DEF n
  <2>3. \A c, d, ld_ret, st_wb, fpu_wb, branch_ex, unit_ready :
          RunStep(c, d, ld_ret, st_wb, fpu_wb, branch_ex, unit_ready) =>
            "dpc" \notin RunAlarms(Issues(c, d, st_wb, fpu_wb, branch_ex, unit_ready), d)
    BY RunKeeps
  <2> QED BY <2>1, <2>2, <2>3, NewAlarm
<1>3. AbsentInv => Absent("XRET")
  BY DEF AbsentInv, Operations, CsrOps, FenceOps
<1> QED BY <1>1, <1>2, <1>3, BackendSafe, BackendAbsent, BackendTargets, PTL DEF Spec

\* Unless the debugger steps, no store is committed in a cycle with a flush
\* (CommitOrFlush), which the store buffer relies on.
THEOREM BackendStores ==
  ASSUME \A w \in DOMAIN Workloads : Workloads[w].step = FALSE
  PROVE  Spec => []CommitOrFlush
<1>1. Init => CommitOrFlush
  BY DEF Init, CommitOrFlush
<1>2. BInv /\ CommitOrFlush /\ [Next]_vars => CommitOrFlush'
  <2> SUFFICES ASSUME BInv, CommitOrFlush, [Next]_vars PROVE CommitOrFlush'
    OBVIOUS
  <2> SUFFICES ASSUME "commit_and_flush" \in alarm', "commit_and_flush" \notin alarm
               PROVE  FALSE
    BY DEF CommitOrFlush
  <2>1. RunCycle \/ FlushCycle
    BY DEF Next, vars
  <2>2. ASSUME NEW in \in CommitInputs
        PROVE  "commit_and_flush" \notin CommitAlarms(in, CommitStage(in).n)
    <3> DEFINE n == CommitStage(in).n
    <3>1. n > 0 => commit_ack_0(in)
      BY CommitCount
    <3>2. commit_ack_0(in) => head.valid /\ ~exception(in)
      BY DEF commit_ack_0, exception, go
    <3>3. ASSUME commit_ack_0(in), head.instr.op = "STORE" PROVE ~flush_ex(in)
      <4>1. head.instr.fu = "STORE"
        BY <3>2, <3>3, HeadFacts, Units
      <4>2. ~STEP
        BY DEF STEP, BInv
      <4> QED BY <3>2, <3>3, <4>1, <4>2 DEF flush_ex, single_step, drains, FenceOps
    <3> HIDE DEF n
    <3>4. "commit_and_flush" \notin CommitAlarms(in, n)
      BY <3>1, <3>3 DEF CommitAlarms
    <3> QED BY <3>4 DEF n
  <2>3. \A c, d, ld_ret, st_wb, fpu_wb, branch_ex, unit_ready :
          RunStep(c, d, ld_ret, st_wb, fpu_wb, branch_ex, unit_ready) =>
            "commit_and_flush"
               \notin RunAlarms(Issues(c, d, st_wb, fpu_wb, branch_ex, unit_ready), d)
    BY RunKeeps
  <2> QED BY <2>1, <2>2, <2>3, NewAlarm
<1> QED BY <1>1, <1>2, BackendSafe, PTL DEF Spec
=============================================================================
