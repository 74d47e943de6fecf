----------------------------- MODULE Scoreboard -----------------------------
(***************************************************************************)
(* The scoreboard of the issue stage (src/scoreboard.sv): a ring of        *)
(* NR_ENTRIES slots that holds every issued and not yet committed          *)
(* instruction.  The slot number is the transaction ID with which the      *)
(* functional units write back.  The registers of the RTL (mem_q,          *)
(* issue_cnt_q, issue_pointer_q, commit_pointer_q) are the variables, one  *)
(* clock edge is one step, and the signals on the ports are parameters of  *)
(* the step.                                                               *)
(*                                                                         *)
(* Data: an instruction is its functional unit and its destination         *)
(* register.  GPRs and FPRs are names of one set Regs, so that the         *)
(* is_rd_fpr comparisons are the equality of names.  An exception is one   *)
(* bit.  A slot that is released is reset to FreeEntry: the RTL keeps its  *)
(* old payload, which only the forwarding from write-back ports looks at   *)
(* (FwdPorts says how).                                                    *)
(***************************************************************************)
EXTENDS Integers, FiniteSets

CONSTANTS
  NR_ENTRIES,       \* slots of the ring
  NR_COMMIT_PORTS,  \* instructions that can retire in one cycle
  NR_WB_PORTS,      \* write-back ports
  Regs, X0,         \* register names, and the hard-wired zero
  FUs, NONE,        \* functional units, and "no functional unit"
  Value, NoValue,   \* results, and "no result yet"
  Instr, NoInstr    \* decoded instructions, and the reset value of a slot

ASSUME ScoreboardAssumption ==
  /\ NR_ENTRIES \in Nat /\ NR_ENTRIES >= 2
  /\ NR_COMMIT_PORTS \in Nat /\ NR_COMMIT_PORTS >= 1
  /\ NR_COMMIT_PORTS <= NR_ENTRIES
  /\ NR_WB_PORTS \in Nat
  /\ X0 \in Regs /\ NONE \in FUs /\ NoValue \in Value /\ NoInstr \in Instr
  /\ \A i \in Instr : i.fu \in FUs /\ i.rd \in Regs

VARIABLES
  mem,             \* mem_q
  issue_cnt,       \* issue_cnt_q
  issue_pointer,   \* issue_pointer_q
  commit_pointer   \* commit_pointer_q, one per commit port

sbVars == <<mem, issue_cnt, issue_pointer, commit_pointer>>

Entries == 0 .. NR_ENTRIES - 1
CommitPorts == 0 .. NR_COMMIT_PORTS - 1
WbPorts == 0 .. NR_WB_PORTS - 1

Entry == [issued : BOOLEAN, valid : BOOLEAN, ex : BOOLEAN,
          result : Value, instr : Instr]

FreeEntry == [issued |-> FALSE, valid |-> FALSE, ex |-> FALSE,
              result |-> NoValue, instr |-> NoInstr]

\* What a functional unit puts on a write-back port.
NoWriteBack == [valid |-> FALSE, id |-> 0, result |-> NoValue, ex |-> FALSE]

WriteBack ==
  {NoWriteBack} \cup [valid : {TRUE}, id : Entries, result : Value, ex : BOOLEAN]

\* Pointer arithmetic of BITS_ENTRIES bits.
Inc(p, k) == (p + k) % NR_ENTRIES

-----------------------------------------------------------------------------
(* Outputs                                                                 *)

\* Fault: the full flag is ignored.
issue_full_Never == FALSE

\* issue_full = &issue_cnt_q: one slot always stays free.
issue_full == issue_cnt = NR_ENTRIES - 1

commit_instr(k) == mem[commit_pointer[k]]

\* The lowest element of a set of port or slot numbers: the arbiter trees
\* are used with a fixed priority (rr_i = '0).
Lowest(S) == CHOOSE i \in S : \A j \in S : i <= j

Writers(r) == {i \in Entries : mem[i].issued /\ mem[i].instr.rd = r}

\* The unit that is going to write register r, NONE if there is none.
rd_clobber(r) ==
  IF r = X0 \/ Writers(r) = {} THEN NONE ELSE mem[Lowest(Writers(r))].instr.fu

\* Write-back ports that offer register r.  The RTL does not look at issued
\* here, so a late write-back offers whatever register its released slot
\* used to name: any register.
FwdPorts(r, wb) ==
  {p \in WbPorts : /\ wb[p].valid /\ ~wb[p].ex
                   /\ \/ mem[wb[p].id].instr.rd = r
                      \/ ~mem[wb[p].id].issued}

\* Fault: the result of a slot is forwarded before it is there.
FwdEntries_Early(r) == Writers(r)

FwdEntries(r) == {i \in Writers(r) : mem[i].valid}

rs_valid(r, wb) == r # X0 /\ (FwdPorts(r, wb) # {} \/ FwdEntries(r) # {})

\* The forwarded operand: its producer and its value.  Write-back ports have
\* a higher priority than slots.
rs_data(r, wb) ==
  IF FwdPorts(r, wb) # {}
  THEN LET p == Lowest(FwdPorts(r, wb))
       IN  [id |-> wb[p].id, result |-> wb[p].result]
  ELSE LET i == Lowest(FwdEntries(r))
       IN  [id |-> i, result |-> mem[i].result]

-----------------------------------------------------------------------------
(* One clock edge                                                          *)

SbInit ==
  /\ mem = [i \in Entries |-> FreeEntry]
  /\ issue_cnt = 0
  /\ issue_pointer = 0
  /\ commit_pointer = [k \in CommitPorts |-> 0]

\* A decoded instruction enters its slot; one that already carries an
\* exception is complete (decoder.sv: valid = ex.valid).
Pushed(instr, ex) ==
  [issued |-> TRUE, valid |-> ex, ex |-> ex, result |-> NoValue,
   instr |-> instr]

\* The write-back of slot i.  No two ports carry the same transaction ID
\* (the assertion on trans_id_i; the back end guarantees it), so the choice is unique.
Written(i, wb) ==
  LET ports == {p \in WbPorts : wb[p].valid /\ wb[p].id = i}
      port  == wb[CHOOSE p \in ports : TRUE]
  IN  IF mem[i].issued /\ ports # {}
      THEN [mem[i] EXCEPT !.valid = TRUE, !.result = port.result,
                          !.ex = @ \/ port.ex]
      ELSE mem[i]

\* Fault: only the first commit port releases its slot.
Committed_FirstOnly(n) == IF n = 0 THEN {} ELSE {commit_pointer[0]}

\* The slots acknowledged by the commit stage: its first n ports.
Committed(n) == {commit_pointer[k] : k \in 0 .. n - 1}

\* The issue FIFO, the write-back, the commit ports and the counters.
\* push is a set of at most one instruction (decoded, with its exception).
Advance(push, wb, n) ==
  /\ mem' = [i \in Entries |->
               IF i \in Committed(n) THEN FreeEntry
               ELSE IF i = issue_pointer /\ push # {}
                    THEN LET p == CHOOSE p \in push : TRUE
                         IN  Pushed(p.instr, p.ex)
                    ELSE Written(i, wb)]
  /\ issue_cnt' = issue_cnt - n + (IF push = {} THEN 0 ELSE 1)
  /\ issue_pointer' = IF push = {} THEN issue_pointer ELSE Inc(issue_pointer, 1)
  /\ commit_pointer' = [k \in CommitPorts |-> Inc(Inc(commit_pointer[0], n), k)]

\* flush_i clears every slot and all the pointers, so that all commit ports
\* look at slot 0 in the next cycle.
Flush ==
  /\ mem' = [i \in Entries |-> FreeEntry]
  /\ issue_cnt' = 0
  /\ issue_pointer' = 0
  /\ commit_pointer' = [k \in CommitPorts |-> 0]

-----------------------------------------------------------------------------
(* The scoreboard on its own, with every environment that keeps to the     *)
(* assertions of the RTL: an instruction is issued only when there is room *)
(* (decoded_instr_ack_o), a commit port is acknowledged only if its        *)
(* instruction is valid and the lower ports are acknowledged too, and      *)
(* write-back IDs are distinct.  Write-backs are otherwise arbitrary:      *)
(* repeated, late, or for slots that were never issued.                    *)

Pushes == {{}} \cup {{[instr |-> i, ex |-> x]} : i \in Instr, x \in BOOLEAN}

DistinctIds(wb) ==
  \A p, q \in WbPorts :
     wb[p].valid /\ wb[q].valid /\ wb[p].id = wb[q].id => p = q

AckOk(n) == \A k \in 0 .. n - 1 : commit_instr(k).valid

SbAdvance ==
  \E push \in Pushes, wb \in [WbPorts -> WriteBack], n \in 0 .. NR_COMMIT_PORTS :
     /\ push # {} => ~issue_full
     /\ DistinctIds(wb)
     /\ AckOk(n)
     /\ Advance(push, wb, n)

SbNext == SbAdvance \/ Flush

SbSpec == SbInit /\ [][SbNext]_sbVars

-----------------------------------------------------------------------------
(* Properties                                                              *)

\* The registers keep their types (the widths of the declarations).
SbTypeOK ==
  /\ mem \in [Entries -> Entry]
  /\ issue_cnt \in Entries
  /\ issue_pointer \in Entries
  /\ commit_pointer \in [CommitPorts -> Entries]

\* How far slot i is behind slot a in the ring.
Dist(a, i) == IF i >= a THEN i - a ELSE i - a + NR_ENTRIES

\* The slots between the commit pointer and the issue pointer are exactly the
\* issued ones, and issue_cnt counts them: no instruction is ever lost from
\* the ring or counted twice, whatever is written back, retired or flushed.
RingInv ==
  /\ \A i \in Entries : mem[i].issued <=> Dist(commit_pointer[0], i) < issue_cnt
  /\ issue_pointer = Inc(commit_pointer[0], issue_cnt)

\* A result can only be in a slot that is issued, so that a commit port never
\* sees a completed instruction in a slot that was flushed or retired, in
\* particular not when a write-back arrives late.
ValidIsIssued == \A i \in Entries : mem[i].valid => mem[i].issued

\* The commit ports look at consecutive slots.  They coincide only in the
\* cycle after reset or a flush, when the ring is empty, so that no
\* instruction can retire through two ports.
CommitPortsInv ==
  \/ \A k \in CommitPorts : commit_pointer[k] = Inc(commit_pointer[0], k)
  \/ issue_cnt = 0 /\ \A k \in CommitPorts : commit_pointer[k] = 0

\* The inductive invariant.
SbInv == SbTypeOK /\ RingInv /\ ValidIsIssued /\ CommitPortsInv

\* An issued instruction stays in its slot, with its functional unit and
\* destination, until it retires from the commit pointer or is flushed: the
\* transaction ID a functional unit holds stays unique.
SlotKept ==
  \A i \in Entries :
     mem[i].issued /\ (mem'[i].instr # mem[i].instr \/ ~mem'[i].issued)
       => \/ Dist(commit_pointer[0], i) < Dist(commit_pointer[0], commit_pointer'[0])
          \/ Flush

\* SlotKept holds in every cycle of the scoreboard.
SlotStable == [][SlotKept]_sbVars

-----------------------------------------------------------------------------
(* What the rest of the core may rely on: a queue in program order.        *)

Queued(e) == [instr |-> e.instr, done |-> e.valid, ex |-> e.ex, result |-> e.result]

\* The scoreboard implements the reorder queue whose first element is in the
\* slot of commit port 0: pointers, wrap-around and the free slot are hidden.
Reorder == INSTANCE ReorderQueue WITH
  Capacity  <- NR_ENTRIES - 1,
  MaxRetire <- NR_COMMIT_PORTS,
  queue     <- [k \in 1 .. issue_cnt |->
                  Queued(mem[Inc(commit_pointer[0], k - 1)])]

\* Instructions leave the scoreboard in the order in which they entered it,
\* each one once and only when complete; a write-back changes only the
\* instruction it belongs to; nothing else disappears except by a flush.
ImplementsReorderQueue == Reorder!Spec
=============================================================================
