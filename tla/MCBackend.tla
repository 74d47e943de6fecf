----------------------------- MODULE MCBackend ------------------------------
(***************************************************************************)
(* A scoreboard of four slots and programs over one register besides x0.   *)
(***************************************************************************)
EXTENDS Backend

\* Operations that read no register.
NoSource == (NoDestination \ {"STORE"}) \cup {"EXC"}

Programs(ops) ==
  {f \in [op : ops, rd : Regs, rs : {{}, Regs \ {"x0"}}, ex : BOOLEAN,
          mispredict : BOOLEAN] :
     /\ f.op \in NoDestination => f.rd = "x0"
     /\ f.op \in NoSource => f.rs = {}
     /\ f.op = "EXC" => f.ex
     /\ f.ex => f.op \in {"EXC", "ALU"} /\ f.rs = {}
     /\ f.mispredict => f.op = "BRANCH"}

Load(ops, step) == [fetch |-> Programs(ops), step |-> step]
NoFault(load) == [load EXCEPT !.fetch = {f \in @ : ~f.ex}]

\* Data dependences and branches, where loads may fault; the units that share a
\* write-back port; the FPU, which has its own; instructions with side effects;
\* single stepping.
MCWorkloads ==
  [data   |-> NoFault(Load({"ALU", "LOAD", "BRANCH"}, FALSE)),
   units  |-> Load({"ALU", "CSR", "BRANCH", "MUL", "DIV"}, FALSE),
   fpu    |-> Load({"DIV", "FPU"}, FALSE),
   system |-> Load({"ALU", "CSR", "FENCE", "STORE", "XRET"}, FALSE),
   step   |-> Load({"BRANCH", "CSR", "FENCE_I", "DRET", "WFI"}, TRUE)]
LiveWorkloads == [live |-> Load({"LOAD", "DIV", "FENCE"}, FALSE)]
XretWorkloads == [xret |-> Load({"ALU", "XRET", "DRET"}, TRUE)]
AmoWorkloads == [amo |-> Load({"ALU", "AMO"}, FALSE)]

MCFUs == {"NONE", "ALU", "CTRL_FLOW", "MULT", "CSR", "LOAD", "STORE", "FPU"}
MCNoInstr == [op |-> "none", fu |-> "NONE", rd |-> "x0", ok |-> TRUE]
MCInstr == {MCNoInstr} \cup
  [op : Operations, fu : MCFUs, rd : Regs, ok : BOOLEAN]
=============================================================================
