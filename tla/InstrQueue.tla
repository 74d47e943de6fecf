----------------------------- MODULE InstrQueue -----------------------------
(***************************************************************************)
(* The instruction queue between fetch and decode (frontend/instr_queue.sv *)
(* for the 32-bit fetch width of the build, so two instructions per fetch  *)
(* packet).  Each packet's instructions go round robin to two FIFOs; the   *)
(* predicted targets of taken control flow go to a FIFO of their own, and  *)
(* the queue rebuilds the program counter of the instruction at its head   *)
(* from them.  What does not fit is fetched again: the queue asks for a    *)
(* replay from the first instruction it could not take.                    *)
(*                                                                         *)
(* A packet is a record of the slots' valid bits, instructions, addresses  *)
(* and control-flow types, the packet's fault bit and the one predicted    *)
(* address.  Addresses are halfword numbers modulo HALVES.  Of an          *)
(* instruction the queue looks at its size only (instr.short: the low two  *)
(* bits are not 2'b11).                                                    *)
(***************************************************************************)
EXTENDS Naturals, Sequences

CONSTANTS DEPTH,        \* FETCH_FIFO_DEPTH: of each instruction FIFO and of
                        \* the address FIFO
          HALVES        \* number of halfwords of the address space

ASSUME QueueAssumption == DEPTH \in Nat \ {0} /\ HALVES \in Nat \ {0}

Addr == 0 .. HALVES - 1
Slot == {0, 1}

VARIABLES fifo,             \* the two instruction FIFOs
          addrs,            \* the FIFO of predicted addresses
          idx_is,           \* FIFO the next instruction is pushed to
          idx_ds,           \* FIFO the next instruction is popped from
          pc,               \* address of the instruction at the head
          reset_address     \* the next packet defines pc

qvars == <<fifo, addrs, idx_is, idx_ds, pc, reset_address>>

QInit ==
  /\ fifo = [f \in Slot |-> <<>>]
  /\ addrs = <<>>
  /\ idx_is = 0
  /\ idx_ds = 0
  /\ pc = 0
  /\ reset_address = TRUE

-----------------------------------------------------------------------------
(* Input side *)

full(f) == Len(fifo[f]) = DEPTH
full_address == Len(addrs) = DEPTH

ready_o == (\A f \in Slot : ~full(f)) /\ ~full_address

\* The instructions behind the first taken control flow of the packet are masked.
valid(pk, s) == pk.valid[s] /\ (s = 1 => pk.cf[0] = "NoCF")

\* The slot of the packet that FIFO f takes.
slot(f) == IF f = idx_is THEN 0 ELSE 1

fifo_pos(pk, f) == valid(pk, slot(f))

push_instr(pk, f) == fifo_pos(pk, f) /\ ~full(f)

push_address(pk) == \E f \in Slot : push_instr(pk, f) /\ pk.cf[slot(f)] # "NoCF"

instr_overflow(pk) == \E f \in Slot : full(f) /\ fifo_pos(pk, f)

address_overflow(pk) == full_address /\ push_address(pk)

push_instr_fifo(pk, f) == push_instr(pk, f) /\ ~address_overflow(pk)

replay_o(pk) == instr_overflow(pk) \/ address_overflow(pk)

\* Fault: the instructions offered are counted, not those pushed.
shamt_Offered(pk) == IF fifo_pos(pk, 0) # fifo_pos(pk, 1) THEN 1 ELSE 0

\* The one-bit count of pushed instructions: two pushes wrap to zero.
shamt(pk) == IF push_instr_fifo(pk, 0) # push_instr_fifo(pk, 1) THEN 1 ELSE 0


replay_addr(pk) == IF address_overflow(pk) THEN pk.addr[0] ELSE pk.addr[shamt(pk)]

-----------------------------------------------------------------------------
(* Output side *)

fetch_entry_valid == \E f \in Slot : fifo[f] # <<>>

fetch_entry == Head(fifo[idx_ds])

pop_address(ready) == ready /\ fetch_entry.cf # "NoCF"

advance == (pc + (IF fetch_entry.instr.short THEN 1 ELSE 2)) % HALVES

next_pc(pk, ready) ==
  IF pk.valid[0] /\ reset_address THEN pk.addr[0]
  ELSE IF pop_address(ready) THEN Head(addrs)
  ELSE IF ready THEN advance
  ELSE pc

next_fifo(pk, ready, f) ==
  LET popped == IF ready /\ f = idx_ds THEN Tail(fifo[f]) ELSE fifo[f]
  IN  IF push_instr_fifo(pk, f)
      THEN Append(popped, [instr |-> pk.instr[slot(f)], cf |-> pk.cf[slot(f)], ex |-> pk.ex])
      ELSE popped

next_addrs(pk, ready) ==
  LET popped == IF pop_address(ready) THEN Tail(addrs) ELSE addrs
  IN  IF push_address(pk) /\ ~full_address THEN Append(popped, pk.predict) ELSE popped

\* One clock edge.  Decode takes an entry only while it is valid (id_stage.sv:108).
QueueStep(pk, ready, flush) ==
  /\ ready => fetch_entry_valid
  /\ fifo' = [f \in Slot |-> IF flush THEN <<>> ELSE next_fifo(pk, ready, f)]
  /\ addrs' = IF flush THEN <<>> ELSE next_addrs(pk, ready)
  /\ idx_is' = IF flush THEN 0 ELSE (idx_is + shamt(pk)) % 2
  /\ idx_ds' = IF flush THEN 0 ELSE (idx_ds + (IF ready THEN 1 ELSE 0)) % 2
  /\ pc' = next_pc(pk, ready)
  /\ reset_address' = (flush \/ (reset_address /\ ~pk.valid[0]))

=============================================================================
