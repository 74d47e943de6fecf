--------------------------- MODULE BackendProofs ----------------------------
(***************************************************************************)
(* Proofs about the scoreboard (Scoreboard.tla) and the back end           *)
(* (Backend.tla) around it, for every ring size, number of commit and      *)
(* write-back ports, register set and program:                             *)
(*                                                                         *)
(*   ScoreboardSafe     the inductive invariant SbInv of the scoreboard    *)
(*   ScoreboardSlots    a slot keeps its instruction until it is free      *)
(*   ScoreboardQueue    the refinement of the abstract queue               *)
(*   BackendSafe        the inductive invariant BInv of the back end       *)
(*                                                                         *)
(* SbInv: the issued slots are the ones less than issue_cnt ahead of the   *)
(* commit pointer (RingInv); that needs a commit port to see only issued   *)
(* slots (ValidIsIssued) and the ports to see different ones               *)
(* (CommitPortsInv).  What retires is a prefix of the abstract queue.      *)
(*                                                                         *)
(* BInv is in BackendInv.tla.  A run cycle is opened once, by the lemmas   *)
(* RunPorts, RunEdge and RunUnits; the lemmas behind them use what those   *)
(* export.  BackendOrder draws the conclusions.                            *)
(***************************************************************************)
EXTENDS BackendInv, Sequences, TLAPS

\* The prover of a leaf that names none.
USE Zenon

-----------------------------------------------------------------------------
(* The scoreboard                                                           *)

\* Reducing a number below 2N modulo N subtracts N at most once.
LEMMA ModWrap ==
  ASSUME NEW N \in Nat, N > 0, NEW x \in Nat, x >= N, x < 2 * N
  PROVE  x % N = x - N
<1> DEFINE q == x \div N
           r == x % N
<1>1. q \in Int /\ r \in 0 .. N - 1 /\ x = N * q + r
  BY SMT
<1>2. q = 1
  <2> HIDE DEF q, r
  <2>1. CASE q <= 0
    <3>1. N * q <= 0
      BY SMT, <1>1, <2>1
    <3> QED BY SMT, <1>1, <3>1
  <2>2. CASE q >= 2
    <3>1. N * q >= N * 2
      BY SMT, <1>1, <2>2
    <3> QED BY SMT, <1>1, <3>1
  <2> QED BY SMT, <1>1, <2>1, <2>2
<1> QED BY SMT, <1>1, <1>2

\* The wrap-around of the pointers of BITS_ENTRIES bits, without modulo.
LEMMA IncCases ==
  ASSUME NEW p \in Entries, NEW k \in 0 .. NR_ENTRIES
  PROVE  /\ Inc(p, k) = IF p + k < NR_ENTRIES THEN p + k ELSE p + k - NR_ENTRIES
         /\ Inc(p, k) \in Entries
<1>1. NR_ENTRIES \in Nat /\ NR_ENTRIES > 0
  BY SMT, ScoreboardAssumption
<1>2. p \in Nat /\ k \in Nat /\ p + k < 2 * NR_ENTRIES
  BY SMT, <1>1 DEF Entries
<1>3. CASE p + k < NR_ENTRIES
  BY SMT, <1>1, <1>2, <1>3 DEF Inc, Entries
<1>4. CASE p + k >= NR_ENTRIES
  BY SMT, <1>1, <1>2, <1>4, ModWrap DEF Inc, Entries
<1> QED BY SMT, <1>1, <1>2, <1>3, <1>4

\* An increment by zero.
LEMMA IncZero ==
  ASSUME NEW p \in Entries
  PROVE  Inc(p, 0) = p
<1>1. NR_ENTRIES \in Nat /\ 0 \in 0 .. NR_ENTRIES
  BY SMT, ScoreboardAssumption
<1>2. Inc(p, 0) = IF p + 0 < NR_ENTRIES THEN p + 0 ELSE p + 0 - NR_ENTRIES
  BY <1>1, IncCases
<1> QED BY SMT, <1>1, <1>2 DEF Entries

\* Distance in the ring: it is below NR_ENTRIES, and the slot reached from a
\* by an increment is the only one at that distance.
LEMMA DistFacts ==
  ASSUME NEW a \in Entries, NEW i \in Entries
  PROVE  /\ Dist(a, i) \in 0 .. NR_ENTRIES - 1
         /\ \A k \in 0 .. NR_ENTRIES - 1 : Dist(a, i) = k <=> i = Inc(a, k)
<1>1. NR_ENTRIES \in Nat /\ a \in 0 .. NR_ENTRIES - 1 /\ i \in 0 .. NR_ENTRIES - 1
  BY ScoreboardAssumption DEF Entries
<1>2. Dist(a, i) \in 0 .. NR_ENTRIES - 1
  BY SMT, <1>1 DEF Dist
<1>3. ASSUME NEW k \in 0 .. NR_ENTRIES - 1
      PROVE  Dist(a, i) = k <=> i = Inc(a, k)
  <2>1. Inc(a, k) = IF a + k < NR_ENTRIES THEN a + k ELSE a + k - NR_ENTRIES
    BY SMT, <1>1, IncCases
  <2> QED BY SMT, <1>1, <2>1 DEF Dist
<1> QED BY <1>2, <1>3

\* Moving the origin of the ring by n slots subtracts n from the distances.
LEMMA DistShift ==
  ASSUME NEW a \in Entries, NEW i \in Entries, NEW n \in 0 .. NR_ENTRIES - 1
  PROVE  Dist(Inc(a, n), i) = IF Dist(a, i) >= n THEN Dist(a, i) - n
                              ELSE Dist(a, i) - n + NR_ENTRIES
<1>1. NR_ENTRIES \in Nat /\ a \in 0 .. NR_ENTRIES - 1 /\ i \in 0 .. NR_ENTRIES - 1
  BY ScoreboardAssumption DEF Entries
<1>2. Inc(a, n) = IF a + n < NR_ENTRIES THEN a + n ELSE a + n - NR_ENTRIES
  BY SMT, <1>1, IncCases
<1> QED BY SMT, <1>1, <1>2 DEF Dist

-----------------------------------------------------------------------------

\* A slot that is written back or left alone keeps being an Entry, stays
\* issued or free, and gets a result only if it is issued.
LEMMA WrittenFacts ==
  ASSUME mem \in [Entries -> Entry], ValidIsIssued,
         NEW i \in Entries, NEW wb \in [WbPorts -> WriteBack]
  PROVE  /\ Written(i, wb) \in Entry
         /\ Written(i, wb).issued = mem[i].issued
         /\ Written(i, wb).instr = mem[i].instr
         /\ Written(i, wb).valid => Written(i, wb).issued
<1> DEFINE ports == {p \in WbPorts : wb[p].valid /\ wb[p].id = i}
           port == wb[CHOOSE p \in ports : TRUE]
<1>1. mem[i] \in Entry
  OBVIOUS
<1>2. CASE mem[i].issued /\ ports # {}
  <2>1. port \in WriteBack
    BY <1>2
  <2>2. port.result \in Value /\ port.ex \in BOOLEAN
    <3> HIDE DEF port
    <3>1. CASE port = NoWriteBack
      BY <3>1, ScoreboardAssumption DEF NoWriteBack
    <3>2. CASE port \in [valid : {TRUE}, id : Entries, result : Value, ex : BOOLEAN]
      BY <3>2
    <3> QED BY <2>1, <3>1, <3>2 DEF WriteBack
  <2>3. Written(i, wb) = [mem[i] EXCEPT !.valid = TRUE, !.result = port.result,
                                        !.ex = @ \/ port.ex]
    BY <1>2 DEF Written
  <2> HIDE DEF port
  <2> QED BY <1>1, <1>2, <2>2, <2>3 DEF Entry
<1>3. CASE ~(mem[i].issued /\ ports # {})
  <2>1. Written(i, wb) = mem[i]
    BY <1>3 DEF Written
  <2> QED BY <1>1, <2>1 DEF ValidIsIssued
<1> QED BY <1>2, <1>3

\* The ring of the reset state, which is also the state after a flush, is empty.
LEMMA ResetRing ==
  /\ \A i \in Entries : ~(Dist(0, i) < 0)
  /\ Inc(0, 0) = 0
  /\ ~FreeEntry.issued
<1>1. 0 \in Entries /\ NR_ENTRIES \in Nat
  BY SMT, ScoreboardAssumption DEF Entries
<1>2. \A i \in Entries : Dist(0, i) \in 0 .. NR_ENTRIES - 1
  BY <1>1, DistFacts
<1>3. Inc(0, 0) = 0
  BY SMT, <1>1, IncCases DEF Entries
<1> QED BY SMT, <1>1, <1>2, <1>3 DEF FreeEntry

\* The reset state satisfies the invariant.
LEMMA ResetInv ==
  ASSUME mem = [i \in Entries |-> FreeEntry], issue_cnt = 0, issue_pointer = 0,
         commit_pointer = [k \in CommitPorts |-> 0]
  PROVE  SbInv
<1>1. 0 \in Entries /\ 0 \in CommitPorts
  BY SMT, ScoreboardAssumption DEF Entries, CommitPorts
<1>2. FreeEntry \in Entry
  BY ScoreboardAssumption DEF FreeEntry, Entry
<1>3. SbTypeOK
  BY <1>1, <1>2 DEF SbTypeOK
<1>4. RingInv
  <2>1. commit_pointer[0] = 0 /\ \A i \in Entries : mem[i] = FreeEntry
    BY <1>1
  <2> QED BY <2>1, ResetRing DEF RingInv
<1>5. ValidIsIssued
  BY DEF ValidIsIssued, FreeEntry
<1>6. CommitPortsInv
  BY DEF CommitPortsInv
<1> QED BY <1>3, <1>4, <1>5, <1>6 DEF SbInv

\* Commit ports that may be acknowledged see the n oldest instructions.
LEMMA CommittedFacts ==
  ASSUME SbInv, NEW n \in 0 .. NR_COMMIT_PORTS, AckOk(n)
  PROVE  /\ n <= issue_cnt
         /\ \A i \in Entries : i \in Committed(n) <=> Dist(commit_pointer[0], i) < n
<1> DEFINE c == commit_pointer[0]
<1>1. /\ NR_ENTRIES \in Nat /\ NR_COMMIT_PORTS \in 1 .. NR_ENTRIES
      /\ n \in Nat /\ issue_cnt \in Nat /\ c \in Entries
      /\ \A k \in 0 .. n - 1 : k \in CommitPorts /\ k \in 0 .. NR_ENTRIES - 1
  BY SMT, ScoreboardAssumption DEF SbInv, SbTypeOK, Entries, CommitPorts
<1>2. \A k \in 0 .. n - 1 : /\ commit_pointer[k] \in Entries
                           /\ Dist(c, commit_pointer[k]) < issue_cnt
  BY <1>1 DEF AckOk, commit_instr, SbInv, SbTypeOK, ValidIsIssued, RingInv
<1>3. CASE n = 0
  BY SMT, <1>1, <1>3, DistFacts DEF Committed
<1>4. CASE n > 0
  <2>1. \A k \in CommitPorts : commit_pointer[k] = Inc(c, k)
    <3>1. 0 \in 0 .. n - 1
      BY SMT, <1>1, <1>4
    <3>2. issue_cnt # 0
      BY SMT, <1>1, <1>2, <3>1, DistFacts
    <3> QED BY <3>2 DEF SbInv, CommitPortsInv
  <2>2. \A k \in 0 .. n - 1 : Dist(c, commit_pointer[k]) = k
    BY <1>1, <1>2, <2>1, DistFacts
  <2>3. n <= issue_cnt
    <3>1. n - 1 \in 0 .. n - 1
      BY SMT, <1>1, <1>4
    <3>2. n - 1 < issue_cnt
      BY <1>2, <2>2, <3>1
    <3> QED BY SMT, <1>1, <3>2
  <2>4. ASSUME NEW i \in Entries
        PROVE  i \in Committed(n) <=> Dist(c, i) < n
    <3>1. Dist(c, i) \in 0 .. NR_ENTRIES - 1
      BY <1>1, DistFacts
    <3>2. ASSUME i \in Committed(n) PROVE Dist(c, i) < n
      BY SMT, <1>1, <2>2, <3>2 DEF Committed
    <3>3. ASSUME Dist(c, i) < n PROVE i \in Committed(n)
      <4> DEFINE k == Dist(c, i)
      <4>1. k \in 0 .. n - 1
        BY SMT, <1>1, <3>1, <3>3
      <4>2. i = commit_pointer[k]
        BY SMT, <1>1, <2>1, <3>1, <4>1, DistFacts
      <4> QED BY <4>1, <4>2 DEF Committed
    <3> QED BY <3>2, <3>3
  <2> QED BY <2>3, <2>4
<1> QED BY SMT, <1>1, <1>3, <1>4

\* A clock edge without a flush.
LEMMA AdvanceInv ==
  ASSUME SbInv,
         NEW push \in Pushes, NEW wb \in [WbPorts -> WriteBack],
         NEW n \in 0 .. NR_COMMIT_PORTS,
         push # {} => ~issue_full, AckOk(n), Advance(push, wb, n)
  PROVE  SbInv'
<1> DEFINE c == commit_pointer[0]
           new == CHOOSE p \in push : TRUE
           b == IF push = {} THEN 0 ELSE 1
<1>1. /\ NR_ENTRIES \in Nat /\ NR_ENTRIES >= 2
      /\ NR_COMMIT_PORTS \in 1 .. NR_ENTRIES /\ n \in Nat
      /\ issue_cnt \in 0 .. NR_ENTRIES - 1 /\ c \in Entries
      /\ issue_pointer \in Entries /\ 0 \in CommitPorts
      /\ b \in {0, 1} /\ (b = 1 => issue_cnt # NR_ENTRIES - 1)
  BY SMT, ScoreboardAssumption DEF SbInv, SbTypeOK, Entries, CommitPorts, issue_full
<1>2. n <= issue_cnt /\ n \in 0 .. NR_ENTRIES - 1
  BY SMT, <1>1, CommittedFacts
<1>3. \A i \in Entries : i \in Committed(n) <=> Dist(c, i) < n
  BY CommittedFacts
<1>4. /\ commit_pointer' = [k \in CommitPorts |-> Inc(Inc(c, n), k)]
      /\ commit_pointer'[0] = Inc(c, n)
      /\ commit_pointer'[0] \in Entries
  <2>1. Inc(c, n) \in Entries
    BY SMT, <1>1, <1>2, IncCases
  <2>2. Inc(Inc(c, n), 0) = Inc(c, n)
    BY SMT, <1>1, <2>1, IncCases DEF Entries
  <2> QED BY <1>1, <2>1, <2>2 DEF Advance
<1>5. issue_cnt' = issue_cnt - n + b /\ issue_cnt' \in 0 .. NR_ENTRIES - 1
  BY SMT, <1>1, <1>2 DEF Advance
<1>6. issue_pointer' = Inc(issue_pointer, b)
  <2>1. Inc(issue_pointer, 0) = issue_pointer
    BY SMT, <1>1, IncCases DEF Entries
  <2> QED BY <2>1 DEF Advance
<1>7. \A i \in Entries :
        mem'[i] = IF Dist(c, i) < n THEN FreeEntry
                  ELSE IF i = issue_pointer /\ push # {}
                       THEN Pushed(new.instr, new.ex) ELSE Written(i, wb)
  BY SMT, <1>3 DEF Advance
<1>8. push # {} => Pushed(new.instr, new.ex) \in Entry
  <2>1. push # {} => new.instr \in Instr /\ new.ex \in BOOLEAN
    BY SMT DEF Pushes
  <2> QED BY <2>1, ScoreboardAssumption DEF Pushed, Entry
<1>9. SbTypeOK'
  <2>1. \A i \in Entries : mem'[i] \in Entry
    <3>1. FreeEntry \in Entry
      BY ScoreboardAssumption DEF FreeEntry, Entry
    <3> QED BY <1>7, <1>8, <3>1, WrittenFacts DEF SbInv, SbTypeOK
  <2>2. mem' \in [Entries -> Entry]
    BY <2>1 DEF Advance
  <2>3. commit_pointer' \in [CommitPorts -> Entries]
    <3>1. \A k \in CommitPorts : k \in 0 .. NR_ENTRIES
      BY SMT, <1>1 DEF CommitPorts
    <3> QED BY <1>1, <1>4, <3>1, IncCases
  <2>4. issue_pointer' \in Entries
    BY SMT, <1>1, <1>6, IncCases
  <2> QED BY <1>5, <2>2, <2>3, <2>4 DEF SbTypeOK, Entries
<1>10. ValidIsIssued'
  <2>1. push # {} => Pushed(new.instr, new.ex).issued
    BY DEF Pushed
  <2>2. \A i \in Entries : mem'[i].valid => mem'[i].issued
    BY SMT, <1>7, <2>1, WrittenFacts DEF SbInv, SbTypeOK, FreeEntry
  <2> QED BY <2>2 DEF ValidIsIssued
<1>11. RingInv'
  <2>1. ASSUME NEW i \in Entries
        PROVE  mem'[i].issued <=> Dist(commit_pointer'[0], i) < issue_cnt'
    <3> DEFINE d == Dist(c, i)
    <3>1. d \in 0 .. NR_ENTRIES - 1
      BY <1>1, DistFacts
    <3>2. i = issue_pointer <=> d = issue_cnt
      BY <1>1, DistFacts DEF SbInv, RingInv
    <3>3. mem[i].issued <=> d < issue_cnt
      BY DEF SbInv, RingInv
    <3>4. mem'[i].issued <=> d >= n /\ (d < issue_cnt \/ (d = issue_cnt /\ b = 1))
      <4>1. CASE d < n
        <5>1. mem'[i] = FreeEntry
          BY <1>7, <4>1
        <5>2. ~mem'[i].issued
          BY SMT, <5>1 DEF FreeEntry
        <5> QED BY SMT, <1>2, <3>1, <4>1, <5>2
      <4>2. CASE d >= n /\ i = issue_pointer /\ push # {}
        <5>1. mem'[i] = Pushed(new.instr, new.ex)
          <6>1. ~(d < n)
            BY SMT, <1>2, <3>1, <4>2
          <6> QED BY <1>7, <4>2, <6>1
        <5>2. mem'[i].issued
          BY SMT, <5>1 DEF Pushed
        <5> QED BY <3>2, <4>2, <5>2
      <4>3. CASE d >= n /\ ~(i = issue_pointer /\ push # {})
        <5>1. mem'[i] = Written(i, wb)
          <6>1. ~(d < n)
            BY SMT, <1>2, <3>1, <4>3
          <6> QED BY <1>7, <4>3, <6>1
        <5>2. mem'[i].issued = mem[i].issued
          BY <5>1, WrittenFacts DEF SbInv, SbTypeOK
        <5> QED BY SMT, <3>2, <3>3, <4>3, <5>2
      <4> QED BY SMT, <1>2, <3>1, <4>1, <4>2, <4>3
    <3>5. Dist(commit_pointer'[0], i) = IF d >= n THEN d - n ELSE d - n + NR_ENTRIES
      BY SMT, <1>1, <1>2, <1>4, DistShift
    <3> QED
      <4> HIDE DEF d, b
      <4> QED BY SMT, <1>1, <1>2, <1>5, <3>1, <3>4, <3>5
  <2>2. issue_pointer' = Inc(commit_pointer'[0], issue_cnt')
    <3>1. issue_pointer = Inc(c, issue_cnt)
      BY DEF SbInv, RingInv
    <3> HIDE DEF b, c
    <3>2. Inc(c, issue_cnt) = IF c + issue_cnt < NR_ENTRIES THEN c + issue_cnt
                              ELSE c + issue_cnt - NR_ENTRIES
      BY SMT, <1>1, IncCases
    <3>3. Inc(c, n) = IF c + n < NR_ENTRIES THEN c + n ELSE c + n - NR_ENTRIES
      BY SMT, <1>1, <1>2, IncCases
    <3>4. Inc(issue_pointer, b) = IF issue_pointer + b < NR_ENTRIES THEN issue_pointer + b
                                  ELSE issue_pointer + b - NR_ENTRIES
      BY SMT, <1>1, IncCases
    <3>5. Inc(commit_pointer'[0], issue_cnt')
            = IF commit_pointer'[0] + issue_cnt' < NR_ENTRIES
              THEN commit_pointer'[0] + issue_cnt'
              ELSE commit_pointer'[0] + issue_cnt' - NR_ENTRIES
      BY SMT, <1>1, <1>4, <1>5, IncCases
    <3> QED BY SMT, <1>1, <1>2, <1>4, <1>5, <1>6, <3>1, <3>2, <3>3, <3>4, <3>5 DEF Entries
  <2> QED BY <2>1, <2>2 DEF RingInv
<1>12. CommitPortsInv'
  BY <1>4 DEF CommitPortsInv
<1> QED BY <1>9, <1>10, <1>11, <1>12 DEF SbInv

\* SbInv is inductive.
LEMMA SbInvInductive == SbInv /\ [SbNext]_sbVars => SbInv'
<1> SUFFICES ASSUME SbInv, [SbNext]_sbVars PROVE SbInv'
  OBVIOUS
<1>1. CASE SbAdvance
  BY <1>1, AdvanceInv DEF SbAdvance
<1>2. CASE Flush
  <2>1. 0 \in Entries /\ 0 \in CommitPorts /\ FreeEntry \in Entry
    BY SMT, ScoreboardAssumption DEF Entries, CommitPorts, FreeEntry, Entry
  <2>2. SbTypeOK'
    BY <1>2, <2>1 DEF Flush, SbTypeOK
  <2>3. RingInv'
    <3>1. /\ commit_pointer'[0] = 0 /\ issue_cnt' = 0 /\ issue_pointer' = 0
          /\ \A i \in Entries : mem'[i] = FreeEntry
      BY <1>2, <2>1 DEF Flush
    <3> QED BY <3>1, ResetRing DEF RingInv
  <2>4. ValidIsIssued'
    BY <1>2 DEF Flush, ValidIsIssued, FreeEntry
  <2>5. CommitPortsInv'
    BY <1>2 DEF Flush, CommitPortsInv
  <2> QED BY <2>2, <2>3, <2>4, <2>5 DEF SbInv
<1>3. CASE UNCHANGED sbVars
  BY <1>3 DEF sbVars, SbInv, SbTypeOK, RingInv, ValidIsIssued, CommitPortsInv
<1> QED BY <1>1, <1>2, <1>3 DEF SbNext

\* Every state of the scoreboard satisfies the inductive invariant: the
\* registers keep their types, the issued slots are the ones between the
\* pointers, results are only in issued slots, and the commit ports never
\* look at the same instruction.
THEOREM ScoreboardSafe == SbSpec => []SbInv
<1>1. SbInit => SbInv
  BY ResetInv DEF SbInit
<1> QED BY <1>1, SbInvInductive, PTL DEF SbSpec

\* An issued instruction keeps its slot until it retires or is flushed, so a
\* transaction ID names one instruction (SlotStable).
THEOREM ScoreboardSlots == SbSpec => SlotStable
<1>1. ASSUME SbInv, [SbNext]_sbVars PROVE [SlotKept]_sbVars
  <2>1. CASE SbAdvance
    <3>1. PICK push \in Pushes, wb \in [WbPorts -> WriteBack],
               n \in 0 .. NR_COMMIT_PORTS :
                 (push # {} => ~issue_full) /\ AckOk(n) /\ Advance(push, wb, n)
      BY <2>1 DEF SbAdvance
    <3> DEFINE c == commit_pointer[0]
    <3>2. /\ n \in 0 .. NR_ENTRIES - 1 /\ c \in Entries /\ 0 \in CommitPorts
          /\ issue_cnt \in 0 .. NR_ENTRIES - 1 /\ NR_ENTRIES \in Nat
      BY SMT, <1>1, <3>1, CommittedFacts, ScoreboardAssumption
         DEF SbInv, SbTypeOK, Entries, CommitPorts
    <3>3. Inc(c, n) \in Entries /\ Dist(c, Inc(c, n)) = n
      <4>1. Inc(c, n) \in Entries
        BY SMT, <3>2, IncCases
      <4> QED BY <3>2, <4>1, DistFacts
    <3>4. commit_pointer'[0] = Inc(c, n)
      <4>1. Inc(Inc(c, n), 0) = Inc(c, n)
        BY SMT, <3>2, <3>3, IncCases DEF Entries
      <4> QED BY <3>1, <3>2, <4>1 DEF Advance
    <3>5. ASSUME NEW i \in Entries, mem[i].issued,
                 mem'[i].instr # mem[i].instr \/ ~mem'[i].issued
          PROVE  Dist(c, i) < n
      <4>1. i # issue_pointer
        BY SMT, <1>1, <3>2, <3>5, DistFacts DEF SbInv, RingInv
      <4>2. i \in Committed(n) \/ mem'[i] = Written(i, wb)
        BY <3>1, <4>1 DEF Advance
      <4>3. i \in Committed(n)
        BY <1>1, <3>5, <4>2, WrittenFacts DEF SbInv, SbTypeOK
      <4> QED BY <1>1, <3>1, <4>3, CommittedFacts
    <3> QED BY <3>3, <3>4, <3>5 DEF SlotKept
  <2>2. CASE Flush
    BY <2>2 DEF SlotKept
  <2>3. CASE UNCHANGED sbVars
    BY <2>3
  <2> QED BY <1>1, <2>1, <2>2, <2>3 DEF SbNext
<1> QED BY <1>1, ScoreboardSafe, PTL DEF SbSpec, SlotStable

\* The types of the registers (widths of mem_q, issue_cnt_q and the pointers).
THEOREM ScoreboardTypes == SbSpec => []SbTypeOK
<1>1. SbInv => SbTypeOK
  BY DEF SbInv
<1> QED BY <1>1, ScoreboardSafe, PTL

\* No instruction is lost from the ring or counted twice (RingInv).
THEOREM ScoreboardRing == SbSpec => []RingInv
<1>1. SbInv => RingInv
  BY DEF SbInv
<1> QED BY <1>1, ScoreboardSafe, PTL

\* A slot that was flushed or retired never looks complete (ValidIsIssued).
THEOREM ScoreboardValid == SbSpec => []ValidIsIssued
<1>1. SbInv => ValidIsIssued
  BY DEF SbInv
<1> QED BY <1>1, ScoreboardSafe, PTL

\* The commit ports never offer the same instruction twice (CommitPortsInv).
THEOREM ScoreboardPorts == SbSpec => []CommitPortsInv
<1>1. SbInv => CommitPortsInv
  BY DEF SbInv
<1> QED BY <1>1, ScoreboardSafe, PTL

-----------------------------------------------------------------------------
(* The scoreboard is a reorder queue.                                       *)

\* The length and the elements of a sequence given by an expression.
LEMMA LenOfFunction ==
  ASSUME NEW n \in Nat, NEW S, NEW f \in [1 .. n -> S]
  PROVE  f \in Seq(S) /\ Len(f) = n /\ DOMAIN f = 1 .. n
BY SMT

\* Increments of a pointer add up.
LEMMA IncInc ==
  ASSUME NEW c \in Entries, NEW n \in 0 .. NR_ENTRIES, NEW k \in 0 .. NR_ENTRIES,
         n + k <= NR_ENTRIES
  PROVE  Inc(Inc(c, n), k) = Inc(c, n + k)
<1>1. NR_ENTRIES \in Nat /\ c \in 0 .. NR_ENTRIES - 1 /\ n + k \in 0 .. NR_ENTRIES
  BY SMT, ScoreboardAssumption DEF Entries
<1>2. /\ Inc(c, n) = IF c + n < NR_ENTRIES THEN c + n ELSE c + n - NR_ENTRIES
      /\ Inc(c, n) \in Entries
  BY IncCases
<1>3. Inc(c, n + k) = IF c + n + k < NR_ENTRIES THEN c + n + k ELSE c + n + k - NR_ENTRIES
  BY SMT, <1>1, IncCases
<1>4. Inc(Inc(c, n), k) = IF Inc(c, n) + k < NR_ENTRIES THEN Inc(c, n) + k
                          ELSE Inc(c, n) + k - NR_ENTRIES
  BY <1>2, IncCases
<1> QED BY SMT, <1>1, <1>2, <1>3, <1>4

\* Its length and its elements.
LEMMA InOrderFacts ==
  ASSUME NEW m, NEW c, NEW n \in Nat
  PROVE  /\ Len(InOrder(m, c, n)) = n
         /\ \A k \in 1 .. n : InOrder(m, c, n)[k] = Queued(m[Inc(c, k - 1)])
<1> DEFINE S == {Queued(m[Inc(c, k - 1)]) : k \in 1 .. n}
<1>1. InOrder(m, c, n) \in [1 .. n -> S]
  BY DEF InOrder
<1>2. Len(InOrder(m, c, n)) = n
  <2> HIDE DEF S
  <2> QED BY <1>1, LenOfFunction
<1> QED BY <1>2 DEF InOrder

\* The ring of scoreboard.sv is a queue in program order: what the commit ports
\* retire is the oldest instructions, complete, each one once; what stays moves
\* up unchanged but for its own write-back; what enters comes last.
THEOREM ScoreboardQueue == SbSpec => ImplementsReorderQueue
<1>1. SbInit => Reorder!Init
  BY SMT DEF SbInit, Reorder!Init
<1>2. ASSUME SbInv, SbInv', SbAdvance PROVE Reorder!Next
  <2>1. PICK push \in Pushes, wb \in [WbPorts -> WriteBack],
             n \in 0 .. NR_COMMIT_PORTS :
               (push # {} => ~issue_full) /\ AckOk(n) /\ Advance(push, wb, n)
    BY <1>2 DEF SbAdvance
  <2> DEFINE b == IF push = {} THEN 0 ELSE 1
             c == commit_pointer[0]
             new == CHOOSE p \in push : TRUE
             q == InOrder(mem, c, issue_cnt)
             r == InOrder(mem', commit_pointer'[0], issue_cnt')
  <2>2. /\ issue_cnt \in Nat /\ n \in 0 .. NR_ENTRIES - 1 /\ c \in Entries
        /\ 0 \in CommitPorts /\ NR_ENTRIES \in Nat
        /\ issue_cnt <= NR_ENTRIES - 1
        /\ issue_cnt' \in Nat /\ issue_cnt' <= NR_ENTRIES - 1
        /\ n <= issue_cnt /\ b \in {0, 1} /\ issue_cnt' = issue_cnt - n + b
    <3>1. n <= issue_cnt
      BY <1>2, <2>1, CommittedFacts
    <3>2. issue_cnt' = issue_cnt - n + b
      BY <2>1 DEF Advance
    <3>3. /\ issue_cnt \in Entries /\ issue_cnt' \in Entries
          /\ commit_pointer \in [CommitPorts -> Entries]
      BY <1>2 DEF SbInv, SbTypeOK
    <3> QED BY SMT, <3>1, <3>2, <3>3, ScoreboardAssumption DEF Entries, CommitPorts
  <2>3. /\ Len(q) = issue_cnt /\ Len(r) = issue_cnt'
        /\ \A k \in 1 .. issue_cnt : q[k] = Queued(mem[Inc(c, k - 1)])
        /\ \A k \in 1 .. issue_cnt' : r[k] = Queued(mem'[Inc(commit_pointer'[0], k - 1)])
    <3>1. /\ Len(q) = issue_cnt
          /\ \A k \in 1 .. issue_cnt : q[k] = Queued(mem[Inc(c, k - 1)])
      BY SMT, <2>2, InOrderFacts
    <3>2. /\ Len(r) = issue_cnt'
          /\ \A k \in 1 .. issue_cnt' :
                r[k] = Queued(mem'[Inc(commit_pointer'[0], k - 1)])
      <4>1. issue_cnt' \in Nat
        BY <2>2
      <4> QED BY ONLY <4>1, InOrderFacts
    <3> HIDE DEF q, r
    <3> QED BY <3>1, <3>2
  <2>4. ASSUME NEW k \in 1 .. issue_cnt'
        PROVE  /\ Inc(commit_pointer'[0], k - 1) = Inc(c, n + k - 1)
               /\ Inc(c, n + k - 1) \in Entries
               /\ Dist(c, Inc(c, n + k - 1)) = n + k - 1
    <3>1. commit_pointer'[0] = Inc(Inc(c, n), 0)
      BY <2>1, <2>2 DEF Advance
    <3>2. k - 1 \in 0 .. NR_ENTRIES /\ n + (k - 1) \in 0 .. NR_ENTRIES - 1 /\ n \in 0 .. NR_ENTRIES
      BY SMT, <2>2
    <3>3. Inc(Inc(c, n), 0) = Inc(c, n)
      BY SMT, <2>2, <3>2, IncInc
    <3>4. Inc(Inc(c, n), k - 1) = Inc(c, n + (k - 1)) /\ n + (k - 1) = n + k - 1
      BY SMT, <2>2, <3>2, IncInc
    <3>5. Inc(c, n + (k - 1)) \in Entries
      BY SMT, <2>2, <3>2, IncCases
    <3>6. Dist(c, Inc(c, n + (k - 1))) = n + (k - 1)
      BY SMT, <2>2, <3>2, <3>5, DistFacts
    <3> QED BY <3>1, <3>3, <3>4, <3>5, <3>6
  <2>5. \A k \in 1 .. n : q[k].done
    <3>1. ASSUME NEW k \in 1 .. n PROVE mem[Inc(c, k - 1)].valid
      <4>1. k - 1 \in 0 .. n - 1 /\ k - 1 \in CommitPorts /\ issue_cnt # 0
        BY SMT, <2>2, ScoreboardAssumption DEF CommitPorts
      <4>2. commit_pointer[k - 1] = Inc(c, k - 1)
        BY <1>2, <4>1 DEF SbInv, CommitPortsInv
      <4> QED BY <2>1, <4>1, <4>2 DEF AckOk, commit_instr
    <3>2. \A k \in 1 .. n : k \in 1 .. issue_cnt
      BY SMT, <2>2
    <3>3. \A k \in 1 .. n : q[k] = Queued(mem[Inc(c, k - 1)])
      BY <2>3, <3>2
    <3> HIDE DEF q, c
    <3>4. ASSUME NEW k \in 1 .. n PROVE q[k].done
      <4>1. q[k] = Queued(mem[Inc(c, k - 1)])
        BY <3>3
      <4>2. Queued(mem[Inc(c, k - 1)]).done = mem[Inc(c, k - 1)].valid
        BY DEF Queued
      <4> QED BY <3>1, <4>1, <4>2, Zenon
    <3> QED BY <3>4
  <2>6. ASSUME NEW k \in 1 .. issue_cnt - n
        PROVE  Reorder!Progress(q[n + k], r[k])
    <3> DEFINE i == Inc(c, n + k - 1)
    <3>1. /\ n + k \in 1 .. issue_cnt /\ k \in 1 .. issue_cnt'
          /\ n + k - 1 < issue_cnt /\ n + k - 1 >= n /\ (n + k) - 1 = n + k - 1
      BY SMT, <2>2
    <3>2. i \in Entries /\ Dist(c, i) = n + k - 1
      BY <2>4, <3>1
    <3>3. q[n + k] = Queued(mem[i]) /\ r[k] = Queued(mem'[i])
      BY <2>3, <2>4, <3>1
    <3>4. i \notin Committed(n) /\ i # issue_pointer
      BY SMT, <1>2, <2>1, <2>2, <3>1, <3>2, CommittedFacts, DistFacts DEF SbInv, RingInv
    <3>5. mem'[i] = Written(i, wb)
      BY <2>1, <3>2, <3>4 DEF Advance
    <3>6. mem[i] \in Entry
      BY <1>2, <3>2 DEF SbInv, SbTypeOK
    <3>7. \/ Written(i, wb) = mem[i]
          \/ /\ Written(i, wb).valid
             /\ Written(i, wb).instr = mem[i].instr
             /\ mem[i].ex => Written(i, wb).ex
      BY <3>6 DEF Written, Entry
    <3> HIDE DEF i, q, r
    <3> QED BY SMT, <3>3, <3>5, <3>7 DEF Reorder!Progress, Queued
  <2>7. ASSUME NEW k \in issue_cnt - n + 1 .. issue_cnt'
        PROVE  Reorder!Fresh(r[k])
    <3> DEFINE i == Inc(c, n + k - 1)
    <3>1. /\ b = 1 /\ k \in 1 .. issue_cnt' /\ n + k - 1 = issue_cnt /\ push # {}
      BY SMT, <2>2
    <3>2. i \in Entries /\ i = issue_pointer /\ Dist(c, i) = issue_cnt
      BY <1>2, <2>4, <3>1 DEF SbInv, RingInv
    <3>3. r[k] = Queued(mem'[i])
      BY <2>3, <2>4, <3>1
    <3>4. i \notin Committed(n)
      BY SMT, <1>2, <2>1, <2>2, <3>1, <3>2, CommittedFacts
    <3>5. mem'[i] = Pushed(new.instr, new.ex)
      BY <2>1, <3>1, <3>2, <3>4 DEF Advance
    <3> HIDE DEF i, q, r, new
    <3> QED BY SMT, <3>3, <3>5 DEF Reorder!Fresh, Queued, Pushed
  <2> HIDE DEF q, r
  <2>8. Reorder!Step(n, b)
    BY <2>2, <2>3, <2>5, <2>6, <2>7 DEF Reorder!Step, InOrder, q, r
  <2> QED BY <2>2, <2>8 DEF Reorder!Next
<1>3. ASSUME Flush PROVE Reorder!Next
  BY SMT, <1>3 DEF Flush, Reorder!Next, Reorder!Flush
<1>4. ASSUME UNCHANGED sbVars PROVE UNCHANGED InOrder(mem, commit_pointer[0], issue_cnt)
  BY <1>4 DEF sbVars, InOrder
<1> QED BY <1>1, <1>2, <1>3, <1>4, ScoreboardSafe, PTL DEF SbSpec,
       ImplementsReorderQueue, Reorder!Spec, SbNext, InOrder

-----------------------------------------------------------------------------

\* The functional unit of every operation.
LEMMA Units ==
  /\ fu_of("none") = "none" /\ fu_of("ALU") = "ALU" /\ fu_of("LOAD") = "LOAD"
  /\ fu_of("FPU") = "FPU" /\ fu_of("BRANCH") = "CTRL_FLOW" /\ fu_of("EXC") = "NONE"
  /\ fu_of("MUL") = "MULT" /\ fu_of("DIV") = "MULT"
  /\ fu_of("STORE") = "STORE" /\ fu_of("AMO") = "STORE"
  /\ \A op \in CsrOps : fu_of(op) = "CSR"
BY DEF fu_of, CsrOps, FenceOps

\* An operation is executed by exactly one unit.
LEMMA OpCases ==
  ASSUME NEW op \in Operations
  PROVE  /\ fu_of(op) = "CSR" <=> op \in CsrOps
         /\ fu_of(op) = "NONE" <=> op = "EXC"
         /\ fu_of(op) = "MULT" <=> op \in {"MUL", "DIV"}
         /\ fu_of(op) = "ALU" <=> op = "ALU"
         /\ fu_of(op) = "CTRL_FLOW" <=> op = "BRANCH"
         /\ fu_of(op) = "FPU" <=> op = "FPU"
         /\ fu_of(op) = "LOAD" <=> op = "LOAD"
         /\ fu_of(op) = "STORE" <=> op \in {"STORE", "AMO"}
         /\ op # "none"
BY DEF fu_of, Operations, CsrOps, FenceOps

\* A commit outcome that does not retire an instruction retires none: at most
\* two leave in a cycle.
LEMMA NoneCommitted ==
  ASSUME NEW n \in 0 .. 2, ~(n > 0)
  PROVE  n = 0
BY SMT

\* The slots of the two commit ports.
LEMMA Ports ==
  ASSUME SbInv
  PROVE  /\ CommitPorts = {0, 1} /\ NR_COMMIT_PORTS = 2
         /\ commit_pointer[0] \in Entries /\ commit_pointer[1] \in Entries
         /\ mem[commit_pointer[0]] \in Entry /\ mem[commit_pointer[1]] \in Entry
<1>1. NR_COMMIT_PORTS = 2 /\ CommitPorts = {0, 1}
  BY SMT, BackendAssumption DEF CommitPorts
<1> QED BY <1>1 DEF SbInv, SbTypeOK

\* What the commit stage does in a cycle, as far as the other stages depend on
\* it: it acknowledges complete instructions without an exception only; it
\* flushes when it retires a fence, and no instruction with an exception
\* retires; when it frees the CSR buffer for another instruction than a fence
\* that instruction retires.
LEMMA CommitFacts ==
  ASSUME SbInv, HaltInv, NEW c \in CommitOutcomes
  PROVE  /\ c.n \in 0 .. 2
         /\ AckOk(c.n)
         /\ c.n > 0 => head.valid /\ ~head.ex
         /\ c.n > 1 => second.valid /\ ~second.ex
         /\ c.n > 0 /\ head.instr.op \in FenceOps => c.flush
         /\ c.commit_csr => head.valid /\ ~head.ex /\ head.instr.fu = "CSR"
         /\ c.commit_csr /\ head.instr.op \in CsrOps \ FenceOps => c.n > 0
<1>1. PICK in \in CommitInputs : c = CommitStage(in)
  BY DEF CommitOutcomes
<1>2. /\ c.n = IF commit_ack_1(in) THEN 2 ELSE IF commit_ack_0(in) THEN 1 ELSE 0
      /\ c.flush = flush_ex(in)
      /\ c.commit_csr = (go /\ head.instr.fu = "CSR" /\ ~csr_exception(in))
  BY <1>1 DEF CommitStage
<1>3. commit_ack_1(in) => commit_ack_0(in) /\ second.valid /\ ~second.ex
  BY DEF commit_ack_1
<1>4. commit_ack_0(in) => head.valid /\ ~head.ex
  BY DEF commit_ack_0, go
<1>5. c.n \in 0 .. 2 /\ (c.n > 0 => commit_ack_0(in)) /\ (c.n > 1 => commit_ack_1(in))
      /\ (commit_ack_0(in) => c.n > 0)
  BY SMT, <1>2, <1>3
<1>6. AckOk(c.n)
  <2>1. ASSUME NEW k \in 0 .. c.n - 1 PROVE commit_instr(k).valid
    <3>1. (k = 0 /\ c.n > 0) \/ (k = 1 /\ c.n > 1)
      BY SMT, <1>5
    <3> QED BY <1>3, <1>4, <1>5, <3>1 DEF head, second
  <2> QED BY <2>1 DEF AckOk
<1>7. c.n > 0 /\ head.instr.op \in FenceOps => c.flush
  BY <1>2, <1>5 DEF flush_ex, drains
<1>8. ASSUME c.commit_csr PROVE go /\ head.instr.fu = "CSR" /\ ~csr_exception(in)
  BY <1>2, <1>8
<1>9. ASSUME c.commit_csr, head.instr.op \in CsrOps \ FenceOps PROVE c.n > 0
  <2>1. ~drains
    BY <1>8, <1>9 DEF drains, go, halt, HaltInv
  <2>2. head.instr.op # "AMO" /\ head.instr.op # "STORE"
    BY <1>9 DEF CsrOps, FenceOps
  <2>3. commit_ack_0(in)
    BY <1>8, <1>9, <2>1, <2>2 DEF commit_ack_0
  <2> QED BY <1>5, <2>3
<1>10. go => head.valid /\ ~head.ex
  BY DEF go
<1> QED BY <1>3, <1>4, <1>5, <1>6, <1>7, <1>8, <1>9, <1>10

-----------------------------------------------------------------------------
(* The write-back ports                                                     *)

\* The values a unit can put on a port.
LEMMA WbType ==
  ASSUME NEW i \in Entries, NEW result \in {"ok", "bad"}, NEW ex \in BOOLEAN
  PROVE  Wb(i, result, ex) \in WriteBack
BY DecoderAssumption DEF Wb, WriteBack

\* A port that is not used.
LEMMA NoWbFacts ==
  NoWriteBack \in WriteBack /\ NoWriteBack.valid = FALSE
BY DEF WriteBack, NoWriteBack

\* The units with a variable latency answer for what they work on.
LEMMA ReturnFacts ==
  ASSUME NEW ids \in SUBSET Entries, NEW result \in {"ok", "bad"},
         NEW exs \in SUBSET BOOLEAN, NEW w \in Returns(ids, result, exs)
  PROVE  /\ w \in WriteBack
         /\ \/ w = NoWriteBack
            \/ /\ w.valid = TRUE /\ w.id \in ids /\ w.result = result
               /\ w.ex \in exs
<1>1. CASE w = NoWriteBack
  BY <1>1, NoWbFacts
<1>2. CASE w # NoWriteBack
  <2>1. PICK i \in ids, x \in exs : w = Wb(i, result, x)
    BY SMT, <1>2 DEF Returns
  <2>2. i \in Entries /\ x \in BOOLEAN
    OBVIOUS
  <2>3. Wb(i, result, x) \in WriteBack
    BY <2>2, WbType
  <2>4. w.valid = TRUE /\ w.id = i /\ w.result = result /\ w.ex = x
    BY <2>1 DEF Wb
  <2> QED BY <2>1, <2>3, <2>4, Zenon
<1> QED BY <1>1, <1>2

\* The fixed latency port carries the result of the operation in EX, of the
\* multiplier or of the divider: never are there two of them.
LEMMA FluFacts ==
  ASSUME UnitInv, SlotInv, BusInv, NEW d \in DivSteps, NEW branch_ex \in BOOLEAN
  PROVE  /\ flu_wb(d, branch_ex) \in WriteBack
         /\ \A i \in Entries :
              flu_wb(d, branch_ex).valid /\ flu_wb(d, branch_ex).id = i
                <=> FluAnswers(d, i)
         /\ flu_wb(d, branch_ex).valid =>
              /\ flu_wb(d, branch_ex).ex => ex_q.op = "BRANCH"
              /\ \/ flu_wb(d, branch_ex).result = "ok"
                 \/ fu_of(ex_q.op) = "CSR" /\ flu_wb(d, branch_ex).id = ex_q.id
         /\ ~(Immediate /\ (mul_q # NoId \/ div_valid(d)))
         /\ ~(mul_q # NoId /\ div_valid(d))
         /\ div_valid(d) => div.state # "IDLE"
<1> DEFINE f == flu_wb(d, branch_ex)
           result == IF fu_of(ex_q.op) = "CSR" THEN "bad" ELSE "ok"
           ex == ex_q.op = "BRANCH" /\ branch_ex
<1>1. div_valid(d) => div.state # "IDLE"
  BY DEF div_valid, DivSteps
<1>2. Immediate => /\ ex_q.op \notin {"none", "LOAD", "STORE", "AMO", "FPU", "MUL", "DIV"}
                   /\ ex_q.id \in Entries
  BY SMT, Units DEF Immediate, UnitInv, Works, Owes, NoOp
<1>3. mul_q # NoId => mul_q \in Entries
  BY DEF UnitInv, Works, Owes
<1>4. div_valid(d) => div.id \in Entries
  BY <1>1 DEF UnitInv, Works, Owes
<1>5. /\ ~(Immediate /\ (mul_q # NoId \/ div_valid(d)))
      /\ ~(mul_q # NoId /\ div_valid(d))
  BY <1>1, <1>2 DEF BusInv
<1>6. result \in {"ok", "bad"} /\ ex \in BOOLEAN /\ FALSE \in BOOLEAN
  OBVIOUS
<1>7. f = IF Immediate THEN Wb(ex_q.id, result, ex)
          ELSE IF mul_q # NoId THEN Wb(mul_q, "ok", ex)
          ELSE IF div_valid(d) THEN Wb(div.id, "ok", ex)
          ELSE NoWriteBack
  <2>1. CASE Immediate
    <3>1. fu_of(ex_q.op) \in {"ALU", "CSR"} => ~ex
      BY Units
    <3> QED BY <1>5, <2>1, <3>1 DEF flu_wb, Immediate
  <2>2. CASE ~Immediate
    BY <1>5, <2>2 DEF flu_wb, Immediate
  <2> QED BY <2>1, <2>2
<1> HIDE DEF f, result, ex
<1>8. CASE Immediate
  <2>1. f = Wb(ex_q.id, result, ex)
    BY <1>7, <1>8
  <2>2. /\ f \in WriteBack /\ f.valid = TRUE /\ f.id = ex_q.id
        /\ f.result = result /\ f.ex = ex
    <3>1. f \in WriteBack
      BY <1>2, <1>6, <1>8, <2>1, WbType
    <3> QED BY <2>1, <3>1 DEF Wb
  <2>3. \A i \in Entries : f.id = i <=> FluAnswers(d, i)
    BY <1>5, <1>8, <2>2 DEF FluAnswers
  <2>4. (ex => ex_q.op = "BRANCH") /\ (result = "ok" \/ fu_of(ex_q.op) = "CSR")
    BY DEF ex, result
  <2> QED BY <1>1, <1>5, <2>2, <2>3, <2>4 DEF f
<1>9. CASE mul_q # NoId
  <2>1. f = Wb(mul_q, "ok", ex)
    BY <1>5, <1>7, <1>9
  <2>2. /\ f \in WriteBack /\ f.valid = TRUE /\ f.id = mul_q
        /\ f.result = "ok" /\ f.ex = ex
    <3>1. f \in WriteBack
      BY <1>3, <1>6, <1>9, <2>1, WbType
    <3> QED BY <2>1, <3>1 DEF Wb
  <2>3. \A i \in Entries : f.id = i <=> FluAnswers(d, i)
    BY <1>5, <1>9, <2>2 DEF FluAnswers
  <2>4. ex => ex_q.op = "BRANCH"
    BY DEF ex
  <2> QED BY <1>1, <1>5, <2>2, <2>3, <2>4 DEF f
<1>10. CASE div_valid(d)
  <2>1. f = Wb(div.id, "ok", ex)
    BY <1>5, <1>7, <1>10
  <2>2. /\ f \in WriteBack /\ f.valid = TRUE /\ f.id = div.id
        /\ f.result = "ok" /\ f.ex = ex
    <3>1. f \in WriteBack
      BY <1>4, <1>6, <1>10, <2>1, WbType
    <3> QED BY <2>1, <3>1 DEF Wb
  <2>3. \A i \in Entries : f.id = i <=> FluAnswers(d, i)
    BY <1>5, <1>10, <2>2 DEF FluAnswers
  <2>4. ex => ex_q.op = "BRANCH"
    BY DEF ex
  <2> QED BY <1>1, <1>5, <2>2, <2>3, <2>4 DEF f
<1>11. CASE ~Immediate /\ mul_q = NoId /\ ~div_valid(d)
  BY <1>1, <1>5, <1>7, <1>11, NoWbFacts DEF FluAnswers, f
<1> QED BY <1>8, <1>9, <1>10, <1>11

\* What the load-store unit and the FPU return in a cycle.
LEMMA Returned ==
  ASSUME UnitInv, NEW ld_ret \in LoadReturns, NEW st_wb \in StoreReturns,
         NEW fpu_wb \in FpuReturns
  PROVE  /\ ld_ret \in WriteBack /\ st_wb \in WriteBack /\ fpu_wb \in WriteBack
         /\ \/ ld_ret = NoWriteBack
            \/ /\ ld_ret.valid = TRUE /\ ld_ret.result = "ok" /\ ld_ret.ex \in BOOLEAN
               /\ ld_ret.id \in lsu_out /\ mem[ld_ret.id].instr.fu = "LOAD"
         /\ \/ st_wb = NoWriteBack
            \/ /\ st_wb.valid = TRUE /\ st_wb.result = "bad" /\ st_wb.ex \in BOOLEAN
               /\ st_wb.id \in lsu_out /\ mem[st_wb.id].instr.fu # "LOAD"
         /\ \/ fpu_wb = NoWriteBack
            \/ /\ fpu_wb.valid = TRUE /\ fpu_wb.result = "ok" /\ fpu_wb.ex \in {FALSE}
               /\ fpu_wb.id \in fpu_out
<1>1. /\ LoadsOut \in SUBSET Entries /\ lsu_out \ LoadsOut \in SUBSET Entries
      /\ fpu_out \in SUBSET Entries
      /\ BOOLEAN \in SUBSET BOOLEAN /\ {FALSE} \in SUBSET BOOLEAN
      /\ "ok" \in {"ok", "bad"} /\ "bad" \in {"ok", "bad"}
  BY DEF UnitInv, Works, Owes, LoadsOut
<1>2. /\ ld_ret \in WriteBack
      /\ \/ ld_ret = NoWriteBack
         \/ /\ ld_ret.valid = TRUE /\ ld_ret.id \in LoadsOut /\ ld_ret.result = "ok"
            /\ ld_ret.ex \in BOOLEAN
  BY <1>1, ReturnFacts DEF LoadReturns
<1>3. /\ st_wb \in WriteBack
      /\ \/ st_wb = NoWriteBack
         \/ /\ st_wb.valid = TRUE /\ st_wb.id \in lsu_out \ LoadsOut
            /\ st_wb.result = "bad" /\ st_wb.ex \in BOOLEAN
  <2> DEFINE ids == lsu_out \ LoadsOut
  <2>1. ids \in SUBSET Entries /\ st_wb \in Returns(ids, "bad", BOOLEAN)
    BY <1>1 DEF StoreReturns
  <2> HIDE DEF ids
  <2>2. /\ st_wb \in WriteBack
        /\ \/ st_wb = NoWriteBack
           \/ /\ st_wb.valid = TRUE /\ st_wb.id \in ids
              /\ st_wb.result = "bad" /\ st_wb.ex \in BOOLEAN
    BY <1>1, <2>1, ReturnFacts
  <2> QED BY <2>2 DEF ids
<1>4. /\ fpu_wb \in WriteBack
      /\ \/ fpu_wb = NoWriteBack
         \/ /\ fpu_wb.valid = TRUE /\ fpu_wb.id \in fpu_out /\ fpu_wb.result = "ok"
            /\ fpu_wb.ex \in {FALSE}
  BY <1>1, ReturnFacts DEF FpuReturns
<1> QED BY <1>2, <1>3, <1>4 DEF LoadsOut

\* Who answers for a slot that waits for its result.
LEMMA DoneCases ==
  ASSUME BInv, NEW d \in DivSteps, NEW st_wb \in StoreReturns,
         NEW fpu_wb \in FpuReturns, NEW i \in Done(d, st_wb, fpu_wb), Pending(i)
  PROVE  \/ fpu_wb.valid /\ fpu_wb.id = i /\ i \in fpu_out
         \/ st_wb.valid /\ st_wb.id = i /\ i \in lsu_out /\ mem[i].instr.fu # "LOAD"
         \/ LoadDue /\ ld_pipe.id = i
         \/ Immediate /\ ex_q.id = i
         \/ mul_q = i
         \/ div_valid(d) /\ div.id = i
<1>1. UnitInv /\ i \in Entries /\ SbInv
  BY DEF BInv, Done
<1>2. ASSUME ld_pipe.valid PROVE LoadDue
  <2>1. issue_cnt # 0
    <3>1. Dist(commit_pointer[0], i) < issue_cnt
      BY <1>1 DEF SbInv, RingInv, Pending
    <3>2. Dist(commit_pointer[0], i) \in 0 .. NR_ENTRIES - 1
      BY <1>1, Ports, DistFacts
    <3>3. issue_cnt \in 0 .. NR_ENTRIES - 1
      BY <1>1 DEF SbInv, SbTypeOK, Entries
    <3> QED BY SMT, <3>1, <3>2, <3>3
  <2> QED BY <1>1, <1>2, <2>1 DEF UnitInv, LoadDue, LoadLate
<1>5. NoWriteBack \in LoadReturns
  BY SMT DEF LoadReturns, Returns
<1>3. st_wb.valid => st_wb.id \in lsu_out /\ mem[st_wb.id].instr.fu # "LOAD"
  BY <1>1, <1>5, Returned, NoWbFacts
<1>4. fpu_wb.valid => fpu_wb.id \in fpu_out
  BY <1>1, <1>5, Returned, NoWbFacts
<1> QED BY <1>2, <1>3, <1>4 DEF Done, FluAnswers

\* What the slot gets is the result that the program computes.
LEMMA PortResult ==
  ASSUME BInv, NEW d \in DivSteps, NEW st_wb \in StoreReturns,
         NEW fpu_wb \in FpuReturns, NEW branch_ex \in BOOLEAN,
         NEW w \in {fpu_wb, st_wb, ld_pipe, flu_wb(d, branch_ex)},
         w.valid, w.id \in Entries, mem[w.id].issued,
         mem[w.id].instr.fu \in Computing
  PROVE  w.result = "ok"
<1>1. UnitInv /\ SlotInv /\ SbInv /\ BusInv
  BY DEF BInv
<1>2. NoWriteBack \in LoadReturns
  BY SMT DEF LoadReturns, Returns
<1>3. CASE w = fpu_wb
  BY <1>1, <1>2, <1>3, Returned, NoWbFacts
<1>4. CASE w = st_wb
  <2>1. st_wb.id \in lsu_out /\ mem[st_wb.id].instr.fu # "LOAD"
    BY <1>1, <1>2, <1>4, Returned, NoWbFacts
  <2>2. mem[st_wb.id].instr.op \in {"LOAD", "STORE", "AMO"}
    BY <1>1, <2>1 DEF UnitInv, Works, Owes
  <2>3. mem[st_wb.id].instr.fu = "STORE"
    BY <1>1, <1>4, <2>1, <2>2, Units DEF SlotInv
  <2> QED BY <1>4, <2>3 DEF Computing
<1>5. CASE w = ld_pipe
  <2>1. issue_cnt # 0
    <3>1. Dist(commit_pointer[0], w.id) < issue_cnt
      BY <1>1 DEF SbInv, RingInv
    <3>2. Dist(commit_pointer[0], w.id) \in 0 .. NR_ENTRIES - 1
      BY <1>1, Ports, DistFacts
    <3>3. issue_cnt \in 0 .. NR_ENTRIES - 1
      BY <1>1 DEF SbInv, SbTypeOK, Entries
    <3> QED BY SMT, <3>1, <3>2, <3>3
  <2> QED BY <1>1, <1>5, <2>1 DEF UnitInv, LoadLate
<1>6. CASE w = flu_wb(d, branch_ex)
  <2>1. w.result = "ok" \/ (fu_of(ex_q.op) = "CSR" /\ w.id = ex_q.id)
    BY <1>1, <1>6, FluFacts
  <2>2. ASSUME fu_of(ex_q.op) = "CSR", w.id = ex_q.id PROVE FALSE
    <3>1. ex_q.op # "none"
      BY <2>2, Units
    <3>2. mem[ex_q.id].instr.op = ex_q.op
      BY SMT, <1>1, <3>1 DEF UnitInv, Works, Owes, NoOp
    <3>3. mem[ex_q.id].instr.fu = "CSR"
      BY <1>1, <2>2, <3>2 DEF SlotInv
    <3> QED BY <2>2, <3>3 DEF Computing
  <2> QED BY <2>1, <2>2
<1> QED BY <1>3, <1>4, <1>5, <1>6

\* The four ports.
LEMMA BusFacts ==
  ASSUME UnitInv, SlotInv, BusInv, NEW d \in DivSteps, NEW st_wb \in StoreReturns,
         NEW fpu_wb \in FpuReturns, NEW branch_ex \in BOOLEAN
  PROVE  /\ WbPorts = 0 .. 3
         /\ WbBus(fpu_wb, st_wb, d, branch_ex) \in [WbPorts -> WriteBack]
         /\ WbBus(fpu_wb, st_wb, d, branch_ex)[0] = fpu_wb
         /\ WbBus(fpu_wb, st_wb, d, branch_ex)[1] = st_wb
         /\ WbBus(fpu_wb, st_wb, d, branch_ex)[2] = ld_pipe
         /\ WbBus(fpu_wb, st_wb, d, branch_ex)[3] = flu_wb(d, branch_ex)
         /\ \A i \in Entries :
              i \in Done(d, st_wb, fpu_wb)
                <=> \E p \in WbPorts :
                      /\ WbBus(fpu_wb, st_wb, d, branch_ex)[p].valid
                      /\ WbBus(fpu_wb, st_wb, d, branch_ex)[p].id = i
<1> DEFINE wb == WbBus(fpu_wb, st_wb, d, branch_ex)
<1>1. WbPorts = 0 .. 3
  BY SMT, BackendAssumption DEF WbPorts
<1>2. st_wb \in WriteBack /\ fpu_wb \in WriteBack /\ ld_pipe \in WriteBack
  <2>1. NoWriteBack \in LoadReturns
    BY SMT DEF LoadReturns, Returns
  <2> QED BY <2>1, Returned DEF UnitInv
<1>3. flu_wb(d, branch_ex) \in WriteBack
  BY FluFacts
<1>4. /\ wb[0] = fpu_wb /\ wb[1] = st_wb /\ wb[2] = ld_pipe
      /\ wb[3] = flu_wb(d, branch_ex)
  BY SMT, <1>1 DEF WbBus
<1>5. wb \in [WbPorts -> WriteBack]
  <2>1. \A p \in WbPorts : wb[p] \in WriteBack
    <3> HIDE DEF wb
    <3> QED BY SMT, <1>1, <1>2, <1>3, <1>4
  <2> QED BY <2>1 DEF WbBus
<1>6. ASSUME NEW i \in Entries
      PROVE  i \in Done(d, st_wb, fpu_wb)
                <=> \E p \in WbPorts : wb[p].valid /\ wb[p].id = i
  <2>1. (\E p \in WbPorts : wb[p].valid /\ wb[p].id = i)
          <=> \/ wb[0].valid /\ wb[0].id = i
              \/ wb[1].valid /\ wb[1].id = i
              \/ wb[2].valid /\ wb[2].id = i
              \/ wb[3].valid /\ wb[3].id = i
    <3> HIDE DEF wb
    <3> QED BY SMT, <1>1
  <2>2. wb[3].valid /\ wb[3].id = i <=> FluAnswers(d, i)
    BY SMT, <1>4, FluFacts
  <2> HIDE DEF wb
  <2> QED BY <1>4, <2>1, <2>2 DEF Done
<1> QED BY <1>1, <1>4, <1>5, <1>6

-----------------------------------------------------------------------------
(* One clock edge without a flush                                           *)

\* A free slot is neither issued nor complete.
LEMMA FreeFields == ~FreeEntry.issued /\ ~FreeEntry.valid /\ ~FreeEntry.ex
BY DEF FreeEntry

\* A slot just issued holds its instruction, and is complete if that carries an
\* exception (decoder.sv: valid = ex.valid).
LEMMA PushedFields ==
  ASSUME NEW instr, NEW ex
  PROVE  /\ Pushed(instr, ex).issued
         /\ Pushed(instr, ex).valid = ex /\ Pushed(instr, ex).ex = ex
         /\ Pushed(instr, ex).instr = instr
BY DEF Pushed

\* The same of a slot that is known to have just been issued.
LEMMA PushedSlot ==
  ASSUME NEW s, NEW instr, NEW ex, s = Pushed(instr, ex)
  PROVE  s.valid = ex /\ s.ex = ex /\ s.instr = instr
BY DEF Pushed

\* The back end keeps to that.
LEMMA RunPorts ==
  ASSUME BInv, NEW c, NEW d, NEW ld_ret, NEW st_wb, NEW fpu_wb, NEW branch_ex,
         NEW unit_ready,
         RunStep(c, d, ld_ret, st_wb, fpu_wb, branch_ex, unit_ready)
  PROVE  PortsOk(Push(Issues(c, d, st_wb, fpu_wb, branch_ex, unit_ready),
                      Issued(WbBus(fpu_wb, st_wb, d, branch_ex))),
                 WbBus(fpu_wb, st_wb, d, branch_ex), c.n)
<1> DEFINE wb == WbBus(fpu_wb, st_wb, d, branch_ex)
           issue == Issues(c, d, st_wb, fpu_wb, branch_ex, unit_ready)
           new == Issued(wb)
           push == Push(issue, new)
<1>1. /\ c \in CommitOutcomes /\ d \in DivSteps /\ st_wb \in StoreReturns
      /\ fpu_wb \in FpuReturns /\ branch_ex \in BOOLEAN /\ issue \in BOOLEAN
      /\ Advance(push, wb, c.n)
  BY DEF RunStep, Run, Issues, Push
<1>2. SbInv /\ FetchInv /\ SlotInv /\ UnitInv /\ BusInv /\ HaltInv
  BY DEF BInv
<1>3. wb \in [WbPorts -> WriteBack]
  BY <1>1, <1>2, BusFacts
<1>4. issue => issue_q # NoFetch /\ ~issue_full
  BY SMT DEF Issues, issue_ack, NoFetch
<1>5. issue => new.instr \in Instr /\ new.ex \in BOOLEAN
  <2>1. ASSUME issue
        PROVE  /\ issue_q.ex \in BOOLEAN
               /\ \A ok \in BOOLEAN : [op |-> issue_q.op, fu |-> fu_of(issue_q.op),
                                       rd |-> issue_q.rd, ok |-> ok] \in Instr
    BY <1>2, <1>4, <2>1 DEF FetchInv
  <2> QED BY <2>1 DEF Issued
<1>6. push \in Pushes
  <2>1. CASE issue
    <3>1. new = [instr |-> new.instr, ex |-> new.ex]
      BY DEF Issued
    <3>2. push = {[instr |-> new.instr, ex |-> new.ex]}
      BY <2>1, <3>1 DEF Push
    <3> HIDE DEF new, push, issue
    <3> QED BY SMT, <1>5, <2>1, <3>2 DEF Pushes
  <2>2. CASE ~issue
    BY SMT, <2>2 DEF Pushes, Push
  <2> QED BY <2>1, <2>2
<1>7. AckOk(c.n) /\ c.n \in 0 .. NR_COMMIT_PORTS
  BY <1>1, <1>2, CommitFacts, BackendAssumption
<1>8. push # {} => ~issue_full
  BY <1>4 DEF Push
<1> HIDE DEF wb, issue, new, push
<1>9. PortsOk(push, wb, c.n)
  BY <1>1, <1>3, <1>6, <1>7, <1>8 DEF PortsOk
<1> QED BY <1>9 DEF wb, issue, new, push

\* That describes every such cycle.
LEMMA RunEdge ==
  ASSUME BInv, NEW c, NEW d, NEW ld_ret, NEW st_wb, NEW fpu_wb, NEW branch_ex,
         NEW unit_ready,
         RunStep(c, d, ld_ret, st_wb, fpu_wb, branch_ex, unit_ready)
  PROVE  /\ SbInv'
         /\ Edge(Issues(c, d, st_wb, fpu_wb, branch_ex, unit_ready),
                 Issued(WbBus(fpu_wb, st_wb, d, branch_ex)),
                 Committed(c.n), Done(d, st_wb, fpu_wb))
<1> DEFINE wb == WbBus(fpu_wb, st_wb, d, branch_ex)
           issue == Issues(c, d, st_wb, fpu_wb, branch_ex, unit_ready)
           new == Issued(wb)
           push == Push(issue, new)
           done == Done(d, st_wb, fpu_wb)
<1>1. /\ c \in CommitOutcomes /\ d \in DivSteps /\ st_wb \in StoreReturns
      /\ fpu_wb \in FpuReturns /\ branch_ex \in BOOLEAN /\ issue \in BOOLEAN
  BY DEF RunStep, Issues
<1>2. SbInv /\ SlotInv /\ UnitInv /\ BusInv /\ HaltInv
  BY DEF BInv
<1>3. \A i \in Entries : i \in done <=> \E p \in WbPorts : wb[p].valid /\ wb[p].id = i
  BY SMT, <1>1, <1>2, BusFacts
<1>4. issue => issue_q # NoFetch
  BY SMT DEF Issues, issue_ack, NoFetch
<1>5. PortsOk(push, wb, c.n)
  BY RunPorts
<1>6. Advance(push, wb, c.n)
  BY <1>5 DEF PortsOk
<1> HIDE DEF wb, issue, new, push, done
<1>9. SbInv'
  BY <1>2, <1>5, AdvanceInv DEF PortsOk
<1>10. issue_pointer \in Entries /\ ~mem[issue_pointer].issued
  <2>1. /\ issue_pointer \in Entries /\ commit_pointer[0] \in Entries
        /\ issue_cnt \in 0 .. NR_ENTRIES - 1
    BY <1>2, Ports DEF SbInv, SbTypeOK, Entries
  <2>2. Dist(commit_pointer[0], issue_pointer) = issue_cnt
    BY <1>2, <2>1, DistFacts DEF SbInv, RingInv
  <2> QED BY SMT, <1>2, <2>1, <2>2 DEF SbInv, RingInv
<1>11. ASSUME NEW i \in Committed(c.n)
       PROVE  i \in Entries /\ mem[i].issued /\ mem[i].valid /\ ~mem[i].ex
  <2>1. PICK k \in 0 .. c.n - 1 : i = commit_pointer[k]
    BY DEF Committed
  <2>2. (k = 0 /\ c.n > 0) \/ (k = 1 /\ c.n > 1)
    BY SMT, <1>1, <1>2, CommitFacts
  <2>3. i \in Entries /\ mem[i].valid /\ ~mem[i].ex
    BY <1>1, <1>2, <2>1, <2>2, CommitFacts, Ports DEF head, second, commit_instr
  <2> QED BY <1>2, <2>3 DEF SbInv, ValidIsIssued
<1>12. ASSUME issue PROVE mem'[issue_pointer] = Pushed(new.instr, new.ex)
  <2>1. issue_pointer \notin Committed(c.n)
    BY <1>10, <1>11
  <2>2. push = {new}
    BY <1>12 DEF push, Push
  <2> QED BY <1>6, <1>10, <2>1, <2>2 DEF Advance
<1>13. \A i \in Committed(c.n) : mem'[i] = FreeEntry
  BY <1>6, <1>11 DEF Advance
<1>14. ASSUME NEW i \in Entries, i \notin Committed(c.n), ~(issue /\ i = issue_pointer)
       PROVE  /\ mem'[i].issued = mem[i].issued
              /\ mem'[i].instr = mem[i].instr
              /\ mem'[i].valid = (mem[i].valid \/ (mem[i].issued /\ i \in done))
              /\ mem[i].ex => mem'[i].ex
              /\ \/ mem'[i] = mem[i]
                 \/ mem[i].instr.fu \in Computing => mem'[i].result = "ok"
  <2>1. mem'[i] = Written(i, wb)
    BY <1>6, <1>14 DEF Advance, push, Push
  <2>2. mem[i] \in Entry
    BY <1>2 DEF SbInv, SbTypeOK
  <2> DEFINE ports == {p \in WbPorts : wb[p].valid /\ wb[p].id = i}
             port == wb[CHOOSE p \in ports : TRUE]
  <2>3. ports # {} <=> i \in done
    BY <1>3
  <2> HIDE DEF ports
  <2>4. CASE mem[i].issued /\ i \in done
    <3>1. mem'[i] = [mem[i] EXCEPT !.valid = TRUE, !.result = port.result,
                                   !.ex = @ \/ port.ex]
      BY <2>1, <2>3, <2>4 DEF Written, ports
    <3>2. \E p \in WbPorts : port = wb[p] /\ wb[p].valid /\ wb[p].id = i
      BY <2>3, <2>4 DEF ports
    <3> HIDE DEF port
    <3>3. /\ port \in {fpu_wb, st_wb, ld_pipe, flu_wb(d, branch_ex)}
          /\ port.valid /\ port.id = i
      BY SMT, <1>1, <1>2, <3>2, BusFacts DEF wb
    <3>4. mem[i].instr.fu \in Computing => port.result = "ok"
      BY <1>1, <2>4, <3>3, PortResult
    <3> QED BY <2>2, <2>4, <3>1, <3>4 DEF Entry
  <2>5. CASE ~(mem[i].issued /\ i \in done)
    <3>1. mem'[i] = mem[i]
      BY <2>1, <2>3, <2>5 DEF Written, ports
    <3> QED BY <2>2, <2>5, <3>1 DEF Entry
  <2> QED BY <2>4, <2>5
<1>15. Edge(issue, new, Committed(c.n), done)
  BY <1>1, <1>4, <1>10, <1>11, <1>12, <1>13, <1>14 DEF Edge
<1> QED BY <1>9, <1>15 DEF issue, new, wb, done

\* An instruction without an exception is issued when its operands are there,
\* no other instruction is going to write its destination, and its unit is
\* ready; behind a multiplication or division only another one is.
LEMMA IssueFacts ==
  ASSUME FetchInv, NEW c, NEW d, NEW st_wb, NEW fpu_wb, NEW branch_ex, NEW unit_ready,
         unit_ready \in UnitReady(c),
         Issues(c, d, st_wb, fpu_wb, branch_ex, unit_ready)
  PROVE  /\ issue_q # NoFetch /\ issue_q.op \in Operations /\ issue_q.ex \in BOOLEAN
         /\ issue_q.op = "EXC" => issue_q.ex
         /\ issue_q.op \in NoDestination => issue_q.rd = X0
         /\ issue_q.mispredict \in BOOLEAN
         /\ ~mispredict
         /\ fu_of(ex_q.op) = "MULT" => fu_of(issue_q.op) = "MULT"
         /\ ~issue_q.ex =>
              /\ fu_of(issue_q.op) # "NONE"
              /\ \A r \in issue_q.rs :
                   operand_available(r, WbBus(fpu_wb, st_wb, d, branch_ex))
              /\ no_waw(c)
              /\ fu_of(issue_q.op) \in {"ALU", "CTRL_FLOW", "CSR", "MULT"}
                   => csr_ready(c) /\ mult_ready
<1>1. issue_q.op # "none" /\ ~mult_blocks /\ ~mispredict
  BY DEF Issues, issue_ack
<1>2. /\ issue_q # NoFetch /\ issue_q.op \in Operations /\ issue_q.ex \in BOOLEAN
      /\ issue_q.op = "EXC" => issue_q.ex
      /\ issue_q.op \in NoDestination => issue_q.rd = X0
      /\ issue_q.mispredict \in BOOLEAN
  BY SMT, <1>1 DEF FetchInv, NoFetch
<1>3. ASSUME ~issue_q.ex
      PROVE  /\ fu_of(issue_q.op) # "NONE"
             /\ \A r \in issue_q.rs :
                  operand_available(r, WbBus(fpu_wb, st_wb, d, branch_ex))
             /\ no_waw(c) /\ unit_ready
  <2>1. fu_of(issue_q.op) # "NONE"
    BY <1>2, <1>3, OpCases
  <2> QED BY <1>3, <2>1 DEF Issues, issue_ack
<1>4. ASSUME ~issue_q.ex, fu_of(issue_q.op) \in {"ALU", "CTRL_FLOW", "CSR", "MULT"}
      PROVE  csr_ready(c) /\ mult_ready
  <2>1. UnitReady(c) = {csr_ready(c) /\ mult_ready}
    BY <1>4 DEF UnitReady
  <2> QED BY <1>3, <1>4, <2>1
<1> QED BY <1>1, <1>2, <1>3, <1>4 DEF mult_blocks

\* Run says so.
LEMMA RunUnits ==
  ASSUME BInv, NEW c, NEW d, NEW ld_ret, NEW st_wb, NEW fpu_wb, NEW branch_ex,
         NEW unit_ready,
         RunStep(c, d, ld_ret, st_wb, fpu_wb, branch_ex, unit_ready)
  PROVE  UnitStep(c, d, ld_ret, st_wb, fpu_wb,
                  Issues(c, d, st_wb, fpu_wb, branch_ex, unit_ready))
<1> DEFINE issue == Issues(c, d, st_wb, fpu_wb, branch_ex, unit_ready)
           answers == {w.id : w \in {v \in {ld_ret, st_wb, fpu_wb} : v.valid}}
<1>1. /\ ex_q' = IF issue /\ ~issue_q.ex /\ fu_of(issue_q.op) # "NONE"
                 THEN [op |-> issue_q.op, id |-> issue_pointer,
                       mispredict |-> issue_q.mispredict]
                 ELSE NoOp
      /\ mul_q' = IF ex_q.op = "MUL" THEN ex_q.id ELSE NoId
      /\ div' = DivNext(d)
      /\ lsu_out' = (lsu_out \ answers) \cup
                      {i \in {ex_q.id} : fu_of(ex_q.op) \in {"LOAD", "STORE"}}
      /\ fpu_out' = (fpu_out \ answers) \cup {i \in {ex_q.id} : ex_q.op = "FPU"}
      /\ ld_pipe' = ld_ret
  BY DEF RunStep, Run, Issues
<1>2. \A i : i \in answers <=> \/ ld_ret.valid /\ ld_ret.id = i
                               \/ st_wb.valid /\ st_wb.id = i
                               \/ fpu_wb.valid /\ fpu_wb.id = i
  OBVIOUS
<1>3. issue /\ ~issue_q.ex => fu_of(issue_q.op) # "NONE"
  BY IssueFacts DEF BInv, RunStep
<1> HIDE DEF issue, answers
<1>4. UnitStep(c, d, ld_ret, st_wb, fpu_wb, issue)
  BY <1>1, <1>2, <1>3 DEF UnitStep
<1> QED BY <1>4 DEF issue

\* A slot whose result does not come in this cycle waits on.
LEMMA OwesOn ==
  ASSUME NEW issue, NEW new, NEW gone, NEW done, Edge(issue, new, gone, done),
         NEW i, NEW ops, Owes(mem, i, ops), i \notin done
  PROVE  Owes(mem', i, ops) /\ ~(issue /\ i = issue_pointer)
BY DEF Edge, Owes

\* What is not written back in the cycle stays with a unit.
LEMMA StillWorks ==
  ASSUME BInv, NEW c, NEW d, NEW ld_ret, NEW st_wb, NEW fpu_wb, NEW branch_ex,
         NEW unit_ready,
         RunStep(c, d, ld_ret, st_wb, fpu_wb, branch_ex, unit_ready)
  PROVE  /\ ex_q.op \in {"MUL", "DIV", "LOAD", "STORE", "AMO", "FPU"}
              => ex_q.id \notin Done(d, st_wb, fpu_wb)
         /\ div.state # "IDLE" /\ ~div_valid(d) => div.id \notin Done(d, st_wb, fpu_wb)
         /\ \A i \in lsu_out : ~(st_wb.valid /\ st_wb.id = i)
                                 => i \notin Done(d, st_wb, fpu_wb)
         /\ \A i \in fpu_out : ~(fpu_wb.valid /\ fpu_wb.id = i)
                                 => i \notin Done(d, st_wb, fpu_wb)
<1> DEFINE done == Done(d, st_wb, fpu_wb)
<1>1. /\ d \in DivSteps /\ st_wb \in StoreReturns /\ fpu_wb \in FpuReturns
      /\ UnitInv /\ ApartInv /\ BusInv
  BY DEF RunStep, BInv
<1>2. \A i \in Entries : i \in done /\ Pending(i) =>
        \/ fpu_wb.valid /\ fpu_wb.id = i /\ i \in fpu_out
        \/ st_wb.valid /\ st_wb.id = i /\ i \in lsu_out /\ mem[i].instr.fu # "LOAD"
        \/ LoadDue /\ ld_pipe.id = i
        \/ Immediate /\ ex_q.id = i
        \/ mul_q = i
        \/ div_valid(d) /\ div.id = i
  BY <1>1, DoneCases
<1>3. ASSUME Immediate
      PROVE  /\ ex_q.op \notin {"none", "MUL", "DIV", "LOAD", "STORE", "AMO", "FPU"}
             /\ Works(ex_q.id, {ex_q.op})
  BY SMT, <1>1, <1>3, Units DEF Immediate, UnitInv, NoOp
<1>4. div_valid(d) => div.state # "IDLE"
  BY <1>1 DEF div_valid, DivSteps
<1> HIDE DEF done
<1>5. ASSUME NEW i \in Entries, NEW op, Owes(mem, i, {op}), i \in done,
             op \in {"MUL", "DIV", "LOAD", "STORE", "AMO", "FPU"}
      PROVE  \/ op = "FPU" /\ fpu_wb.valid /\ fpu_wb.id = i /\ i \in fpu_out
             \/ op \in {"STORE", "AMO", "LOAD"} /\ st_wb.valid /\ st_wb.id = i
                  /\ i \in lsu_out
             \/ op = "LOAD" /\ LoadDue /\ ld_pipe.id = i
             \/ op = "MUL" /\ mul_q = i
             \/ op = "DIV" /\ div_valid(d) /\ div.id = i
  <2>1. Pending(i) /\ mem[i].instr.op = op
    BY <1>5 DEF Owes, Pending
  <2>2. CASE fpu_wb.valid /\ fpu_wb.id = i /\ i \in fpu_out
    BY <1>1, <2>1, <2>2 DEF UnitInv, Works, Owes
  <2>3. CASE st_wb.valid /\ st_wb.id = i /\ i \in lsu_out
    BY <1>1, <2>1, <2>3 DEF UnitInv, Works, Owes
  <2>4. CASE LoadDue /\ ld_pipe.id = i
    BY <1>1, <2>1, <2>4 DEF UnitInv, Works, Owes
  <2>5. CASE Immediate /\ ex_q.id = i
    BY <1>3, <1>5, <2>1, <2>5 DEF Works, Owes
  <2>6. CASE mul_q = i
    <3>1. mul_q # NoId
      BY SMT, <1>5, <2>6, ScoreboardAssumption DEF NoId, Entries
    <3> QED BY <1>1, <2>1, <2>6, <3>1 DEF UnitInv, Works, Owes
  <2>7. CASE div_valid(d) /\ div.id = i
    BY <1>1, <1>4, <2>1, <2>7 DEF UnitInv, Works, Owes
  <2> QED BY <1>2, <1>5, <2>1, <2>2, <2>3, <2>4, <2>5, <2>6, <2>7
<1>6. ASSUME ex_q.op \in {"MUL", "DIV", "LOAD", "STORE", "AMO", "FPU"}
      PROVE  ex_q.id \notin done
  <2>1. ex_q.op # "none" /\ Owes(mem, ex_q.id, {ex_q.op}) /\ ex_q.id \in Entries
    BY SMT, <1>1, <1>6 DEF UnitInv, Works, Owes, NoOp
  <2>2. div_valid(d) => ex_q.op # "DIV"
    BY <1>1, <1>4 DEF BusInv
  <2> QED BY <1>1, <1>5, <1>6, <2>1, <2>2 DEF ApartInv
<1>7. ASSUME div.state # "IDLE", ~div_valid(d) PROVE div.id \notin done
  <2>1. Owes(mem, div.id, {"DIV"}) /\ div.id \in Entries
    BY <1>1, <1>7 DEF UnitInv, Works, Owes
  <2> QED BY <1>5, <1>7, <2>1
<1>8. ASSUME NEW i \in lsu_out, ~(st_wb.valid /\ st_wb.id = i) PROVE i \notin done
  <2>1. i \in Entries /\ Owes(mem, i, {"LOAD", "STORE", "AMO"})
    BY <1>1 DEF UnitInv, Works, Owes
  <2>2. PICK op \in {"LOAD", "STORE", "AMO"} : Owes(mem, i, {op})
    BY <2>1 DEF Owes
  <2> QED BY <1>1, <1>5, <1>8, <2>1, <2>2 DEF ApartInv
<1>9. ASSUME NEW i \in fpu_out, ~(fpu_wb.valid /\ fpu_wb.id = i) PROVE i \notin done
  <2>1. i \in Entries /\ Owes(mem, i, {"FPU"})
    BY <1>1 DEF UnitInv, Works, Owes
  <2> QED BY SMT, <1>5, <1>9, <2>1
<1> QED BY <1>6, <1>7, <1>8, <1>9 DEF done

\* The divider in a cycle.
LEMMA DivFacts ==
  ASSUME UnitInv, BusInv, NEW d \in DivSteps
  PROVE  \/ div_valid(d) /\ div.state # "IDLE" /\ DivNext(d) = [state |-> "IDLE", id |-> NoId]
         \/ /\ ~div_valid(d) /\ div.state # "IDLE" /\ DivNext(d).id = div.id
            /\ DivNext(d).state \in {"DIVIDE", "FINISH"}
         \/ /\ div.state = "IDLE" /\ ex_q.op = "DIV" /\ ~div_valid(d)
            /\ DivNext(d) = [state |-> "DIVIDE", id |-> ex_q.id]
         \/ div.state = "IDLE" /\ ex_q.op # "DIV" /\ ~div_valid(d) /\ DivNext(d) = div
<1>1. d \in {"busy", "done", "zero"} /\ (d # "busy" => div.state = "DIVIDE")
  BY DEF DivSteps
<1>2. CASE div_valid(d)
  <2>1. div.state # "IDLE"
    BY <1>1, <1>2 DEF div_valid
  <2>2. div_ready
    BY <2>1 DEF BusInv, div_ready
  <2>3. d # "done" /\ div.state # "IDLE"
    BY <1>1, <1>2, <2>1 DEF div_valid
  <2> QED BY <1>2, <2>1, <2>2, <2>3 DEF DivNext
<1>3. CASE ~div_valid(d) /\ d = "done"
  <2>1. DivNext(d) = [div EXCEPT !.state = "FINISH"]
    BY <1>1, <1>3 DEF DivNext
  <2>2. DivNext(d) = [state |-> "FINISH", id |-> div.id]
    BY <2>1 DEF UnitInv
  <2>3. DivNext(d).id = div.id /\ DivNext(d).state = "FINISH"
    BY SMT, <2>2
  <2> QED BY <1>1, <1>3, <2>2, <2>3
<1>4. CASE ~div_valid(d) /\ d = "busy" /\ div.state = "IDLE"
  BY <1>4 DEF DivNext
<1>5. CASE ~div_valid(d) /\ d = "busy" /\ div.state # "IDLE"
  <2>1. DivNext(d) = div
    BY <1>5 DEF DivNext
  <2>2. div.state \in {"DIVIDE", "FINISH"}
    BY <1>5 DEF UnitInv
  <2> QED BY <1>5, <2>1, <2>2
<1>6. d = "zero" => div_valid(d)
  BY DEF div_valid
<1> QED BY <1>1, <1>2, <1>3, <1>4, <1>5, <1>6

\* The ID/issue register is filled by the decoder only.
LEMMA FetchKept ==
  ASSUME FetchInv, workload \in DOMAIN Workloads, NEW ack, IdStage(ack)
  PROVE  FetchInv'
<1>1. CASE issue_q' = NoFetch
  BY <1>1 DEF FetchInv, NoFetch
<1>2. CASE UNCHANGED issue_q
  BY <1>2 DEF FetchInv
<1>3. CASE \E f \in Fetches : issue_q' = f
  <2>1. PICK f \in Fetches : issue_q' = f
    BY <1>3
  <2>2. CASE f = NoFetch
    BY <1>1, <2>1, <2>2
  <2>3. CASE f # NoFetch
    <3>1. PICK g \in Fetchable :
            f = [op |-> g.op, rd |-> g.rd, rs |-> g.rs, ex |-> g.ex,
                 mispredict |-> g.mispredict, wrong |-> wrong_path]
      BY <2>3 DEF Fetches
    <3>2. /\ f.op = g.op /\ f.rd = g.rd /\ f.ex = g.ex /\ f.mispredict = g.mispredict
      BY <3>1
    <3>3. /\ g.op \in Operations /\ g.ex \in BOOLEAN /\ g.mispredict \in BOOLEAN
          /\ g.op = "EXC" => g.ex
          /\ g.mispredict => g.op = "BRANCH"
          /\ g.op \in NoDestination => g.rd = X0
          /\ \A ok \in BOOLEAN :
               [op |-> g.op, fu |-> fu_of(g.op), rd |-> g.rd, ok |-> ok] \in Instr
      BY DecoderAssumption DEF Fetchable
    <3>4. g.rd \in Regs
      BY BackendAssumption DEF Fetchable
    <3> QED BY <2>1, <3>2, <3>3, <3>4 DEF FetchInv
  <2> QED BY <2>2, <2>3
<1> QED BY <1>1, <1>2, <1>3 DEF IdStage, IdFlush

\* The slots hold what was issued, and the results of their own operations.
LEMMA RunSlots ==
  ASSUME BInv, NEW c, NEW d, NEW ld_ret, NEW st_wb, NEW fpu_wb, NEW branch_ex,
         NEW unit_ready,
         RunStep(c, d, ld_ret, st_wb, fpu_wb, branch_ex, unit_ready)
  PROVE  SlotInv'
<1> DEFINE issue == Issues(c, d, st_wb, fpu_wb, branch_ex, unit_ready)
           new == Issued(WbBus(fpu_wb, st_wb, d, branch_ex))
           gone == Committed(c.n)
           done == Done(d, st_wb, fpu_wb)
<1>1. SlotInv /\ SbInv
  BY DEF BInv
<1>2. Edge(issue, new, gone, done)
  BY RunEdge
<1>3. ASSUME issue
      PROVE  /\ new.instr.op \in Operations /\ new.instr.fu = fu_of(new.instr.op)
             /\ new.instr.op = "EXC" => new.ex
             /\ new.instr.op \in NoDestination => new.instr.rd = X0
  <2>1. /\ issue_q.op \in Operations
        /\ issue_q.op = "EXC" => issue_q.ex
        /\ issue_q.op \in NoDestination => issue_q.rd = X0
    BY <1>3, IssueFacts DEF BInv, RunStep
  <2>2. /\ new.instr.op = issue_q.op /\ new.instr.fu = fu_of(issue_q.op)
        /\ new.instr.rd = issue_q.rd /\ new.ex = issue_q.ex
    BY DEF Issued
  <2> HIDE DEF new
  <2> QED BY <2>1, <2>2
<1> HIDE DEF issue, new, gone, done
<1>4. ASSUME NEW i \in Entries, mem'[i].issued
      PROVE  /\ mem'[i].instr.op \in Operations
             /\ mem'[i].instr.fu = fu_of(mem'[i].instr.op)
             /\ mem'[i].instr.op = "EXC" => mem'[i].ex
             /\ mem'[i].instr.op \in NoDestination => mem'[i].instr.rd = X0
             /\ mem'[i].valid /\ ~mem'[i].ex /\ mem'[i].instr.fu \in Computing
                  => mem'[i].result = "ok"
  <2>1. CASE issue /\ i = issue_pointer
    <3>1. mem'[i] = Pushed(new.instr, new.ex)
      BY <1>2, <2>1 DEF Edge
    <3> QED BY SMT, <1>3, <1>4, <2>1, <3>1, PushedFields
  <2>2. CASE i \in gone
    <3>1. mem'[i] = FreeEntry
      BY <1>2, <2>2 DEF Edge
    <3> QED BY <1>4, <3>1, FreeFields
  <2>3. CASE i \notin gone /\ ~(issue /\ i = issue_pointer)
    <3>1. /\ mem'[i].issued = mem[i].issued
          /\ mem'[i].instr = mem[i].instr
          /\ mem[i].ex => mem'[i].ex
          /\ \/ mem'[i] = mem[i]
             \/ mem[i].instr.fu \in Computing => mem'[i].result = "ok"
      BY <1>2, <2>3 DEF Edge
    <3>2. mem[i].issued
      BY <1>4, <3>1
    <3> QED BY <1>1, <3>1, <3>2 DEF SlotInv
  <2> QED BY <2>1, <2>2, <2>3
<1> QED BY <1>4 DEF SlotInv

\* Every unit works for a slot that waits for it.
LEMMA RunUnitInv ==
  ASSUME BInv, NEW c, NEW d, NEW ld_ret, NEW st_wb, NEW fpu_wb, NEW branch_ex,
         NEW unit_ready,
         RunStep(c, d, ld_ret, st_wb, fpu_wb, branch_ex, unit_ready)
  PROVE  UnitInv'
<1> DEFINE issue == Issues(c, d, st_wb, fpu_wb, branch_ex, unit_ready)
           new == Issued(WbBus(fpu_wb, st_wb, d, branch_ex))
           gone == Committed(c.n)
           done == Done(d, st_wb, fpu_wb)
<1>1. UnitInv /\ BusInv /\ SlotInv /\ d \in DivSteps
  BY DEF BInv, RunStep
<1>2. Edge(issue, new, gone, done)
  BY RunEdge
<1>3. UnitStep(c, d, ld_ret, st_wb, fpu_wb, issue)
  BY RunUnits
<1>4. /\ ex_q.op \in {"MUL", "DIV", "LOAD", "STORE", "AMO", "FPU"} => ex_q.id \notin done
      /\ div.state # "IDLE" /\ ~div_valid(d) => div.id \notin done
      /\ \A i \in lsu_out : ~(st_wb.valid /\ st_wb.id = i) => i \notin done
      /\ \A i \in fpu_out : ~(fpu_wb.valid /\ fpu_wb.id = i) => i \notin done
  BY StillWorks
<1>5. ASSUME issue, ~issue_q.ex
      PROVE  /\ issue_pointer \in Entries
             /\ mem'[issue_pointer].issued = TRUE /\ mem'[issue_pointer].valid = FALSE
             /\ mem'[issue_pointer].ex = FALSE
             /\ mem'[issue_pointer].instr.op = issue_q.op
             /\ issue_q.op # "EXC" /\ issue_q.mispredict \in BOOLEAN
  <2>1. issue_q.op # "EXC" /\ issue_q.mispredict \in BOOLEAN /\ issue_q.ex = FALSE
    BY <1>5, IssueFacts DEF BInv, RunStep
  <2>2. mem'[issue_pointer] = Pushed(new.instr, new.ex) /\ issue_pointer \in Entries
    BY <1>2, <1>5 DEF Edge
  <2>3. new.ex = FALSE /\ new.instr.op = issue_q.op
    BY <2>1 DEF Issued
  <2> HIDE DEF new
  <2>4. /\ mem'[issue_pointer].issued = TRUE /\ mem'[issue_pointer].valid = new.ex
        /\ mem'[issue_pointer].ex = new.ex /\ mem'[issue_pointer].instr = new.instr
    BY SMT, <2>2 DEF Pushed
  <2> QED BY <2>1, <2>2, <2>3, <2>4
<1>6. /\ ld_ret \in WriteBack
      /\ \/ ld_ret = NoWriteBack
         \/ /\ ld_ret.valid = TRUE /\ ld_ret.result = "ok" /\ ld_ret.ex \in BOOLEAN
            /\ ld_ret.id \in lsu_out /\ mem[ld_ret.id].instr.fu = "LOAD"
      /\ \/ st_wb = NoWriteBack
         \/ st_wb.id \in lsu_out /\ mem[st_wb.id].instr.fu # "LOAD"
  BY <1>1, Returned DEF RunStep
<1>7. \A i, ops : Owes(mem, i, ops) /\ i \notin done => Owes(mem', i, ops)
  BY <1>2, OwesOn
<1> HIDE DEF issue, new, gone, done
<1>8. \/ ex_q' = NoOp
      \/ /\ ex_q'.op # "EXC" /\ ex_q'.mispredict \in BOOLEAN
         /\ Owes(mem', ex_q'.id, {ex_q'.op}) /\ ~mem'[ex_q'.id].ex
  <2>1. CASE issue /\ ~issue_q.ex
    <3>1. ex_q' = [op |-> issue_q.op, id |-> issue_pointer,
                   mispredict |-> issue_q.mispredict]
      BY <1>3, <2>1 DEF UnitStep
    <3> QED BY <1>5, <2>1, <3>1 DEF Owes
  <2>2. CASE ~(issue /\ ~issue_q.ex)
    BY <1>3, <2>2 DEF UnitStep
  <2> QED BY <2>1, <2>2
<1>9. ex_q.op # "none" => Owes(mem, ex_q.id, {ex_q.op})
  BY SMT, <1>1 DEF UnitInv, Works, NoOp
<1>10. mul_q' = NoId \/ Owes(mem', mul_q', {"MUL"})
  BY <1>3, <1>4, <1>7, <1>9 DEF UnitStep
<1>11. /\ div' = [state |-> div'.state, id |-> div'.id]
       /\ \/ div'.state = "IDLE" /\ div'.id = NoId
          \/ div'.state \in {"DIVIDE", "FINISH"} /\ Owes(mem', div'.id, {"DIV"})
  <2>1. div' = DivNext(d)
    BY <1>3 DEF UnitStep
  <2>2. div.state # "IDLE" => Owes(mem, div.id, {"DIV"})
    BY <1>1 DEF UnitInv, Works
  <2>3. div.state = "IDLE" => div.id = NoId
    BY <1>1 DEF UnitInv
  <2>4. div = [state |-> div.state, id |-> div.id]
    BY <1>1 DEF UnitInv
  <2>5. DivNext(d) = [state |-> DivNext(d).state, id |-> DivNext(d).id]
    BY <2>4 DEF DivNext
  <2>6. \/ DivNext(d) = [state |-> "IDLE", id |-> NoId]
        \/ /\ ~div_valid(d) /\ div.state # "IDLE" /\ DivNext(d).id = div.id
           /\ DivNext(d).state \in {"DIVIDE", "FINISH"}
        \/ ex_q.op = "DIV" /\ DivNext(d) = [state |-> "DIVIDE", id |-> ex_q.id]
    <3>1. div.state = "IDLE" => div = [state |-> "IDLE", id |-> NoId]
      BY <2>3, <2>4
    <3> QED BY <1>1, <3>1, DivFacts
  <2>7. CASE DivNext(d) = [state |-> "IDLE", id |-> NoId]
    BY SMT, <2>1, <2>7
  <2>8. CASE /\ ~div_valid(d) /\ div.state # "IDLE" /\ DivNext(d).id = div.id
             /\ DivNext(d).state \in {"DIVIDE", "FINISH"}
    BY <1>4, <1>7, <2>1, <2>2, <2>5, <2>8
  <2>9. CASE ex_q.op = "DIV" /\ DivNext(d) = [state |-> "DIVIDE", id |-> ex_q.id]
    BY SMT, <1>4, <1>7, <1>9, <2>1, <2>9
  <2> QED BY <2>6, <2>7, <2>8, <2>9
<1>12. ASSUME NEW i \in lsu_out' PROVE Owes(mem', i, {"LOAD", "STORE", "AMO"})
  <2>1. CASE i \in lsu_out /\ ~(st_wb.valid /\ st_wb.id = i)
    BY <1>1, <1>4, <1>7, <2>1 DEF UnitInv, Works
  <2>2. CASE i = ex_q.id /\ fu_of(ex_q.op) \in {"LOAD", "STORE"}
    <3>1. ex_q.op # "none"
      BY <2>2, Units
    <3>2. mem[i].issued /\ mem[i].instr.op = ex_q.op /\ i \in Entries
      BY <1>9, <2>2, <3>1 DEF Owes
    <3>3. ex_q.op \in {"LOAD", "STORE", "AMO"}
      BY <1>1, <2>2, <3>2, OpCases DEF SlotInv
    <3>4. Owes(mem', i, {ex_q.op})
      BY <1>4, <1>7, <1>9, <2>2, <3>1, <3>3
    <3> QED BY <3>3, <3>4 DEF Owes
  <2> QED BY <1>3, <2>1, <2>2 DEF UnitStep
<1>13. ASSUME NEW i \in fpu_out' PROVE Owes(mem', i, {"FPU"})
  <2>1. CASE i \in fpu_out /\ ~(fpu_wb.valid /\ fpu_wb.id = i)
    BY <1>1, <1>4, <1>7, <2>1 DEF UnitInv, Works
  <2>2. CASE i = ex_q.id /\ ex_q.op = "FPU"
    BY <1>4, <1>7, <1>9, <2>2
  <2> QED BY <1>3, <2>1, <2>2 DEF UnitStep
<1>14. ld_pipe' = ld_ret
  BY <1>3 DEF UnitStep
<1>15. ASSUME ld_ret.valid PROVE Owes(mem', ld_ret.id, {"LOAD"}) /\ ld_ret.result = "ok"
  <2>1. ld_ret.id \in lsu_out /\ mem[ld_ret.id].instr.fu = "LOAD" /\ ld_ret.result = "ok"
    BY <1>6, <1>15, NoWbFacts
  <2>2. Owes(mem, ld_ret.id, {"LOAD", "STORE", "AMO"})
    BY <1>1, <2>1 DEF UnitInv, Works
  <2>3. Owes(mem, ld_ret.id, {"LOAD"})
    BY <1>1, <2>1, <2>2, Units DEF Owes, SlotInv
  <2>4. ld_ret.id \notin done
    BY <1>4, <1>6, <2>1, NoWbFacts
  <2> QED BY <1>7, <2>1, <2>3, <2>4
<1> QED BY <1>6, <1>8, <1>10, <1>11, <1>12, <1>13, <1>14, <1>15
        DEF UnitInv, Works, LoadDue, LoadLate

\* Whether a slot waits for an answer of a unit or not, an instruction that is
\* issued gets another one.
LEMMA FreshSlot ==
  ASSUME NEW issue, NEW new, NEW gone, NEW done, Edge(issue, new, gone, done), issue,
         NEW ops
  PROVE  ~Owes(mem, issue_pointer, ops)
BY DEF Edge, Owes

\* No two units work for the same slot.
LEMMA RunApart ==
  ASSUME BInv, NEW c, NEW d, NEW ld_ret, NEW st_wb, NEW fpu_wb, NEW branch_ex,
         NEW unit_ready,
         RunStep(c, d, ld_ret, st_wb, fpu_wb, branch_ex, unit_ready)
  PROVE  ApartInv'
<1> DEFINE issue == Issues(c, d, st_wb, fpu_wb, branch_ex, unit_ready)
           new == Issued(WbBus(fpu_wb, st_wb, d, branch_ex))
<1>1. UnitInv /\ ApartInv /\ d \in DivSteps
  BY DEF BInv, RunStep
<1>2. ASSUME issue, NEW ops PROVE ~Owes(mem, issue_pointer, ops)
  <2>1. Edge(issue, new, Committed(c.n), Done(d, st_wb, fpu_wb))
    BY RunEdge
  <2> HIDE DEF issue, new
  <2> QED BY <1>2, <2>1, FreshSlot
<1>3. UnitStep(c, d, ld_ret, st_wb, fpu_wb, issue)
  BY RunUnits
<1>4. \/ ld_ret = NoWriteBack
      \/ ld_ret.valid = TRUE /\ ld_ret.result = "ok" /\ ld_ret.id \in lsu_out
  BY <1>1, Returned DEF RunStep
<1>5. issue => issue_pointer \in Entries
  BY RunEdge DEF Edge
<1> HIDE DEF issue, new
<1>6. ex_q.op # "none" => Owes(mem, ex_q.id, {ex_q.op})
  BY SMT, <1>1 DEF UnitInv, Works, NoOp
<1>7. /\ \A i \in lsu_out : Owes(mem, i, {"LOAD", "STORE", "AMO"})
      /\ \A i \in fpu_out : Owes(mem, i, {"FPU"})
  BY <1>1 DEF UnitInv, Works
<1>8. fu_of(ex_q.op) \in {"LOAD", "STORE"} => ex_q.op # "none"
  BY Units
<1>9. ASSUME ex_q'.op # "none"
      PROVE  ex_q'.id # mul_q' /\ ex_q'.id \notin lsu_out' \cup fpu_out'
             /\ ~(ld_ret.valid /\ ld_ret.id = ex_q'.id)
  <2>1. issue /\ ex_q'.id = issue_pointer
    BY <1>3, <1>9 DEF UnitStep, NoOp
  <2>2. mul_q' # issue_pointer
    <3>1. NoId # issue_pointer
      BY SMT, <1>5, <2>1, ScoreboardAssumption DEF NoId, Entries
    <3> QED BY <1>2, <1>3, <1>6, <2>1, <3>1 DEF UnitStep
  <2>3. issue_pointer \notin lsu_out'
    BY <1>2, <1>3, <1>6, <1>7, <1>8, <2>1 DEF UnitStep
  <2>4. issue_pointer \notin fpu_out'
    BY <1>2, <1>3, <1>6, <1>7, <2>1 DEF UnitStep
  <2>5. ~(ld_ret.valid /\ ld_ret.id = issue_pointer)
    BY <1>2, <1>4, <1>7, <2>1, NoWbFacts
  <2> QED BY <2>1, <2>2, <2>3, <2>4, <2>5
<1>10. ASSUME ld_ret.valid
       PROVE  ld_ret.id \notin lsu_out' /\ ld_ret.id # ex_q'.id
  <2>1. ld_ret.id \in lsu_out
    BY <1>4, <1>10, NoWbFacts
  <2>2. ld_ret.id \notin lsu_out'
    BY <1>1, <1>3, <1>8, <1>10, <2>1 DEF UnitStep, ApartInv
  <2>3. ld_ret.id # NoId
    BY SMT, <1>7, <2>1, ScoreboardAssumption DEF NoId, Entries, Owes
  <2>4. CASE ex_q'.op # "none"
    BY <1>9, <1>10, <2>2, <2>4
  <2>5. CASE ex_q'.op = "none"
    <3>1. ex_q' = NoOp
      <4>1. ASSUME issue, ~issue_q.ex PROVE issue_q.op # "none"
        <5>1. issue_q.op \in Operations
          BY <4>1, IssueFacts DEF BInv, RunStep, issue
        <5> QED BY <5>1, OpCases
      <4> QED BY <1>3, <2>5, <4>1 DEF UnitStep
    <3> QED BY <2>2, <2>3, <3>1 DEF NoOp
  <2> QED BY <2>4, <2>5
<1>11. ld_pipe' = ld_ret
  BY <1>3 DEF UnitStep
<1> QED BY <1>9, <1>10, <1>11 DEF ApartInv, LoadDue

\* No slot that waits for a result is forgotten.
LEMMA RunCover ==
  ASSUME BInv, NEW c, NEW d, NEW ld_ret, NEW st_wb, NEW fpu_wb, NEW branch_ex,
         NEW unit_ready,
         RunStep(c, d, ld_ret, st_wb, fpu_wb, branch_ex, unit_ready)
  PROVE  CoverInv'
<1> DEFINE issue == Issues(c, d, st_wb, fpu_wb, branch_ex, unit_ready)
           new == Issued(WbBus(fpu_wb, st_wb, d, branch_ex))
           gone == Committed(c.n)
           done == Done(d, st_wb, fpu_wb)
<1>1. UnitInv /\ CoverInv /\ BusInv /\ SlotInv /\ d \in DivSteps
  BY DEF BInv, RunStep
<1>2. Edge(issue, new, gone, done)
  BY RunEdge
<1>3. UnitStep(c, d, ld_ret, st_wb, fpu_wb, issue)
  BY RunUnits
<1>4. \/ ld_ret = NoWriteBack
      \/ ld_ret.valid = TRUE /\ ld_ret.result = "ok"
  BY <1>1, Returned DEF RunStep
<1>5. \A i \in Entries : i \notin done =>
        /\ ~(fpu_wb.valid /\ fpu_wb.id = i) /\ ~(st_wb.valid /\ st_wb.id = i)
        /\ ~(ld_pipe.valid /\ ld_pipe.id = i) /\ ~FluAnswers(d, i)
  BY DEF Done
<1>6. new.ex = issue_q.ex
  BY DEF Issued
<1> HIDE DEF issue, new, gone, done
<1>7. ASSUME NEW i \in Entries, mem'[i].issued, ~mem'[i].valid
      PROVE  \/ i \in {ex_q'.id, mul_q', div'.id}
             \/ i \in lsu_out' \cup fpu_out'
             \/ ld_ret.valid /\ ld_ret.result = "ok" /\ ld_ret.id = i
  <2>1. CASE issue /\ i = issue_pointer
    <3>1. mem'[i] = Pushed(new.instr, new.ex)
      BY <1>2, <2>1 DEF Edge
    <3>2. ~issue_q.ex
      BY SMT, <1>6, <1>7, <3>1, PushedFields
    <3>3. ex_q'.id = i
      BY <1>3, <2>1, <3>2 DEF UnitStep
    <3> QED BY <3>3
  <2>2. CASE i \in gone
    <3>1. mem'[i] = FreeEntry
      BY <1>2, <2>2 DEF Edge
    <3> QED BY <1>7, <3>1, FreeFields
  <2>3. CASE i \notin gone /\ ~(issue /\ i = issue_pointer)
    <3>1. Pending(i) /\ i \notin done
      BY <1>2, <1>7, <2>3 DEF Edge, Pending
    <3>2. ~FluAnswers(d, i) /\ ~(LoadDue /\ ld_pipe.id = i)
      BY <1>5, <3>1 DEF LoadDue
    <3>3. CASE ex_q.id = i
      <4>1. ex_q # NoOp
        BY SMT, <3>3, ScoreboardAssumption DEF NoOp, NoId, Entries
      <4>2. mem[i].instr.op = ex_q.op /\ ex_q.op \in Operations /\ ex_q.op # "EXC"
        BY <1>1, <3>1, <3>3, <4>1 DEF UnitInv, Works, Owes, SlotInv, Pending
      <4>3. fu_of(ex_q.op) \in {"MULT", "LOAD", "STORE", "FPU"}
        <5>1. ~Immediate
          BY <3>2, <3>3 DEF FluAnswers
        <5> QED BY <4>2, <5>1, Units DEF Operations, Immediate
      <4>4. ex_q.op \in {"MUL", "DIV", "FPU"} \/ fu_of(ex_q.op) \in {"LOAD", "STORE"}
        BY <4>2, <4>3, OpCases
      <4>5. CASE ex_q.op = "MUL"
        BY <1>3, <3>3, <4>5 DEF UnitStep
      <4>6. CASE ex_q.op = "DIV"
        <5>1. div.state = "IDLE"
          BY <1>1, <4>6 DEF BusInv
        <5>2. DivNext(d) = [state |-> "DIVIDE", id |-> ex_q.id]
          BY <1>1, <4>6, <5>1, DivFacts
        <5>3. div' = [state |-> "DIVIDE", id |-> ex_q.id]
          BY <1>3, <5>2 DEF UnitStep
        <5> QED BY <3>3, <5>3
      <4>7. CASE ex_q.op = "FPU"
        BY <1>3, <3>3, <4>7 DEF UnitStep
      <4>8. CASE fu_of(ex_q.op) \in {"LOAD", "STORE"}
        BY <1>3, <3>3, <4>8 DEF UnitStep
      <4> QED BY <4>4, <4>5, <4>6, <4>7, <4>8
    <3>4. CASE mul_q = i
      <4>1. mul_q # NoId
        BY SMT, <3>4, ScoreboardAssumption DEF NoId, Entries
      <4> QED BY <3>2, <3>4, <4>1 DEF FluAnswers
    <3>5. CASE div.id = i
      <4>1. div.state # "IDLE"
        <5>1. i # NoId
          BY SMT, ScoreboardAssumption DEF NoId, Entries
        <5> QED BY <1>1, <3>5, <5>1 DEF UnitInv
      <4>2. ~div_valid(d)
        BY <3>2, <3>5 DEF FluAnswers
      <4>3. DivNext(d).id = div.id
        BY <1>1, <4>1, <4>2, DivFacts
      <4> QED BY <1>3, <3>5, <4>3 DEF UnitStep
    <3>6. CASE i \in lsu_out \cup fpu_out
      BY <1>3, <1>4, <1>5, <3>1, <3>6, NoWbFacts DEF UnitStep
    <3> QED BY <1>1, <3>1, <3>2, <3>3, <3>4, <3>5, <3>6 DEF CoverInv
  <2> QED BY <2>1, <2>2, <2>3
<1>8. ld_pipe' = ld_ret
  BY <1>3 DEF UnitStep
<1> QED BY <1>7, <1>8 DEF CoverInv, Pending, LoadDue

\* The fixed latency port stays free for the multiplier and the divider.
LEMMA RunBus ==
  ASSUME BInv, NEW c, NEW d, NEW ld_ret, NEW st_wb, NEW fpu_wb, NEW branch_ex,
         NEW unit_ready,
         RunStep(c, d, ld_ret, st_wb, fpu_wb, branch_ex, unit_ready)
  PROVE  BusInv'
<1> DEFINE issue == Issues(c, d, st_wb, fpu_wb, branch_ex, unit_ready)
           start == issue /\ ~issue_q.ex
<1>1. UnitInv /\ BusInv /\ d \in DivSteps
  BY DEF BInv, RunStep
<1>2. /\ ex_q' = IF start THEN [op |-> issue_q.op, id |-> issue_pointer,
                                mispredict |-> issue_q.mispredict]
                 ELSE NoOp
      /\ mul_q' = IF ex_q.op = "MUL" THEN ex_q.id ELSE NoId
      /\ div' = DivNext(d)
  BY RunUnits DEF UnitStep
<1>3. ASSUME start
      PROVE  /\ issue_q.op \in Operations /\ issue_q.op # "EXC"
             /\ fu_of(ex_q.op) = "MULT" => issue_q.op \in {"MUL", "DIV"}
             /\ fu_of(issue_q.op) \in {"ALU", "CTRL_FLOW", "CSR", "MULT"} => mult_ready
  <2>1. /\ issue_q.op \in Operations /\ issue_q.op # "EXC"
        /\ fu_of(ex_q.op) = "MULT" => fu_of(issue_q.op) = "MULT"
        /\ fu_of(issue_q.op) \in {"ALU", "CTRL_FLOW", "CSR", "MULT"} => mult_ready
    BY <1>3, IssueFacts DEF BInv, RunStep
  <2> QED BY <2>1, OpCases
<1> HIDE DEF issue, start
<1>4. ASSUME mul_q' # NoId PROVE ex_q'.op \in {"none", "MUL", "DIV"}
  <2>1. fu_of(ex_q.op) = "MULT"
    BY <1>2, <1>4, Units
  <2> QED BY <1>2, <1>3, <2>1 DEF NoOp
<1>5. ASSUME div'.state # "IDLE"
      PROVE  mul_q' = NoId /\ ex_q'.op \in {"none", "LOAD", "STORE", "AMO", "FPU"}
  <2>1. div.state # "IDLE" \/ ex_q.op = "DIV"
    BY <1>1, <1>2, <1>5, DivFacts
  <2>2. ex_q.op # "MUL"
    BY <1>1, <2>1 DEF BusInv
  <2>3. ~mult_ready
    BY <2>1 DEF mult_ready
  <2>4. start => issue_q.op \in {"LOAD", "STORE", "AMO", "FPU"}
    <3>1. start => fu_of(issue_q.op) \notin {"ALU", "CTRL_FLOW", "CSR", "MULT"}
      BY <1>3, <2>3
    <3> QED BY <1>3, <3>1, Units DEF Operations
  <2> QED BY <1>2, <2>2, <2>4 DEF NoOp
<1> QED BY <1>4, <1>5 DEF BusInv

\* No instruction behind a mispredicted branch is issued: the branch is in EX
\* when the first of them reaches the ID/issue register.
LEMMA RunPath ==
  ASSUME BInv, NEW c, NEW d, NEW ld_ret, NEW st_wb, NEW fpu_wb, NEW branch_ex,
         NEW unit_ready,
         RunStep(c, d, ld_ret, st_wb, fpu_wb, branch_ex, unit_ready)
  PROVE  PathInv'
<1> DEFINE ack == issue_ack(c, WbBus(fpu_wb, st_wb, d, branch_ex), unit_ready)
           issue == Issues(c, d, st_wb, fpu_wb, branch_ex, unit_ready)
<1>1. PathInv /\ FetchInv /\ IdStage(ack) /\ FetchInv'
  BY FetchKept DEF BInv, RunStep, Run
<1>2. issue <=> ack /\ ~mispredict
  BY DEF Issues
<1>3. ex_q' = IF issue /\ ~issue_q.ex
              THEN [op |-> issue_q.op, id |-> issue_pointer,
                    mispredict |-> issue_q.mispredict]
              ELSE NoOp
  BY RunUnits DEF UnitStep
<1> HIDE DEF ack, issue
<1>4. CASE issue_q' = NoFetch /\ wrong_path' = FALSE
  BY <1>4 DEF PathInv, NoFetch
<1>5. CASE ~mispredict /\ UNCHANGED <<issue_q, wrong_path>>
  BY <1>1, <1>5 DEF PathInv
<1>6. CASE /\ ~mispredict /\ ~(issue_q # NoFetch /\ ~ack)
           /\ \E f \in Fetches : /\ issue_q' = f
                                 /\ wrong_path' = (wrong_path \/ (f.mispredict /\ ~f.ex))
  <2>1. PICK f \in Fetches : /\ issue_q' = f
                             /\ wrong_path' = (wrong_path \/ (f.mispredict /\ ~f.ex))
    BY <1>6
  <2>2. ASSUME wrong_path PROVE mispredict'
    <3>1. issue_q.op = "BRANCH" /\ issue_q.mispredict /\ ~issue_q.ex
      BY <1>1, <1>6, <2>2 DEF PathInv
    <3>2. issue_q # NoFetch
      BY SMT, <3>1 DEF NoFetch
    <3>3. ex_q'.op = "BRANCH" /\ ex_q'.mispredict
      BY <1>2, <1>3, <1>6, <3>1, <3>2
    <3> QED BY <3>3 DEF mispredict
  <2>3. f.wrong => wrong_path
    BY SMT DEF Fetches, NoFetch
  <2>4. f.mispredict /\ ~f.ex => f.op = "BRANCH"
    BY SMT, <1>1, <2>1 DEF FetchInv, NoFetch
  <2> QED BY <2>1, <2>2, <2>3, <2>4 DEF PathInv
<1> QED BY <1>1, <1>4, <1>5, <1>6 DEF IdStage, IdFlush

\* The CSR buffer keeps the address of the only CSR instruction in flight,
\* except behind a fence, where everything is going to be flushed.
LEMMA RunCsr ==
  ASSUME BInv, NEW c, NEW d, NEW ld_ret, NEW st_wb, NEW fpu_wb, NEW branch_ex,
         NEW unit_ready,
         RunStep(c, d, ld_ret, st_wb, fpu_wb, branch_ex, unit_ready)
  PROVE  CsrInv'
<1> DEFINE issue == Issues(c, d, st_wb, fpu_wb, branch_ex, unit_ready)
           new == Issued(WbBus(fpu_wb, st_wb, d, branch_ex))
           gone == Committed(c.n)
           done == Done(d, st_wb, fpu_wb)
<1>1. /\ SbInv /\ UnitInv /\ CoverInv /\ SlotInv /\ CsrInv /\ HaltInv
      /\ d \in DivSteps /\ st_wb \in StoreReturns /\ fpu_wb \in FpuReturns
      /\ c \in CommitOutcomes /\ ~c.flush
  BY DEF BInv, RunStep
<1>2. Edge(issue, new, gone, done)
  BY RunEdge
<1>3. /\ csr_reg' = [valid |-> \/ fu_of(ex_q.op) = "CSR"
                               \/ csr_reg.valid /\ ~c.commit_csr,
                     id |-> IF fu_of(ex_q.op) = "CSR" THEN ex_q.id
                            ELSE IF c.n > 0 /\ csr_reg.id = commit_pointer[0] THEN NoId
                            ELSE csr_reg.id]
      /\ commit_pointer'[0] = Inc(Inc(commit_pointer[0], c.n), 0)
      /\ issue_cnt' = issue_cnt - c.n + (IF issue THEN 1 ELSE 0)
  <2>1. /\ CsrBuffer(c)
        /\ Advance(Push(issue, new), WbBus(fpu_wb, st_wb, d, branch_ex), c.n)
    BY RunPorts DEF PortsOk, RunStep, Run
  <2>2. 0 \in CommitPorts
    BY <1>1, Ports
  <2>3. issue \in BOOLEAN
    BY DEF Issues
  <2> HIDE DEF issue, new
  <2> QED BY <2>1, <2>2, <2>3 DEF CsrBuffer, Advance, Push
<1>4. /\ c.n \in 0 .. 2
      /\ c.n > 0 /\ head.instr.op \in FenceOps => c.flush
      /\ c.commit_csr => head.valid /\ ~head.ex /\ head.instr.fu = "CSR"
      /\ c.commit_csr /\ head.instr.op \in CsrOps \ FenceOps => c.n > 0
  BY <1>1, CommitFacts
<1>5. c.n > 0 => commit_pointer[0] \in gone
  BY SMT, <1>4 DEF Committed
<1>6. commit_pointer[0] \in Entries /\ issue_cnt \in 0 .. NR_ENTRIES - 1
  BY <1>1, Ports DEF SbInv, SbTypeOK, Entries
<1>7. issue => new.ex = issue_q.ex /\ new.instr.op = issue_q.op
               /\ new.instr.fu = fu_of(issue_q.op)
  BY DEF Issued
<1>8. issue /\ ~issue_q.ex /\ fu_of(issue_q.op) = "CSR" => csr_ready(c)
  BY IssueFacts DEF BInv, RunStep
<1>9. \A i \in Entries : i \in done /\ Pending(i) =>
        \/ i \in fpu_out
        \/ i \in lsu_out
        \/ LoadDue /\ ld_pipe.id = i
        \/ ex_q.id = i
        \/ mul_q = i
        \/ div.id = i
  BY <1>1, DoneCases
<1> HIDE DEF issue, new, gone, done
<1>10. ASSUME NEW i \in CsrSlots, ~mem[i].valid, 
              i \in done \/ CoverInv
       PROVE  ex_q.id = i /\ fu_of(ex_q.op) = "CSR"
  <2>1. i \in Entries /\ Pending(i) /\ mem[i].instr.op \in CsrOps
    BY <1>1, <1>10, OpCases DEF CsrSlots, Pending, SlotInv
  <2>2. /\ mem[i].instr.op \notin {"MUL", "DIV", "LOAD", "STORE", "AMO", "FPU"}
        /\ i # NoId
    BY SMT, <2>1, ScoreboardAssumption DEF CsrOps, FenceOps, Entries, NoId
  <2>3. i \notin fpu_out /\ i \notin lsu_out /\ ~(LoadDue /\ ld_pipe.id = i)
        /\ mul_q # i /\ div.id # i
    BY SMT, <1>1, <2>2 DEF UnitInv, Works, Owes
  <2>4. ex_q.id = i
    BY <1>1, <1>9, <1>10, <2>1, <2>3 DEF CoverInv
  <2>5. mem[i].instr.op = ex_q.op
    BY SMT, <1>1, <2>2, <2>4 DEF UnitInv, Works, Owes, NoOp
  <2> QED BY <2>1, <2>4, <2>5, Units
<1>11. CASE issue_cnt > 0 /\ FenceAtHead
  <2>1. c.n = 0
    <3>1. ~(c.n > 0)
      BY <1>1, <1>4, <1>11 DEF FenceAtHead
    <3>2. c.n \in 0 .. 2
      BY <1>4
    <3> QED BY <3>1, <3>2, NoneCommitted
  <2>2. commit_pointer'[0] = commit_pointer[0]
    BY <1>3, <1>6, <2>1, IncZero
  <2>3. issue_cnt' > 0
    <3>1. issue_cnt' = issue_cnt - 0 + (IF issue THEN 1 ELSE 0)
      BY <1>3, <2>1
    <3> QED BY SMT, <1>6, <1>11, <3>1
  <2>4. mem[commit_pointer[0]].issued
    <3>1. Dist(commit_pointer[0], commit_pointer[0]) = 0
      BY SMT, <1>6 DEF Dist, Entries
    <3> QED BY <1>1, <1>6, <1>11, <3>1 DEF SbInv, RingInv
  <2>5. mem'[commit_pointer[0]].instr = mem[commit_pointer[0]].instr
    <3>1. commit_pointer[0] \notin gone
      BY SMT, <2>1 DEF gone, Committed
    <3>2. ~(issue /\ commit_pointer[0] = issue_pointer)
      BY <1>2, <2>4 DEF Edge
    <3> QED BY <1>2, <1>6, <3>1, <3>2 DEF Edge
  <2> QED BY <1>11, <2>2, <2>3, <2>5 DEF CsrInv, FenceAtHead, head, commit_instr
<1>12. CASE ~(issue_cnt > 0 /\ FenceAtHead)
  <2>1. /\ \A i, j \in CsrSlots : i = j
        /\ \A i \in CsrSlots : mem[i].valid => csr_reg = [valid |-> TRUE, id |-> i]
    BY <1>1, <1>12 DEF CsrInv
  <2>2. ASSUME c.commit_csr PROVE \A i \in CsrSlots : i \in gone
    <3>1. mem[commit_pointer[0]].valid /\ mem[commit_pointer[0]].issued
          /\ ~mem[commit_pointer[0]].ex /\ mem[commit_pointer[0]].instr.fu = "CSR"
      BY <1>1, <1>4, <1>6, <2>2 DEF head, commit_instr, SbInv, ValidIsIssued
    <3>2. commit_pointer[0] \in CsrSlots
      BY <1>6, <3>1 DEF CsrSlots
    <3>3. issue_cnt > 0
      <4>1. Dist(commit_pointer[0], commit_pointer[0]) = 0
        BY SMT, <1>6 DEF Dist, Entries
      <4> QED BY <1>1, <1>6, <3>1, <4>1 DEF SbInv, RingInv
    <3>4. head.instr.op \in CsrOps \ FenceOps
      <4>1. mem[commit_pointer[0]].instr.op \in CsrOps
        BY <1>1, <1>6, <3>1, OpCases DEF SlotInv
      <4> QED BY <1>12, <3>3, <4>1 DEF FenceAtHead, head, commit_instr
    <3> QED BY <1>4, <1>5, <2>1, <2>2, <3>2, <3>4
  <2>3. ASSUME NEW i \in Entries, mem'[i].issued, ~mem'[i].ex, mem'[i].instr.fu = "CSR"
        PROVE  \/ issue /\ i = issue_pointer /\ mem'[i].valid = FALSE /\ csr_ready(c)
               \/ /\ i \in CsrSlots /\ i \notin gone
                  /\ mem'[i].valid = (mem[i].valid \/ (mem[i].issued /\ i \in done))
    <3>1. CASE issue /\ i = issue_pointer
      <4>1. mem'[i] = Pushed(new.instr, new.ex)
        BY <1>2, <3>1 DEF Edge
      <4>2. mem'[i].valid = new.ex /\ mem'[i].ex = new.ex /\ mem'[i].instr = new.instr
        <5> HIDE DEF new
        <5> QED BY <4>1, PushedSlot
      <4>3. ~issue_q.ex /\ fu_of(issue_q.op) = "CSR" /\ ~new.ex
        BY <1>7, <2>3, <3>1, <4>2
      <4>4. new.ex = FALSE
        <5>1. issue_q.ex \in BOOLEAN
          BY <3>1, IssueFacts DEF issue, BInv, RunStep
        <5> QED BY <1>7, <3>1, <4>3, <5>1
      <4> QED BY <1>8, <3>1, <4>2, <4>3, <4>4
    <3>2. CASE i \in gone
      <4>1. mem'[i] = FreeEntry
        BY <1>2, <3>2 DEF Edge
      <4> QED BY <2>3, <4>1, FreeFields
    <3>3. CASE i \notin gone /\ ~(issue /\ i = issue_pointer)
      BY <1>2, <2>3, <3>3 DEF Edge, CsrSlots
    <3> QED BY <3>1, <3>2, <3>3
  <2>4. ASSUME csr_ready(c) PROVE \A i \in CsrSlots : i \in gone
    <3>1. ASSUME NEW i \in CsrSlots PROVE csr_reg.valid \/ fu_of(ex_q.op) = "CSR"
      <4>1. CASE mem[i].valid
        BY SMT, <2>1, <4>1
      <4>2. CASE ~mem[i].valid
        BY <1>1, <1>10, <4>2
      <4> QED BY <4>1, <4>2
    <3> QED BY <2>2, <2>4, <3>1 DEF csr_ready
  <2>5. ASSUME NEW i \in CsrSlots', NEW j \in CsrSlots' PROVE i = j
    <3>1. /\ i \in Entries /\ mem'[i].issued /\ ~mem'[i].ex /\ mem'[i].instr.fu = "CSR"
          /\ j \in Entries /\ mem'[j].issued /\ ~mem'[j].ex /\ mem'[j].instr.fu = "CSR"
      BY DEF CsrSlots
    <3> QED BY <2>1, <2>3, <2>4, <3>1
  <2>6. ASSUME NEW i \in CsrSlots', mem'[i].valid
        PROVE  csr_reg' = [valid |-> TRUE, id |-> i]
    <3>1. i \in Entries /\ mem'[i].issued /\ ~mem'[i].ex /\ mem'[i].instr.fu = "CSR"
      BY DEF CsrSlots
    <3>2. /\ i \in CsrSlots /\ i \notin gone
          /\ mem'[i].valid = (mem[i].valid \/ (mem[i].issued /\ i \in done))
      BY <2>3, <2>6, <3>1
    <3>3. CASE ~mem[i].valid
      <4>1. i \in done
        BY <2>6, <3>2, <3>3
      <4>2. ex_q.id = i /\ fu_of(ex_q.op) = "CSR"
        BY <1>10, <3>2, <3>3, <4>1
      <4> QED BY <1>3, <4>2
    <3>4. CASE mem[i].valid
      <4>1. csr_reg = [valid |-> TRUE, id |-> i]
        BY <2>1, <3>2, <3>4
      <4>2. ~c.commit_csr
        BY <2>2, <3>2
      <4>3. fu_of(ex_q.op) # "CSR"
        <5>1. ASSUME fu_of(ex_q.op) = "CSR" PROVE FALSE
          <6>1. ex_q.op # "none"
            BY <5>1, Units
          <6>2. Owes(mem, ex_q.id, {ex_q.op}) /\ ~mem[ex_q.id].ex
            BY SMT, <1>1, <6>1 DEF UnitInv, Works, NoOp
          <6>3. ex_q.id \in CsrSlots /\ ~mem[ex_q.id].valid
            BY <1>1, <5>1, <6>2 DEF CsrSlots, Owes, SlotInv
          <6> QED BY <2>1, <3>2, <3>4, <6>3
        <5> QED BY <5>1
      <4>4. ~(c.n > 0 /\ csr_reg.id = commit_pointer[0])
        BY <1>5, <3>2, <4>1
      <4> QED BY <1>3, <4>1, <4>2, <4>3, <4>4
    <3> QED BY <3>3, <3>4
  <2> QED BY <2>5, <2>6 DEF CsrInv
<1> QED BY <1>11, <1>12

\* RunCycle is a RunStep.
LEMMA RunCycleStep ==
  ASSUME RunCycle
  PROVE  \E c, d, ld_ret, st_wb, fpu_wb, branch_ex, unit_ready :
            RunStep(c, d, ld_ret, st_wb, fpu_wb, branch_ex, unit_ready)
<1>1. PICK c \in CommitOutcomes, d \in DivSteps, ld_ret \in LoadReturns,
           st_wb \in StoreReturns, fpu_wb \in FpuReturns,
           branch_ex \in IF ex_q.op = "BRANCH" THEN BOOLEAN ELSE {FALSE} :
        \E unit_ready \in UnitReady(c) :
           ~c.flush /\ Run(c, d, ld_ret, st_wb, fpu_wb, branch_ex, unit_ready)
  BY DEF RunCycle
<1>2. PICK unit_ready \in UnitReady(c) :
        ~c.flush /\ Run(c, d, ld_ret, st_wb, fpu_wb, branch_ex, unit_ready)
  BY <1>1
<1>3. branch_ex \in BOOLEAN
  OBVIOUS
<1>4. RunStep(c, d, ld_ret, st_wb, fpu_wb, branch_ex, unit_ready)
  BY <1>2, <1>3 DEF RunStep
<1> QED BY <1>4

\* A cycle without a flush keeps the invariant.
LEMMA RunInv ==
  ASSUME BInv, RunCycle, UNCHANGED workload
  PROVE  BInv'
<1>1. PICK c, d, ld_ret, st_wb, fpu_wb, branch_ex, unit_ready :
        RunStep(c, d, ld_ret, st_wb, fpu_wb, branch_ex, unit_ready)
  BY RunCycleStep
<1>2. SbInv'
  BY <1>1, RunEdge
<1>3. FetchInv'
  BY <1>1, FetchKept DEF RunStep, Run, BInv
<1>4. SlotInv'
  BY <1>1, RunSlots
<1>5. UnitInv'
  BY <1>1, RunUnitInv
<1>6. ApartInv'
  BY <1>1, RunApart
<1>7. CoverInv'
  BY <1>1, RunCover
<1>8. BusInv'
  BY <1>1, RunBus
<1>9. CsrInv'
  BY <1>1, RunCsr
<1>10. PathInv'
  BY <1>1, RunPath
<1>11. HaltInv'
  BY <1>1 DEF RunStep, Run, Halting, HaltInv
<1>12. (workload \in DOMAIN Workloads)'
  BY DEF BInv
<1> QED BY <1>2, <1>3, <1>4, <1>5, <1>6, <1>7, <1>8, <1>9, <1>10, <1>11, <1>12 DEF BInv

\* It satisfies every conjunct of the invariant.
LEMMA DrainedInv == Drained /\ SbInv /\ workload \in DOMAIN Workloads => BInv
<1> SUFFICES ASSUME Drained, SbInv, workload \in DOMAIN Workloads PROVE BInv
  OBVIOUS
<1>1. \A i \in Entries : mem[i].issued = FALSE
  BY DEF Drained, FreeEntry
<1>2. ex_q.op = "none" /\ ~mispredict
  BY DEF Drained, NoOp, mispredict
<1>3. issue_q.wrong = FALSE /\ wrong_path = FALSE
  BY DEF Drained, NoFetch
<1>4. FetchInv /\ HaltInv
  BY DEF Drained, FetchInv, HaltInv
<1>5. SlotInv
  BY <1>1 DEF SlotInv
<1>6. ~LoadDue
  BY DEF Drained, LoadDue
<1>7. UnitInv
  BY <1>6 DEF Drained, UnitInv
<1>8. ApartInv
  BY <1>2, <1>6 DEF ApartInv
<1>9. CoverInv
  BY <1>1 DEF CoverInv, Pending
<1>10. BusInv
  BY <1>2 DEF BusInv, Drained
<1>11. CsrInv
  BY <1>1 DEF CsrInv, CsrSlots
<1>12. PathInv
  BY <1>3 DEF PathInv
<1> QED BY <1>4, <1>5, <1>7, <1>8, <1>9, <1>10, <1>11, <1>12 DEF BInv

\* Reset.
LEMMA InitInv == Init => BInv
<1> SUFFICES ASSUME Init PROVE BInv
  OBVIOUS
<1>1. SbInv
  BY ResetInv DEF Init, SbInit
<1>2. Drained
  BY NoWbFacts DEF Init, SbInit, Drained
<1> QED BY <1>1, <1>2, DrainedInv DEF Init

\* A load that returns in the cycle of a flush is late.
LEMMA LateLoadFacts ==
  ASSUME UnitInv, NEW ld_ret \in LoadReturns
  PROVE  /\ LateLoad(ld_ret) \in WriteBack
         /\ LateLoad(ld_ret).valid => LateLoad(ld_ret).result # "ok"
<1>1. /\ ld_ret \in WriteBack
      /\ ld_ret = NoWriteBack \/ ld_ret.valid = TRUE
  <2>1. NoWriteBack \in StoreReturns /\ NoWriteBack \in FpuReturns
    BY SMT DEF StoreReturns, FpuReturns, Returns
  <2> QED BY <2>1, Returned
<1>2. CASE ld_ret = NoWriteBack
  BY <1>2, NoWbFacts DEF LateLoad
<1>3. CASE ld_ret # NoWriteBack
  <2>1. LateLoad(ld_ret) = [ld_ret EXCEPT !.result = "bad"]
    BY <1>1, <1>3 DEF LateLoad
  <2>2. ld_ret \in [valid : {TRUE}, id : Entries, result : Value, ex : BOOLEAN]
    BY <1>1, <1>3 DEF WriteBack
  <2>3. LateLoad(ld_ret) \in [valid : {TRUE}, id : Entries, result : Value, ex : BOOLEAN]
        /\ LateLoad(ld_ret).result = "bad"
    BY <2>1, <2>2, DecoderAssumption
  <2> QED BY <2>3 DEF WriteBack
<1> QED BY <1>2, <1>3

\* A flush empties the pipeline.
LEMMA FlushInv ==
  ASSUME BInv, FlushCycle, UNCHANGED workload
  PROVE  BInv'
<1>1. PICK c \in CommitOutcomes, ld_ret \in LoadReturns :
        /\ Flush /\ IdFlush
        /\ ex_q' = NoOp /\ mul_q' = NoId
        /\ div' = [state |-> "IDLE", id |-> NoId]
        /\ LsuFlush /\ fpu_out' = {}
        /\ ld_pipe' = LateLoad(ld_ret)
        /\ fence_active' = c.fence /\ flush_dcache' = c.fence
  BY DEF FlushCycle
<1>2. LateLoad(ld_ret) \in WriteBack
      /\ (LateLoad(ld_ret).valid => LateLoad(ld_ret).result # "ok")
  BY LateLoadFacts DEF BInv
<1>3. Drained'
  BY <1>1, <1>2 DEF Drained, Flush, IdFlush, LsuFlush
<1>4. SbInv'
  BY <1>1, SbInvInductive DEF BInv, SbNext
<1>5. (workload \in DOMAIN Workloads)'
  BY DEF BInv
<1> QED BY <1>3, <1>4, <1>5, DrainedInv, PTL

\* The invariant is inductive.
LEMMA BInvInductive == BInv /\ [Next]_vars => BInv'
<1> SUFFICES ASSUME BInv, [Next]_vars PROVE BInv'
  OBVIOUS
<1>1. CASE RunCycle /\ UNCHANGED workload
  BY <1>1, RunInv
<1>2. CASE FlushCycle /\ UNCHANGED workload
  BY <1>2, FlushInv
<1>3. CASE UNCHANGED vars
  <2>1. /\ UNCHANGED <<mem, issue_cnt, issue_pointer, commit_pointer>>
        /\ UNCHANGED <<workload, issue_q, wrong_path>>
        /\ UNCHANGED <<ex_q, mul_q, div, csr_reg, lsu_out, ld_pipe, fpu_out>>
        /\ UNCHANGED <<fence_active, flush_dcache>>
    BY <1>3 DEF vars, sbVars, unitVars, ctrlVars
  <2>2. SbInv'
    BY <2>1, SbInvInductive DEF BInv, sbVars
  <2>3. FetchInv' /\ SlotInv' /\ HaltInv' /\ PathInv'
    BY <2>1 DEF BInv, FetchInv, SlotInv, HaltInv, PathInv, mispredict
  <2>4. UnitInv' /\ ApartInv' /\ CoverInv' /\ BusInv'
    BY <2>1 DEF BInv, UnitInv, ApartInv, CoverInv, BusInv, Works, LoadDue, LoadLate, Pending
  <2>5. CsrInv'
    BY <2>1 DEF BInv, CsrInv, CsrSlots, FenceAtHead, head, commit_instr
  <2> QED BY <2>1, <2>2, <2>3, <2>4, <2>5 DEF BInv
<1> QED BY <1>1, <1>2, <1>3 DEF Next

\* The back end keeps BInv.
THEOREM BackendSafe == Spec => []BInv
<1>1. Init => BInv
  BY InitInv
<1>2. BInv /\ [Next]_vars => BInv'
  BY BInvInductive
<1> QED BY <1>1, <1>2, PTL DEF Spec
=============================================================================
