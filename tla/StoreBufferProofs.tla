------------------------- MODULE StoreBufferProofs -------------------------
(***************************************************************************)
(* The store buffer's invariants for rings of every size, when the core is *)
(* not single stepped (then a commit can meet a flush, and they fail).     *)
(* The invariant StInv is inductive.  Both rings are instances of one fact *)
(* about a ring that is pushed to when not full and popped when not empty  *)
(* (RingStep).  NoOverflow says why the speculative ring is not full when  *)
(* it is pushed to, and SpecRing why what is committed is a store.         *)
(* StoreBufferQueue is the refinement of the abstract store queue.         *)
(***************************************************************************)
EXTENDS StoreBuffer, SequenceTheorems, TLAPS

\* Reducing a number below 2N modulo N subtracts N at most once.
LEMMA Wrap ==
  ASSUME NEW N \in Nat, N > 0, NEW x \in Nat, x < 2 * N
  PROVE  x % N = IF x < N THEN x ELSE x - N
<1>1. CASE x < N
  BY <1>1
<1>2. CASE x >= N
  <2> DEFINE q == x \div N
             r == x % N
  <2>1. q \in Int /\ r \in 0 .. N - 1 /\ x = N * q + r
    OBVIOUS
  <2>2. q = 1
    <3> HIDE DEF q, r
    <3>1. CASE q <= 0
      <4>1. N * q <= 0
        BY <2>1, <3>1
      <4> QED BY <1>2, <2>1, <4>1
    <3>2. CASE q >= 2
      <4>1. N * q >= N * 2
        BY <2>1, <3>2
      <4> QED BY <2>1, <4>1
    <3> QED BY <2>1, <3>1, <3>2
  <2> QED BY <1>2, <2>1, <2>2
<1> QED BY <1>1, <1>2

\* In an empty ring no slot is between the pointers.
LEMMA RingEmpty ==
  ASSUME NEW N \in Nat, NEW a \in 0 .. N - 1, NEW i \in 0 .. N - 1
  PROVE  /\ Behind(a, i, N) \in 0 .. N - 1
         /\ Behind(a, a, N) = 0
         /\ (a + 0) % N = a
BY DEF Behind

\* One clock edge on a ring of N slots with cnt of them taken from slot rp on:
\* it pushes inc and pops dec elements.
RingEdge(N, rp, wp, cnt, inc, dec, rp2, wp2, cnt2) ==
  /\ N \in Nat /\ N > 1
  /\ rp \in 0 .. N - 1 /\ wp \in 0 .. N - 1 /\ cnt \in 0 .. N
  /\ wp = (rp + cnt) % N
  /\ inc \in {0, 1} /\ (inc = 1 => cnt < N)
  /\ dec \in {0, 1} /\ (dec = 1 => cnt > 0)
  /\ rp2 = (rp + dec) % N
  /\ wp2 = (wp + inc) % N
  /\ cnt2 = (cnt + inc - dec) % (2 * N)

\* It is a ring afterwards, and these slots are taken.
RingAfter(N, rp, wp, cnt, inc, dec, rp2, wp2, cnt2) ==
  /\ rp2 \in 0 .. N - 1 /\ wp2 \in 0 .. N - 1 /\ cnt2 \in 0 .. N
  /\ cnt2 = cnt + inc - dec
  /\ wp2 = (rp2 + cnt2) % N
  /\ inc = 1 /\ dec = 1 => rp # wp
  /\ \A i \in 0 .. N - 1 :
        Behind(rp2, i, N) < cnt2
          <=> \/ inc = 1 /\ i = wp
              \/ Behind(rp, i, N) < cnt /\ ~(dec = 1 /\ i = rp)

\* A ring that is pushed to when not full and popped when not empty stays one.
LEMMA RingStep ==
  ASSUME NEW N, NEW rp, NEW wp, NEW cnt, NEW inc, NEW dec,
         NEW rp2, NEW wp2, NEW cnt2,
         RingEdge(N, rp, wp, cnt, inc, dec, rp2, wp2, cnt2)
  PROVE  RingAfter(N, rp, wp, cnt, inc, dec, rp2, wp2, cnt2)
<1> USE DEF RingEdge
<1>1. wp = IF rp + cnt < N THEN rp + cnt ELSE rp + cnt - N
  BY Wrap
<1>2. rp2 = IF rp + dec < N THEN rp + dec ELSE rp + dec - N
  BY Wrap
<1>3. wp2 = IF wp + inc < N THEN wp + inc ELSE wp + inc - N
  BY Wrap
<1>4. cnt2 = cnt + inc - dec /\ cnt2 \in 0 .. N
  <2> DEFINE x == cnt + inc - dec
             M == 2 * N
  <2>1. x \in 0 .. N /\ x \in Nat /\ M \in Nat /\ M > 0 /\ x < M
    OBVIOUS
  <2>2. cnt2 = x % M
    OBVIOUS
  <2> HIDE DEF x, M
  <2>3. x % M = x
    BY <2>1
  <2> QED BY <2>1, <2>2, <2>3 DEF x
<1>5. rp2 \in 0 .. N - 1 /\ wp2 \in 0 .. N - 1
  BY <1>2, <1>3
<1>6. wp2 = (rp2 + cnt2) % N
  <2>1. (rp2 + cnt2) % N = IF rp2 + cnt2 < N THEN rp2 + cnt2 ELSE rp2 + cnt2 - N
    BY <1>4, <1>5, Wrap
  <2> QED BY <1>1, <1>2, <1>3, <1>4, <1>5, <2>1
<1>7. inc = 1 /\ dec = 1 => rp # wp
  BY <1>1
<1>8. ASSUME NEW i \in 0 .. N - 1
      PROVE  Behind(rp2, i, N) < cnt2
               <=> \/ inc = 1 /\ i = wp
                   \/ Behind(rp, i, N) < cnt /\ ~(dec = 1 /\ i = rp)
  <2>1. CASE dec = 1
    BY <1>1, <1>2, <1>4, <2>1 DEF Behind
  <2>2. CASE dec = 0
    BY <1>1, <1>2, <1>4, <2>2 DEF Behind
  <2> QED BY <2>1, <2>2
<1> QED BY <1>4, <1>5, <1>6, <1>7, <1>8 DEF RingAfter

-----------------------------------------------------------------------------

\* The constants, as the arithmetic needs them.
LEMMA Depths ==
  /\ DEPTH_SPEC \in Nat /\ DEPTH_SPEC > 1
  /\ DEPTH_COMMIT \in Nat /\ DEPTH_COMMIT > 1
  /\ SpecSlots = 0 .. DEPTH_SPEC - 1 /\ CommitSlots = 0 .. DEPTH_COMMIT - 1
BY StoreBufferAssumption DEF SpecSlots, CommitSlots

\* Both rings are empty after reset.
LEMMA InitInv == StInit => StInv
<1> SUFFICES ASSUME StInit PROVE StInv
  OBVIOUS
<1>1. 0 \in SpecSlots /\ 0 \in CommitSlots
  BY Depths
<1>2. StTypeOK
  BY <1>1, Depths DEF StInit, StTypeOK
<1>3. SpecRing
  <2>1. /\ \A i \in SpecSlots : ~(Behind(0, i, DEPTH_SPEC) < 0)
        /\ (0 + 0) % DEPTH_SPEC = 0
    BY Depths DEF Behind
  <2> QED BY <2>1 DEF StInit, SpecRing
<1>4. CommitRing
  <2>1. /\ \A i \in CommitSlots : ~(Behind(0, i, DEPTH_COMMIT) < 0)
        /\ (0 + 0) % DEPTH_COMMIT = 0
    BY Depths DEF Behind
  <2> QED BY <2>1 DEF StInit, CommitRing
<1>5. NoOverflow
  BY DEF StInit, NoOverflow
<1> QED BY <1>2, <1>3, <1>4, <1>5 DEF StInv

\* A clock edge without a flush keeps the speculative ring.
LEMMA SpecAdvance ==
  ASSUME StInv, NEW valid \in BOOLEAN, valid = (pending # NoStore),
         NEW commit \in BOOLEAN, commit => speculative_status_cnt > 0,
         core_if(valid, commit, FALSE)
  PROVE  /\ speculative_queue' \in [SpecSlots -> Store \cup {NoStore}]
         /\ speculative_read_pointer' \in SpecSlots
         /\ speculative_write_pointer' \in SpecSlots
         /\ speculative_status_cnt' \in 0 .. DEPTH_SPEC
         /\ speculative_status_cnt'
              = speculative_status_cnt + One(valid) - One(commit)
         /\ SpecRing'
<1> DEFINE N == DEPTH_SPEC
           rp == speculative_read_pointer
           wp == speculative_write_pointer
           cnt == speculative_status_cnt
           Q == speculative_queue
<1>1. /\ N \in Nat /\ N > 1 /\ SpecSlots = 0 .. N - 1
      /\ rp \in 0 .. N - 1 /\ wp \in 0 .. N - 1 /\ cnt \in 0 .. N
      /\ Q \in [SpecSlots -> Store \cup {NoStore}]
      /\ pending \in Store \cup {NoStore}
      /\ wp = (rp + cnt) % N
      /\ \A i \in SpecSlots : Q[i] # NoStore <=> Behind(rp, i, N) < cnt
  BY Depths DEF StInv, StTypeOK, SpecRing
<1>2. (valid => cnt < N) /\ (commit => cnt > 0)
  BY DEF StInv, NoOverflow
<1>3. /\ rp' = (rp + One(commit)) % N
      /\ wp' = (wp + One(valid)) % N
      /\ cnt' = (cnt + One(valid) - One(commit)) % (2 * N)
      /\ Q' = [i \in SpecSlots |-> IF commit /\ i = rp THEN NoStore
                                   ELSE IF valid /\ i = wp THEN pending
                                   ELSE Q[i]]
  BY DEF core_if
<1> DEFINE inc == One(valid)
           dec == One(commit)
<1>9. /\ inc \in {0, 1} /\ (inc = 1 <=> valid)
      /\ dec \in {0, 1} /\ (dec = 1 <=> commit)
  BY DEF One
<1> HIDE DEF N, rp, wp, cnt, Q
<1>4. /\ rp' \in 0 .. N - 1 /\ wp' \in 0 .. N - 1 /\ cnt' \in 0 .. N
      /\ cnt' = cnt + One(valid) - One(commit)
      /\ wp' = (rp' + cnt') % N
      /\ valid /\ commit => rp # wp
      /\ \A i \in 0 .. N - 1 :
            Behind(rp', i, N) < cnt'
              <=> \/ valid /\ i = wp
                  \/ Behind(rp, i, N) < cnt /\ ~(commit /\ i = rp)
  <2>1. /\ rp' = (rp + dec) % N
        /\ wp' = (wp + inc) % N
        /\ cnt' = (cnt + inc - dec) % (2 * N)
    BY <1>3
  <2> HIDE DEF inc, dec
  <2>2. RingEdge(N, rp, wp, cnt, inc, dec, rp', wp', cnt')
    BY <1>1, <1>2, <1>9, <2>1 DEF RingEdge
  <2>3. RingAfter(N, rp, wp, cnt, inc, dec, rp', wp', cnt')
    BY <2>2, RingStep
  <2> QED BY <1>9, <2>3 DEF RingAfter, inc, dec
<1>5. \A i \in SpecSlots : Q'[i] # NoStore <=> Behind(rp', i, N) < cnt'
  <2> SUFFICES ASSUME NEW i \in SpecSlots
               PROVE  Q'[i] # NoStore <=> Behind(rp', i, N) < cnt'
    OBVIOUS
  <2>1. Q'[i] # NoStore <=> \/ valid /\ i = wp
                            \/ Behind(rp, i, N) < cnt /\ ~(commit /\ i = rp)
    <3>1. CASE commit /\ i = rp
      BY <1>3, <1>4, <3>1
    <3>2. CASE ~(commit /\ i = rp) /\ valid /\ i = wp
      BY <1>3, <3>2
    <3>3. CASE ~(commit /\ i = rp) /\ ~(valid /\ i = wp)
      BY <1>1, <1>3, <3>3
    <3> QED BY <3>1, <3>2, <3>3
  <2> QED BY <1>1, <1>4, <2>1
<1>6. Q' \in [SpecSlots -> Store \cup {NoStore}]
  BY <1>1, <1>3
<1> QED BY <1>1, <1>4, <1>5, <1>6 DEF SpecRing, N, rp, wp, cnt, Q

\* A flush without a commit empties the speculative ring.
LEMMA SpecFlush ==
  ASSUME StInv, core_if(FALSE, FALSE, TRUE)
  PROVE  /\ speculative_queue' \in [SpecSlots -> Store \cup {NoStore}]
         /\ speculative_read_pointer' \in SpecSlots
         /\ speculative_write_pointer' \in SpecSlots
         /\ speculative_status_cnt' = 0
         /\ SpecRing'
<1>1. speculative_read_pointer \in SpecSlots
  BY DEF StInv, StTypeOK
<1>2. /\ speculative_read_pointer' = speculative_read_pointer
      /\ speculative_write_pointer' = speculative_read_pointer
      /\ speculative_status_cnt' = 0
      /\ speculative_queue' = [i \in SpecSlots |-> NoStore]
  BY <1>1, Depths, RingEmpty DEF core_if, One
<1>3. /\ \A i \in SpecSlots : ~(Behind(speculative_read_pointer, i, DEPTH_SPEC) < 0)
      /\ (speculative_read_pointer + 0) % DEPTH_SPEC = speculative_read_pointer
  BY <1>1, Depths DEF Behind
<1> QED BY <1>1, <1>2, <1>3 DEF SpecRing

\* A clock edge keeps the commit ring: what is committed is a store.
LEMMA CommitAdvance ==
  ASSUME StInv, NEW gnt \in BOOLEAN, NEW commit \in BOOLEAN,
         commit => speculative_status_cnt > 0 /\ commit_ready,
         store_if(commit, gnt)
  PROVE  /\ commit_queue' \in [CommitSlots -> Store \cup {NoStore}]
         /\ commit_read_pointer' \in CommitSlots
         /\ commit_write_pointer' \in CommitSlots
         /\ commit_status_cnt' \in 0 .. DEPTH_COMMIT
         /\ CommitRing'
<1> DEFINE N == DEPTH_COMMIT
           rp == commit_read_pointer
           wp == commit_write_pointer
           cnt == commit_status_cnt
           Q == commit_queue
           drain == data_req /\ gnt
           new == speculative_queue[speculative_read_pointer]
<1>1. /\ N \in Nat /\ N > 1 /\ CommitSlots = 0 .. N - 1
      /\ rp \in 0 .. N - 1 /\ wp \in 0 .. N - 1 /\ cnt \in 0 .. N
      /\ Q \in [CommitSlots -> Store \cup {NoStore}]
      /\ wp = (rp + cnt) % N
      /\ \A i \in CommitSlots : Q[i] # NoStore <=> Behind(rp, i, N) < cnt
  BY Depths DEF StInv, StTypeOK, CommitRing
<1>2. (commit => cnt < N) /\ drain \in BOOLEAN
  BY DEF commit_ready, data_req
<1>3. drain => cnt > 0
  <2>1. Behind(rp, rp, N) = 0
    BY <1>1, RingEmpty
  <2> QED BY <1>1, <2>1 DEF data_req
<1>4. new \in Store \cup {NoStore} /\ (commit => new # NoStore)
  <2>1. /\ speculative_read_pointer \in SpecSlots
        /\ speculative_queue \in [SpecSlots -> Store \cup {NoStore}]
        /\ new # NoStore <=> Behind(speculative_read_pointer,
                                    speculative_read_pointer, DEPTH_SPEC)
                               < speculative_status_cnt
    BY DEF StInv, StTypeOK, SpecRing
  <2>2. Behind(speculative_read_pointer, speculative_read_pointer, DEPTH_SPEC) = 0
    BY <2>1, Depths, RingEmpty
  <2> QED BY <2>1, <2>2
<1>5. /\ rp' = (rp + One(drain)) % N
      /\ wp' = (wp + One(commit)) % N
      /\ cnt' = (cnt + One(commit) - One(drain)) % (2 * N)
      /\ Q' = [i \in CommitSlots |-> IF commit /\ i = wp THEN new
                                     ELSE IF drain /\ i = rp THEN NoStore
                                     ELSE Q[i]]
  BY DEF store_if
<1> DEFINE inc == One(commit)
           dec == One(drain)
<1>9. /\ inc \in {0, 1} /\ (inc = 1 <=> commit)
      /\ dec \in {0, 1} /\ (dec = 1 <=> drain)
  BY <1>2 DEF One
<1> HIDE DEF N, rp, wp, cnt, Q, drain, new
<1>6. /\ rp' \in 0 .. N - 1 /\ wp' \in 0 .. N - 1 /\ cnt' \in 0 .. N
      /\ wp' = (rp' + cnt') % N
      /\ commit /\ drain => rp # wp
      /\ \A i \in 0 .. N - 1 :
            Behind(rp', i, N) < cnt'
              <=> \/ commit /\ i = wp
                  \/ Behind(rp, i, N) < cnt /\ ~(drain /\ i = rp)
  <2>1. /\ rp' = (rp + dec) % N
        /\ wp' = (wp + inc) % N
        /\ cnt' = (cnt + inc - dec) % (2 * N)
    BY <1>5
  <2> HIDE DEF inc, dec
  <2>2. RingEdge(N, rp, wp, cnt, inc, dec, rp', wp', cnt')
    BY <1>1, <1>2, <1>3, <1>9, <2>1 DEF RingEdge
  <2>3. RingAfter(N, rp, wp, cnt, inc, dec, rp', wp', cnt')
    BY <2>2, RingStep
  <2> QED BY <1>9, <2>3 DEF RingAfter
<1>7. \A i \in CommitSlots : Q'[i] # NoStore <=> Behind(rp', i, N) < cnt'
  <2> SUFFICES ASSUME NEW i \in CommitSlots
               PROVE  Q'[i] # NoStore <=> Behind(rp', i, N) < cnt'
    OBVIOUS
  <2>1. Q'[i] # NoStore <=> \/ commit /\ i = wp
                            \/ Behind(rp, i, N) < cnt /\ ~(drain /\ i = rp)
    BY <1>1, <1>4, <1>5
  <2> QED BY <1>1, <1>6, <2>1
<1>8. Q' \in [CommitSlots -> Store \cup {NoStore}]
  BY <1>1, <1>4, <1>5
<1> QED BY <1>1, <1>6, <1>7, <1>8 DEF CommitRing, N, rp, wp, cnt, Q

\* Without single stepping a commit never meets a flush, and every clock edge
\* keeps the invariant.
LEMMA StepInv ==
  ASSUME STEP = FALSE, StInv, [StNext]_stVars
  PROVE  StInv'
<1>1. CASE UNCHANGED stVars
  BY <1>1 DEF StInv, StTypeOK, SpecRing, CommitRing, NoOverflow,
              stVars, specVars, commitVars
<1>2. CASE StNext
  <2>1. PICK st \in Store \cup {NoStore}, commit \in BOOLEAN,
             flush \in BOOLEAN, gnt \in BOOLEAN :
               /\ st # NoStore => ready(commit)
               /\ commit => speculative_status_cnt > 0 /\ commit_ready
               /\ commit /\ flush => STEP
               /\ StCycle(st, commit, flush, gnt)
    BY <1>2 DEF StNext
  <2>2. /\ core_if(pending # NoStore /\ ~flush, commit, flush)
        /\ store_if(commit, gnt)
        /\ pending' = IF flush THEN NoStore ELSE st
    BY <2>1 DEF StCycle
  <2>3. /\ commit_queue' \in [CommitSlots -> Store \cup {NoStore}]
        /\ commit_read_pointer' \in CommitSlots
        /\ commit_write_pointer' \in CommitSlots
        /\ commit_status_cnt' \in 0 .. DEPTH_COMMIT
        /\ CommitRing'
    BY <2>1, <2>2, CommitAdvance
  <2>4. CASE flush
    <3>1. ~commit
      BY <2>1, <2>4
    <3>2. core_if(FALSE, FALSE, TRUE)
      BY <2>2, <2>4, <3>1 DEF core_if
    <3>3. /\ speculative_queue' \in [SpecSlots -> Store \cup {NoStore}]
          /\ speculative_read_pointer' \in SpecSlots
          /\ speculative_write_pointer' \in SpecSlots
          /\ speculative_status_cnt' = 0
          /\ SpecRing'
      BY <3>2, SpecFlush
    <3>4. pending' = NoStore
      BY <2>2, <2>4
    <3>5. StTypeOK'
      BY <2>3, <3>3, <3>4, Depths DEF StTypeOK
    <3>6. NoOverflow'
      BY <3>4 DEF NoOverflow
    <3> QED BY <2>3, <3>3, <3>5, <3>6 DEF StInv
  <2>5. CASE ~flush
    <3> DEFINE valid == pending # NoStore
    <3>1. valid \in BOOLEAN
      OBVIOUS
    <3>2. core_if(valid, commit, FALSE)
      BY <2>2, <2>5 DEF core_if
    <3>3. /\ speculative_queue' \in [SpecSlots -> Store \cup {NoStore}]
          /\ speculative_read_pointer' \in SpecSlots
          /\ speculative_write_pointer' \in SpecSlots
          /\ speculative_status_cnt' \in 0 .. DEPTH_SPEC
          /\ speculative_status_cnt'
               = speculative_status_cnt + One(valid) - One(commit)
          /\ SpecRing'
      BY <2>1, <3>1, <3>2, SpecAdvance
    <3>4. pending' = st
      BY <2>2, <2>5
    <3>5. StTypeOK'
      BY <2>3, <3>3, <3>4 DEF StTypeOK
    <3>6. NoOverflow'
      <4>1. /\ speculative_status_cnt \in 0 .. DEPTH_SPEC
            /\ valid => speculative_status_cnt < DEPTH_SPEC
        BY DEF StInv, StTypeOK, NoOverflow
      <4>2. CASE st = NoStore
        BY <3>4, <4>2 DEF NoOverflow
      <4>3. CASE commit
        BY <3>3, <4>1, <4>3, Depths DEF NoOverflow, One
      <4>4. CASE st # NoStore /\ ~commit
        BY <2>1, <3>3, <4>1, <4>4, Depths DEF NoOverflow, One, ready
      <4> QED BY <4>2, <4>3, <4>4
    <3> QED BY <2>3, <3>3, <3>5, <3>6 DEF StInv
  <2> QED BY <2>4, <2>5
<1> QED BY <1>1, <1>2

-----------------------------------------------------------------------------

\* The store buffer of store_buffer.sv keeps its registers in range, both
\* rings hold exactly the stores between their pointers, and the speculative
\* ring is never pushed to when it is full, as long as no commit meets a flush.
THEOREM StoreBufferSafe ==
  ASSUME STEP = FALSE
  PROVE  StSpec => []StInv
BY InitInv, StepInv, PTL DEF StSpec

\* core_if of store_buffer.sv neither overwrites, loses nor keeps a
\* speculative store, also when a flush meets one that is entering the ring.
THEOREM SpeculativeRing ==
  ASSUME STEP = FALSE
  PROVE  StSpec => []SpecRing
<1>1. StInv => SpecRing
  BY DEF StInv
<1> QED BY <1>1, StoreBufferSafe, PTL

\* store_if of store_buffer.sv neither overwrites nor loses a committed store.
THEOREM CommittedRing ==
  ASSUME STEP = FALSE
  PROVE  StSpec => []CommitRing
<1>1. StInv => CommitRing
  BY DEF StInv
<1> QED BY <1>1, StoreBufferSafe, PTL

\* The ready margin of store_buffer.sv covers the store in flight: its
\* assertion speculative_buffer_overflow holds in rings of every size.
THEOREM NeverOverflows ==
  ASSUME STEP = FALSE
  PROVE  StSpec => []NoOverflow
<1>1. StInv => NoOverflow
  BY DEF StInv
<1> QED BY <1>1, StoreBufferSafe, PTL

\* While the commit queue counts a store, store_if requests the cache: what a
\* fence waits for (no_st_pending) is being worked on.
THEOREM CommitQueueAlwaysRequests ==
  ASSUME STEP = FALSE
  PROVE  StSpec => []CommitQueueRequests
<1>1. StInv => CommitQueueRequests
  <2> SUFFICES ASSUME StInv, commit_status_cnt > 0 PROVE data_req
    BY DEF CommitQueueRequests
  <2>1. commit_read_pointer \in CommitSlots
    BY DEF StInv, StTypeOK
  <2>2. Behind(commit_read_pointer, commit_read_pointer, DEPTH_COMMIT) = 0
    BY <2>1, Depths, RingEmpty
  <2> QED BY <2>1, <2>2 DEF StInv, CommitRing, data_req
<1> QED BY <1>1, StoreBufferSafe, PTL

-----------------------------------------------------------------------------
(* The store buffer is a pair of queues.                                   *)

\* The k-th slot behind slot rp of a ring of N slots.
Slot(rp, k, N) == IF rp + k < N THEN rp + k ELSE rp + k - N

\* The stores of a ring of N slots, oldest first.
Ring(Q, rp, cnt, N) == [k \in 1 .. cnt |-> Q[Slot(rp, k - 1, N)]]

\* Such a ring, of elements of S.
IsRing(S, Q, rp, cnt, N) ==
  N \in Nat /\ Q \in [0 .. N - 1 -> S] /\ rp \in 0 .. N - 1 /\ cnt \in 0 .. N

\* Its length and its elements.
LEMMA RingFacts ==
  ASSUME NEW S, NEW Q, NEW rp, NEW cnt, NEW N, IsRing(S, Q, rp, cnt, N)
  PROVE  /\ Ring(Q, rp, cnt, N) \in Seq(S)
         /\ Len(Ring(Q, rp, cnt, N)) = cnt
         /\ \A k \in 1 .. cnt : Ring(Q, rp, cnt, N)[k] = Q[Slot(rp, k - 1, N)]
<1> USE DEF IsRing
<1>1. ASSUME NEW k \in 1 .. cnt PROVE Slot(rp, k - 1, N) \in 0 .. N - 1
  BY DEF Slot
<1>2. Ring(Q, rp, cnt, N) \in [1 .. cnt -> S]
  BY <1>1 DEF Ring
<1>3. Ring(Q, rp, cnt, N) \in Seq(S) /\ Len(Ring(Q, rp, cnt, N)) = cnt
  <2>1. ASSUME NEW f \in [1 .. cnt -> S] PROVE f \in Seq(S) /\ Len(f) = cnt
    BY <2>1
  <2> QED BY <1>2, <2>1
<1> QED BY <1>3 DEF Ring

\* R is A without its first d elements, at most one, followed by C.
Shifted(S, A, C, R, d) ==
  /\ A \in Seq(S) /\ C \in Seq(S) /\ R \in Seq(S)
  /\ d \in {0, 1} /\ d <= Len(A) /\ Len(R) = Len(A) - d + Len(C)
  /\ \A k \in 1 .. Len(A) - d : R[k] = A[k + d]
  /\ \A k \in 1 .. Len(C) : R[Len(A) - d + k] = C[k]

\* The same with the operators on sequences.
LEMMA ShiftAppend ==
  ASSUME NEW S, NEW A, NEW C, NEW R, NEW d, Shifted(S, A, C, R, d)
  PROVE  R = (IF d = 1 THEN Tail(A) ELSE A) \o C
<1> USE DEF Shifted
<1> DEFINE B == IF d = 1 THEN Tail(A) ELSE A
<1>1. B \in Seq(S) /\ Len(B) = Len(A) - d /\ \A k \in 1 .. Len(B) : B[k] = A[k + d]
  <2>1. CASE d = 1
    BY <2>1
  <2>2. CASE d = 0
    BY <2>2
  <2> QED BY <2>1, <2>2
<1> HIDE DEF B
<1>2. /\ B \o C \in Seq(S) /\ Len(B \o C) = Len(B) + Len(C)
      /\ \A k \in 1 .. Len(B) + Len(C) :
            (B \o C)[k] = IF k <= Len(B) THEN B[k] ELSE C[k - Len(B)]
  BY <1>1, ConcatProperties
<1>3. Len(A) \in Nat /\ Len(B) \in Nat /\ Len(C) \in Nat
  BY <1>1
<1>4. ASSUME NEW k \in 1 .. Len(R) PROVE R[k] = (B \o C)[k]
  <2>1. CASE k <= Len(B)
    BY <1>1, <1>2, <1>3, <2>1
  <2>2. CASE ~(k <= Len(B))
    <3>1. k - Len(B) \in 1 .. Len(C) /\ Len(A) - d + (k - Len(B)) = k
      BY <1>1, <1>3, <2>2
    <3>2. R[k] = C[k - Len(B)]
      BY <3>1
    <3> QED BY <1>1, <1>2, <1>3, <2>2, <3>2
  <2> QED BY <2>1, <2>2
<1>5. Len(R) = Len(B \o C)
  BY <1>1, <1>2
<1>6. R = B \o C
  BY <1>2, <1>4, <1>5, SeqEqual
<1> QED BY <1>6 DEF B

\* A clock edge writes x to the slot behind the newest one if inc = 1, releases
\* the oldest slot if dec = 1, and leaves the contents of the others alone.
ContentEdge(S, N, rp, cnt, inc, dec, Q, Q2, x) ==
  /\ N \in Nat /\ rp \in 0 .. N - 1 /\ cnt \in 0 .. N
  /\ inc \in {0, 1} /\ dec \in {0, 1} /\ (dec = 1 => cnt > 0)
  /\ cnt + inc - dec <= N
  /\ Q \in [0 .. N - 1 -> S] /\ Q2 \in [0 .. N - 1 -> S] /\ x \in S
  /\ inc = 1 => Q2[Slot(rp, cnt, N)] = x
  /\ \A i \in 0 .. N - 1 :
        Behind(rp, i, N) < cnt /\ ~(dec = 1 /\ i = rp) => Q2[i] = Q[i]

\* It appends x to the queue and takes its oldest element away.
QueueEdge(N, rp, cnt, inc, dec, Q, Q2, x) ==
  Ring(Q2, Slot(rp, dec, N), cnt + inc - dec, N)
    = (IF dec = 1 THEN Tail(Ring(Q, rp, cnt, N)) ELSE Ring(Q, rp, cnt, N))
        \o (IF inc = 1 THEN <<x>> ELSE <<>>)

\* The second follows from the first.
LEMMA RingQueue ==
  ASSUME NEW S, NEW N, NEW rp, NEW cnt, NEW inc, NEW dec, NEW Q, NEW Q2, NEW x,
         ContentEdge(S, N, rp, cnt, inc, dec, Q, Q2, x)
  PROVE  QueueEdge(N, rp, cnt, inc, dec, Q, Q2, x)
<1> USE DEF ContentEdge
<1> DEFINE A == Ring(Q, rp, cnt, N)
           C == IF inc = 1 THEN <<x>> ELSE <<>>
           rp2 == Slot(rp, dec, N)
           cnt2 == cnt + inc - dec
           R == Ring(Q2, rp2, cnt2, N)
<1>1. rp2 \in 0 .. N - 1 /\ cnt2 \in 0 .. N
  BY DEF Slot
<1>2. /\ A \in Seq(S) /\ Len(A) = cnt
      /\ \A k \in 1 .. cnt : A[k] = Q[Slot(rp, k - 1, N)]
  <2>1. IsRing(S, Q, rp, cnt, N)
    BY DEF IsRing
  <2> QED BY <2>1, RingFacts
<1>3. /\ R \in Seq(S) /\ Len(R) = cnt2
      /\ \A k \in 1 .. cnt2 : R[k] = Q2[Slot(rp2, k - 1, N)]
  <2> HIDE DEF rp2, cnt2
  <2>1. IsRing(S, Q2, rp2, cnt2, N)
    BY <1>1 DEF IsRing
  <2> QED BY <2>1, RingFacts
<1>4. C \in Seq(S) /\ Len(C) = inc /\ (inc = 1 => C[1] = x)
  OBVIOUS
<1> HIDE DEF A, R, C
<1>5. ASSUME NEW k \in 1 .. cnt - dec PROVE R[k] = A[k + dec]
  <2> DEFINE i == Slot(rp, k + dec - 1, N)
  <2>1. Slot(rp2, k - 1, N) = i
    BY DEF Slot
  <2>2. i \in 0 .. N - 1 /\ Behind(rp, i, N) = k + dec - 1 /\ (dec = 1 => i # rp)
    BY DEF Slot, Behind
  <2> HIDE DEF i
  <2>3. k \in 1 .. cnt2 /\ k + dec \in 1 .. cnt /\ k + dec - 1 < cnt
    OBVIOUS
  <2> HIDE DEF rp2, cnt2
  <2>4. Q2[i] = Q[i]
    BY <2>2, <2>3
  <2> QED BY <1>2, <1>3, <2>1, <2>3, <2>4 DEF i
<1>6. ASSUME inc = 1 PROVE R[cnt2] = x
  <2>1. Slot(rp2, cnt2 - 1, N) = Slot(rp, cnt, N)
    BY <1>6 DEF Slot
  <2>2. cnt2 \in 1 .. cnt2
    BY <1>6
  <2> HIDE DEF rp2, cnt2
  <2> QED BY <1>3, <1>6, <2>1, <2>2
<1>7. \A k \in 1 .. Len(C) : R[Len(A) - dec + k] = C[k]
  <2> SUFFICES ASSUME NEW k \in 1 .. Len(C) PROVE R[Len(A) - dec + k] = C[k]
    OBVIOUS
  <2>1. k = 1 /\ inc = 1 /\ Len(A) - dec + k = cnt2
    BY <1>2, <1>4
  <2> QED BY <1>4, <1>6, <2>1
<1>8. dec <= Len(A) /\ Len(R) = Len(A) - dec + Len(C)
  BY <1>2, <1>3, <1>4
<1>9. \A k \in 1 .. Len(A) - dec : R[k] = A[k + dec]
  BY <1>2, <1>5
<1>10. R = (IF dec = 1 THEN Tail(A) ELSE A) \o C
  <2>1. Shifted(S, A, C, R, dec)
    BY <1>2, <1>3, <1>4, <1>7, <1>8, <1>9 DEF Shifted
  <2> QED BY <2>1, ShiftAppend
<1> QED BY <1>10 DEF A, C, R, QueueEdge

\* The queue as the refinement mapping of StoreBuffer writes it.
LEMMA RingMap ==
  ASSUME NEW Q, NEW N \in Nat, N > 1, NEW rp \in 0 .. N - 1, NEW cnt \in 0 .. N
  PROVE  /\ [k \in 1 .. cnt |-> Q[(rp + k - 1) % N]] = Ring(Q, rp, cnt, N)
         /\ (rp + cnt) % N = Slot(rp, cnt, N)
<1>1. ASSUME NEW x \in 0 .. N PROVE (rp + x) % N = Slot(rp, x, N)
  BY Wrap DEF Slot
<1>2. ASSUME NEW k \in 1 .. cnt PROVE (rp + k - 1) % N = Slot(rp, k - 1, N)
  <2>1. k - 1 \in 0 .. N /\ rp + (k - 1) = rp + k - 1
    OBVIOUS
  <2> QED BY <1>1, <2>1
<1> QED BY <1>1, <1>2 DEF Ring

\* The two queues that the buffer holds.
SpecQueue == Ring(speculative_queue, speculative_read_pointer,
                  speculative_status_cnt, DEPTH_SPEC)
CommitQueue == Ring(commit_queue, commit_read_pointer,
                    commit_status_cnt, DEPTH_COMMIT)

\* Their lengths, and the oldest speculative store.
LEMMA QueueFacts ==
  ASSUME StInv
  PROVE  /\ SpecQueue \in Seq(Store \cup {NoStore})
         /\ Len(SpecQueue) = speculative_status_cnt
         /\ Len(CommitQueue) = commit_status_cnt
         /\ speculative_status_cnt > 0 =>
              Head(SpecQueue) = speculative_queue[speculative_read_pointer]
<1>1. /\ IsRing(Store \cup {NoStore}, speculative_queue, speculative_read_pointer,
                speculative_status_cnt, DEPTH_SPEC)
      /\ IsRing(Store \cup {NoStore}, commit_queue, commit_read_pointer,
                commit_status_cnt, DEPTH_COMMIT)
  BY Depths DEF StInv, StTypeOK, IsRing
<1>2. /\ SpecQueue \in Seq(Store \cup {NoStore})
      /\ Len(SpecQueue) = speculative_status_cnt
      /\ \A k \in 1 .. speculative_status_cnt :
            SpecQueue[k] =
              speculative_queue[Slot(speculative_read_pointer, k - 1, DEPTH_SPEC)]
  BY <1>1, RingFacts DEF SpecQueue
<1>3. Len(CommitQueue) = commit_status_cnt
  BY <1>1, RingFacts DEF CommitQueue
<1>4. ASSUME speculative_status_cnt > 0
      PROVE  Head(SpecQueue) = speculative_queue[speculative_read_pointer]
  <2>1. Slot(speculative_read_pointer, 1 - 1, DEPTH_SPEC) = speculative_read_pointer
        /\ 1 \in 1 .. speculative_status_cnt
    BY <1>1, <1>4 DEF IsRing, Slot
  <2>2. Head(SpecQueue) = SpecQueue[1]
    BY <1>2
  <2> QED BY <1>2, <2>1, <2>2
<1> QED BY <1>2, <1>3, <1>4

\* A clock edge without a flush on the queue of speculative stores.
LEMMA SpecQueueStep ==
  ASSUME StInv, NEW valid \in BOOLEAN, valid = (pending # NoStore),
         NEW commit \in BOOLEAN, commit => speculative_status_cnt > 0,
         core_if(valid, commit, FALSE)
  PROVE  SpecQueue' = (IF commit THEN Tail(SpecQueue) ELSE SpecQueue)
                        \o (IF valid THEN <<pending>> ELSE <<>>)
<1> DEFINE S == Store \cup {NoStore}
           N == DEPTH_SPEC
           rp == speculative_read_pointer
           cnt == speculative_status_cnt
           Q == speculative_queue
           inc == One(valid)
           dec == One(commit)
<1>1. /\ N \in Nat /\ N > 1 /\ SpecSlots = 0 .. N - 1
      /\ rp \in 0 .. N - 1 /\ cnt \in 0 .. N
      /\ Q \in [0 .. N - 1 -> S] /\ pending \in S
      /\ speculative_write_pointer = (rp + cnt) % N
      /\ valid => cnt < N
  BY Depths DEF StInv, StTypeOK, SpecRing, NoOverflow
<1>2. /\ cnt' \in 0 .. N /\ cnt' = cnt + inc - dec /\ Q' \in [0 .. N - 1 -> S]
  BY <1>1, SpecAdvance
<1>3. /\ inc \in {0, 1} /\ (inc = 1 <=> valid)
      /\ dec \in {0, 1} /\ (dec = 1 <=> commit)
  BY DEF One
<1>4. speculative_write_pointer = Slot(rp, cnt, N)
  BY <1>1, RingMap
<1>5. rp' = Slot(rp, dec, N)
  <2>1. rp' = (rp + dec) % N
    BY DEF core_if
  <2> HIDE DEF dec
  <2>2. dec \in 0 .. N
    BY <1>1, <1>3
  <2> QED BY <1>1, <2>1, <2>2, RingMap
<1>6. Q' = [i \in SpecSlots |-> IF commit /\ i = rp THEN NoStore
                                ELSE IF valid /\ i = Slot(rp, cnt, N) THEN pending
                                ELSE Q[i]]
  BY <1>4 DEF core_if
<1> HIDE DEF N, rp, cnt, Q, inc, dec, S
<1>7. Slot(rp, cnt, N) \in 0 .. N - 1 /\ (commit /\ valid => Slot(rp, cnt, N) # rp)
  <2>1. commit => cnt > 0
    BY DEF cnt
  <2> QED BY <1>1, <2>1 DEF Slot
<1>8. ASSUME NEW i \in 0 .. N - 1, Behind(rp, i, N) < cnt
      PROVE  ~(valid /\ i = Slot(rp, cnt, N))
  BY <1>1, <1>8 DEF Slot, Behind
<1>9. ContentEdge(S, N, rp, cnt, inc, dec, Q, Q', pending)
  <2>1. inc = 1 => Q'[Slot(rp, cnt, N)] = pending
    BY <1>1, <1>3, <1>6, <1>7
  <2>2. ASSUME NEW i \in 0 .. N - 1, Behind(rp, i, N) < cnt, ~(dec = 1 /\ i = rp)
        PROVE  Q'[i] = Q[i]
    BY <1>1, <1>3, <1>6, <1>8, <2>2
  <2>3. (dec = 1 => cnt > 0) /\ cnt + inc - dec <= N
    BY <1>1, <1>2, <1>3 DEF cnt
  <2> QED BY <1>1, <1>2, <1>3, <2>1, <2>2, <2>3 DEF ContentEdge
<1>10. QueueEdge(N, rp, cnt, inc, dec, Q, Q', pending)
  BY <1>9, RingQueue
<1>11. Ring(Q', rp', cnt', N)
         = (IF commit THEN Tail(Ring(Q, rp, cnt, N)) ELSE Ring(Q, rp, cnt, N))
               \o (IF valid THEN <<pending>> ELSE <<>>)
  BY ZenonT(60), <1>2, <1>3, <1>5, <1>10 DEF QueueEdge
<1> QED BY <1>11 DEF SpecQueue, N, rp, cnt, Q

\* A clock edge on the queue of committed stores.
LEMMA CommitQueueStep ==
  ASSUME StInv, NEW gnt \in BOOLEAN, NEW commit \in BOOLEAN,
         commit => speculative_status_cnt > 0 /\ commit_ready,
         store_if(commit, gnt)
  PROVE  /\ data_req /\ gnt => commit_status_cnt > 0
         /\ CommitQueue'
              = (IF data_req /\ gnt THEN Tail(CommitQueue) ELSE CommitQueue)
                  \o (IF commit
                      THEN <<speculative_queue[speculative_read_pointer]>>
                      ELSE <<>>)
<1> DEFINE S == Store \cup {NoStore}
           N == DEPTH_COMMIT
           rp == commit_read_pointer
           cnt == commit_status_cnt
           Q == commit_queue
           drain == data_req /\ gnt
           new == speculative_queue[speculative_read_pointer]
           inc == One(commit)
           dec == One(drain)
<1>1. /\ N \in Nat /\ N > 1 /\ CommitSlots = 0 .. N - 1
      /\ rp \in 0 .. N - 1 /\ cnt \in 0 .. N
      /\ Q \in [0 .. N - 1 -> S] /\ new \in S
      /\ commit_write_pointer = (rp + cnt) % N
      /\ \A i \in 0 .. N - 1 : Q[i] # NoStore <=> Behind(rp, i, N) < cnt
      /\ (commit => cnt < N) /\ drain \in BOOLEAN
  BY Depths DEF StInv, StTypeOK, CommitRing, commit_ready, data_req
<1>2. drain => cnt > 0
  <2>1. Behind(rp, rp, N) = 0
    BY <1>1, RingEmpty
  <2> QED BY <1>1, <2>1 DEF data_req
<1>3. /\ inc \in {0, 1} /\ (inc = 1 <=> commit)
      /\ dec \in {0, 1} /\ (dec = 1 <=> drain)
  BY <1>1 DEF One
<1>4. commit_write_pointer = Slot(rp, cnt, N)
  BY <1>1, RingMap
<1>5. cnt' \in 0 .. N /\ Q' \in [0 .. N - 1 -> S]
  BY <1>1, CommitAdvance
<1>6. /\ rp' = (rp + dec) % N
      /\ cnt' = (cnt + inc - dec) % (2 * N)
      /\ Q' = [i \in CommitSlots |-> IF commit /\ i = Slot(rp, cnt, N) THEN new
                                     ELSE IF drain /\ i = rp THEN NoStore
                                     ELSE Q[i]]
  BY <1>4 DEF store_if
<1> HIDE DEF N, rp, cnt, Q, inc, dec, S, drain, new
<1>7. rp' = Slot(rp, dec, N)
  <2>1. dec \in 0 .. N
    BY <1>1, <1>3
  <2> QED BY <1>1, <1>6, <2>1, RingMap
<1>8. cnt' = cnt + inc - dec
  <2> DEFINE x == cnt + inc - dec
             M == 2 * N
  <2>1. x \in Nat /\ M \in Nat /\ M > 0 /\ x < M
    BY <1>1, <1>2, <1>3
  <2>2. cnt' = x % M
    BY <1>6
  <2> HIDE DEF x, M
  <2>3. x % M = x
    BY <2>1
  <2> QED BY <2>2, <2>3 DEF x
<1>9. Slot(rp, cnt, N) \in 0 .. N - 1
  BY <1>1 DEF Slot
<1>10. ASSUME NEW i \in 0 .. N - 1, Behind(rp, i, N) < cnt
       PROVE  ~(commit /\ i = Slot(rp, cnt, N))
  BY <1>1, <1>10 DEF Slot, Behind
<1>11. ContentEdge(S, N, rp, cnt, inc, dec, Q, Q', new)
  <2>1. inc = 1 => Q'[Slot(rp, cnt, N)] = new
    BY <1>1, <1>3, <1>6, <1>9
  <2>2. ASSUME NEW i \in 0 .. N - 1, Behind(rp, i, N) < cnt, ~(dec = 1 /\ i = rp)
        PROVE  Q'[i] = Q[i]
    BY <1>1, <1>3, <1>6, <1>10, <2>2
  <2>3. (dec = 1 => cnt > 0) /\ cnt + inc - dec <= N
    BY <1>1, <1>2, <1>3, <1>5, <1>8
  <2> QED BY <1>1, <1>3, <1>5, <2>1, <2>2, <2>3 DEF ContentEdge
<1>12. QueueEdge(N, rp, cnt, inc, dec, Q, Q', new)
  BY <1>11, RingQueue
<1>13. Ring(Q', rp', cnt', N)
         = (IF drain THEN Tail(Ring(Q, rp, cnt, N)) ELSE Ring(Q, rp, cnt, N))
               \o (IF commit THEN <<new>> ELSE <<>>)
  BY <1>3, <1>7, <1>8, <1>12 DEF QueueEdge
<1> QED BY <1>2, <1>13 DEF CommitQueue, N, rp, cnt, Q, drain, new

\* The buffer of store_buffer.sv is two queues: a store that is committed is the
\* oldest speculative one and goes behind the committed ones, the cache gets the
\* oldest committed one, and a flush takes away the speculative ones only.
THEOREM StoreBufferQueue ==
  ASSUME STEP = FALSE
  PROVE  StSpec => ImplementsStoreQueue
<1> DEFINE QNext == \E enter \in {<<>>} \cup {<<s>> : s \in Store},
                       commit, drain, flush \in BOOLEAN :
              /\ commit => SpecQueue # <<>>
              /\ drain => CommitQueue # <<>>
              /\ SpecQueue' =
                   IF flush THEN <<>>
                   ELSE (IF commit THEN Tail(SpecQueue) ELSE SpecQueue) \o enter
              /\ CommitQueue' =
                   (IF drain THEN Tail(CommitQueue) ELSE CommitQueue)
                     \o (IF commit THEN <<Head(SpecQueue)>> ELSE <<>>)
<1>1. StInit => Queue!Init
  BY DEF StInit, Queue!Init
<1>2. ASSUME StInv, StInv', StNext PROVE QNext
  <2>1. PICK st \in Store \cup {NoStore}, commit \in BOOLEAN,
             flush \in BOOLEAN, gnt \in BOOLEAN :
               /\ st # NoStore => ready(commit)
               /\ commit => speculative_status_cnt > 0 /\ commit_ready
               /\ commit /\ flush => STEP
               /\ StCycle(st, commit, flush, gnt)
    BY <1>2 DEF StNext
  <2> DEFINE valid == pending # NoStore
             drain == data_req /\ gnt
             enter == IF valid THEN <<pending>> ELSE <<>>
             new == speculative_queue[speculative_read_pointer]
  <2>2. /\ core_if(valid /\ ~flush, commit, flush) /\ store_if(commit, gnt)
        /\ drain \in BOOLEAN /\ valid \in BOOLEAN
        /\ enter \in {<<>>} \cup {<<s>> : s \in Store}
    BY <1>2, <2>1 DEF StCycle, StInv, StTypeOK, data_req
  <2>3. /\ drain => commit_status_cnt > 0
        /\ CommitQueue' = (IF drain THEN Tail(CommitQueue) ELSE CommitQueue)
                            \o (IF commit THEN <<new>> ELSE <<>>)
    BY <1>2, <2>1, <2>2, CommitQueueStep
  <2>4. drain => CommitQueue # <<>>
    <3>1. Len(CommitQueue) = commit_status_cnt /\ Len(<<>>) = 0
      BY <1>2, QueueFacts
    <3> HIDE DEF drain
    <3> QED BY <2>3, <3>1
  <2>5. commit => SpecQueue # <<>> /\ Head(SpecQueue) = new
    BY <1>2, <2>1, QueueFacts
  <2>6. SpecQueue' = IF flush THEN <<>>
                     ELSE (IF commit THEN Tail(SpecQueue) ELSE SpecQueue) \o enter
    <3>1. CASE flush
      <4>1. speculative_status_cnt' = 0
        BY <2>2, <3>1 DEF core_if
      <4> QED BY <3>1, <4>1 DEF SpecQueue, Ring
    <3>2. CASE ~flush
      <4>1. core_if(valid, commit, FALSE)
        BY <2>2, <3>2 DEF core_if
      <4> QED BY <1>2, <2>1, <2>2, <3>2, <4>1, SpecQueueStep
    <3> QED BY <3>1, <3>2
  <2> HIDE DEF valid, drain, enter, new
  <2> QED BY <2>2, <2>3, <2>4, <2>5, <2>6
<1>3. ASSUME StInv, StInv', QNext PROVE Queue!Next
  <2>1. /\ [k \in 1 .. speculative_status_cnt |->
              speculative_queue[(speculative_read_pointer + k - 1) % DEPTH_SPEC]]
             = SpecQueue
        /\ [k \in 1 .. commit_status_cnt |->
              commit_queue[(commit_read_pointer + k - 1) % DEPTH_COMMIT]]
             = CommitQueue
    BY ZenonT(90), <1>3, RingMap, Depths DEF StInv, StTypeOK, SpecQueue, CommitQueue
  <2>2. /\ [k \in 1 .. speculative_status_cnt |->
              speculative_queue[(speculative_read_pointer + k - 1) % DEPTH_SPEC]]'
             = SpecQueue'
        /\ [k \in 1 .. commit_status_cnt |->
              commit_queue[(commit_read_pointer + k - 1) % DEPTH_COMMIT]]'
             = CommitQueue'
    BY ZenonT(90), <1>3, RingMap, Depths DEF StInv, StTypeOK, SpecQueue, CommitQueue
  <2>3. PICK enter \in {<<>>} \cup {<<s>> : s \in Store},
             commit, drain, flush \in BOOLEAN :
              /\ commit => SpecQueue # <<>>
              /\ drain => CommitQueue # <<>>
              /\ SpecQueue' =
                   IF flush THEN <<>>
                   ELSE (IF commit THEN Tail(SpecQueue) ELSE SpecQueue) \o enter
              /\ CommitQueue' =
                   (IF drain THEN Tail(CommitQueue) ELSE CommitQueue)
                     \o (IF commit THEN <<Head(SpecQueue)>> ELSE <<>>)
    BY <1>3
  <2>4. Queue!Step(enter, commit, drain, flush)
    BY <2>1, <2>2, <2>3 DEF Queue!Step
  <2> QED BY <2>4 DEF Queue!Next
<1>4. ASSUME UNCHANGED stVars
      PROVE  UNCHANGED
        <<[k \in 1 .. speculative_status_cnt |->
             speculative_queue[(speculative_read_pointer + k - 1) % DEPTH_SPEC]],
          [k \in 1 .. commit_status_cnt |->
             commit_queue[(commit_read_pointer + k - 1) % DEPTH_COMMIT]]>>
  BY <1>4 DEF stVars, specVars, commitVars
<1> HIDE DEF QNext
<1> QED BY <1>1, <1>2, <1>3, <1>4, StoreBufferSafe, PTL
    DEF StSpec, ImplementsStoreQueue, Queue!Spec
=============================================================================
