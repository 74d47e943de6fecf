---------------------------- MODULE StoreBuffer -----------------------------
(***************************************************************************)
(* The store buffer (src/store_buffer.sv): a ring of speculative stores    *)
(* followed by a ring of committed stores that are handed to the data      *)
(* cache.  One clock edge is one step.  An invalid slot holds NoStore: the *)
(* address, data and byte enables of a slot are looked at only if it is    *)
(* valid.                                                                  *)
(***************************************************************************)
EXTENDS Integers

CONSTANTS
  DEPTH_SPEC, DEPTH_COMMIT,  \* slots of the two rings, powers of two
  Store, NoStore,            \* stores, and an invalid slot
  STEP                       \* the debugger set dcsr.step

ASSUME StoreBufferAssumption ==
  /\ DEPTH_SPEC \in Nat /\ DEPTH_SPEC >= 2
  /\ DEPTH_COMMIT \in Nat /\ DEPTH_COMMIT >= 2
  /\ NoStore \notin Store
  /\ STEP \in BOOLEAN

VARIABLES
  speculative_queue, speculative_read_pointer, speculative_write_pointer,
  speculative_status_cnt,
  commit_queue, commit_read_pointer, commit_write_pointer, commit_status_cnt,
  pending  \* the store in state VALID_STORE of the store unit

specVars == <<speculative_queue, speculative_read_pointer,
              speculative_write_pointer, speculative_status_cnt>>
commitVars == <<commit_queue, commit_read_pointer, commit_write_pointer,
                commit_status_cnt>>
stVars == <<specVars, commitVars, pending>>

SpecSlots == 0 .. DEPTH_SPEC - 1
CommitSlots == 0 .. DEPTH_COMMIT - 1

StInit ==
  /\ speculative_queue = [i \in SpecSlots |-> NoStore]
  /\ speculative_read_pointer = 0
  /\ speculative_write_pointer = 0
  /\ speculative_status_cnt = 0
  /\ commit_queue = [i \in CommitSlots |-> NoStore]
  /\ commit_read_pointer = 0
  /\ commit_write_pointer = 0
  /\ commit_status_cnt = 0
  /\ pending = NoStore

-----------------------------------------------------------------------------
(* Outputs                                                                 *)

\* Fault: the margin for the store in flight is missing.
ready_NoMargin(commit) == speculative_status_cnt < DEPTH_SPEC \/ commit

\* A store accepted now enters the ring one cycle later, behind the one that
\* may be entering it now, hence the margin of one.
ready(commit) == speculative_status_cnt < DEPTH_SPEC - 1 \/ commit

commit_ready == commit_status_cnt < DEPTH_COMMIT

data_req == commit_queue[commit_read_pointer] # NoStore

-----------------------------------------------------------------------------
(* One clock edge                                                          *)

One(b) == IF b THEN 1 ELSE 0

\* Fault: a flush leaves the write pointer alone.
core_if_KeepPointer(valid, commit, flush) ==
  /\ speculative_queue' =
       [i \in SpecSlots |->
          IF flush \/ (commit /\ i = speculative_read_pointer) THEN NoStore
          ELSE IF valid /\ i = speculative_write_pointer THEN pending
          ELSE speculative_queue[i]]
  /\ speculative_read_pointer' =
       (speculative_read_pointer + One(commit)) % DEPTH_SPEC
  /\ speculative_write_pointer' =
       (speculative_write_pointer + One(valid)) % DEPTH_SPEC
  /\ speculative_status_cnt' =
       IF flush THEN 0
       ELSE (speculative_status_cnt + One(valid) - One(commit)) % (2 * DEPTH_SPEC)

\* The speculative ring: push, evict what is committed, and on a flush drop
\* everything by moving the write pointer back to the read pointer as it was
\* before this cycle.
core_if(valid, commit, flush) ==
  /\ speculative_queue' =
       [i \in SpecSlots |->
          IF flush \/ (commit /\ i = speculative_read_pointer) THEN NoStore
          ELSE IF valid /\ i = speculative_write_pointer THEN pending
          ELSE speculative_queue[i]]
  /\ speculative_read_pointer' =
       (speculative_read_pointer + One(commit)) % DEPTH_SPEC
  /\ speculative_write_pointer' =
       IF flush THEN speculative_read_pointer
       ELSE (speculative_write_pointer + One(valid)) % DEPTH_SPEC
  /\ speculative_status_cnt' =
       IF flush THEN 0
       ELSE (speculative_status_cnt + One(valid) - One(commit)) % (2 * DEPTH_SPEC)

\* The commit ring: hand the oldest store to the cache, evict it when it is
\* granted, and take over the store that is being committed.
store_if(commit, gnt) ==
  LET drain == data_req /\ gnt
  IN  /\ commit_queue' =
           [i \in CommitSlots |->
              IF commit /\ i = commit_write_pointer
              THEN speculative_queue[speculative_read_pointer]
              ELSE IF drain /\ i = commit_read_pointer THEN NoStore
              ELSE commit_queue[i]]
      /\ commit_read_pointer' = (commit_read_pointer + One(drain)) % DEPTH_COMMIT
      /\ commit_write_pointer' = (commit_write_pointer + One(commit)) % DEPTH_COMMIT
      /\ commit_status_cnt' =
           (commit_status_cnt + One(commit) - One(drain)) % (2 * DEPTH_COMMIT)

\* The store unit around it, for stores that hit the TLB and do not fault:
\* st is the store accepted in this cycle (NoStore if none), which pushes in
\* the next one unless the pipeline is flushed.
StCycle(st, commit, flush, gnt) ==
  /\ core_if(pending # NoStore /\ ~flush, commit, flush)
  /\ store_if(commit, gnt)
  /\ pending' = IF flush THEN NoStore ELSE st

\* The commit stage commits a store that has been written back, so one that
\* is in the speculative ring, when the commit ring has room.  It decides on
\* flushes too: with a store they come together only if the core is single
\* stepped, because then every instruction that retires outside of debug
\* mode flushes the pipeline (csr_regfile.sv, set_debug_pc_o).
StNext ==
  \E st \in Store \cup {NoStore}, commit, flush, gnt \in BOOLEAN :
     /\ st # NoStore => ready(commit)
     /\ commit => speculative_status_cnt > 0 /\ commit_ready
     /\ commit /\ flush => STEP
     /\ StCycle(st, commit, flush, gnt)

StSpec == StInit /\ [][StNext]_stVars

-----------------------------------------------------------------------------
(* Properties                                                              *)

\* The registers keep their types, and the counters never exceed the number
\* of slots although they have a bit more.
StTypeOK ==
  /\ speculative_queue \in [SpecSlots -> Store \cup {NoStore}]
  /\ speculative_read_pointer \in SpecSlots
  /\ speculative_write_pointer \in SpecSlots
  /\ speculative_status_cnt \in 0 .. DEPTH_SPEC
  /\ commit_queue \in [CommitSlots -> Store \cup {NoStore}]
  /\ commit_read_pointer \in CommitSlots
  /\ commit_write_pointer \in CommitSlots
  /\ commit_status_cnt \in 0 .. DEPTH_COMMIT
  /\ pending \in Store \cup {NoStore}

\* How far slot i is behind slot a in a ring of n slots.
Behind(a, i, n) == IF i >= a THEN i - a ELSE i - a + n

\* The valid slots of the speculative ring are the ones between its pointers
\* and the counter counts them, also across a flush that races with a store
\* entering the ring: no speculative store is overwritten, lost or kept.
SpecRing ==
  /\ \A i \in SpecSlots :
        speculative_queue[i] # NoStore
          <=> Behind(speculative_read_pointer, i, DEPTH_SPEC) < speculative_status_cnt
  /\ speculative_write_pointer =
        (speculative_read_pointer + speculative_status_cnt) % DEPTH_SPEC

\* The same for the commit ring.
CommitRing ==
  /\ \A i \in CommitSlots :
        commit_queue[i] # NoStore
          <=> Behind(commit_read_pointer, i, DEPTH_COMMIT) < commit_status_cnt
  /\ commit_write_pointer =
        (commit_read_pointer + commit_status_cnt) % DEPTH_COMMIT

\* The speculative ring is never pushed to when it is full: the ready margin
\* covers the store that is in flight (assertion speculative_buffer_overflow).
NoOverflow == pending # NoStore => speculative_status_cnt < DEPTH_SPEC

\* Whenever the commit queue counts a store it requests the cache for its
\* oldest one; otherwise no_st_pending stays low and every fence waits for ever.
CommitQueueRequests == commit_status_cnt > 0 => data_req

\* The inductive invariant.
StInv == StTypeOK /\ SpecRing /\ CommitRing /\ NoOverflow

Queue == INSTANCE StoreQueue WITH
  speculative <- [k \in 1 .. speculative_status_cnt |->
     speculative_queue[(speculative_read_pointer + k - 1) % DEPTH_SPEC]],
  committed <- [k \in 1 .. commit_status_cnt |->
     commit_queue[(commit_read_pointer + k - 1) % DEPTH_COMMIT]]

\* Stores reach the cache once each, in the order in which they entered the
\* buffer, and a flush takes away exactly the ones that are not committed.
ImplementsStoreQueue == Queue!Spec
=============================================================================
