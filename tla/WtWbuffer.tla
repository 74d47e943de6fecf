----------------------------- MODULE WtWbuffer -----------------------------
(***************************************************************************)
(* The coalescing write buffer of the write-through data cache             *)
(* (wt_dcache_wbuffer.sv): a small fully associative cache of words whose  *)
(* bytes are still to be sent, or have been sent and not acknowledged.     *)
(* Every entry also remembers in which way of the cache its word is, from  *)
(* a lookup that takes three cycles and is repeated when a line of the set *)
(* is written.                                                             *)
(*                                                                         *)
(* A word is <<tag, index, offset>>.  A word has the bytes the workload    *)
(* names, and a byte is 0 or 1.                                            *)
(***************************************************************************)
EXTENDS Integers, Sequences, FiniteSets, FiniteSetsExt

CONSTANTS
    Workloads,  \* what the core may do, by name
    WBUF_DEPTH, \* DCACHE_WBUF_DEPTH, entries of the buffer
    MAX_TX      \* DCACHE_MAX_TX, write transactions at a time

VARIABLES
    work,       \* the name of the workload of this behaviour
    wb,         \* wbuffer_q
    tx,         \* tx_stat_q: by transaction, the entry and bytes sent, or None
    rtrn_ids,   \* i_rtrn_id_fifo: the transactions that have been acknowledged
    nc_pending, \* nc_pending_q
    check,      \* check_en_q, check_ptr_q, rd_tag_q: the lookup under way
    checked,    \* check_en_q1, check_ptr_q1, rd_hit_oh_q: the lookup before it
    wr_cl,      \* wr_cl_vld_q, wr_cl_idx_q: the line write a cycle ago
    lock        \* the entry that i_dirty_rr holds until it is sent

wbVars == <<wb, tx, rtrn_ids, nc_pending, check, checked, wr_cl, lock>>

Tag == Workloads[work].tag       \* words are Tag \X Idx \X Off
Idx == Workloads[work].idx       \* DCACHE_NUM_WORDS indices, from 0
Off == Workloads[work].off       \* the words of a line
Byte == Workloads[work].byte     \* the bytes of a word the program writes
SPLIT == Workloads[work].split   \* do they need transfers of their own?
Uncached == Workloads[work].io   \* the tags outside the cacheable regions

ASSUME WbufferAssumption ==
    /\ {WBUF_DEPTH, MAX_TX} \subseteq Nat \ {0}
    /\ \A n \in DOMAIN Workloads : LET k == Workloads[n] IN
        /\ k.idx = 0..Max(k.idx) /\ k.off = 0..Max(k.off) /\ k.byte # {}
        /\ k.split \in BOOLEAN /\ k.io \subseteq k.tag

Word == Tag \X Idx \X Off
Entry == 0..WBUF_DEPTH - 1
TxId == 0..MAX_TX - 1
Data == [Byte -> 0..1]
LineOf(x) == <<x[1], x[2]>>
None == [none |-> TRUE]
No == -1  \* no entry, index or transaction

\* What a free entry still holds is not looked at.
Free == [word |-> <<0, 0, 0>>, data |-> [b \in Byte |-> 0], valid |-> {},
         dirty |-> {}, txblock |-> {}, checked |-> FALSE, hit |-> {}]

WbInit ==
    /\ wb = [k \in Entry |-> Free]
    /\ tx = [i \in TxId |-> None]
    /\ rtrn_ids = <<>> /\ nc_pending = FALSE
    /\ check = None /\ checked = None /\ wr_cl = No /\ lock = No

-----------------------------------------------------------------------------
(* Status of the entries                                                    *)

Valid == {k \in Entry : wb[k].valid # {}}
Empty == Valid = {}

\* Fault: a word that was changed in flight is sent again at once.
bdirty_Resend(k) == wb[k].dirty \cap wb[k].valid

\* Dirty bytes that may be sent: a word with bytes in flight waits for them.
bdirty(k) == IF wb[k].txblock # {} THEN {} ELSE wb[k].dirty \cap wb[k].valid

Dirty == {k \in Entry : bdirty(k) # {}}
ToCheck == {k \in Valid : ~wb[k].checked}
FreeTx == {i \in TxId : tx[i] = None}

\* i_dirty_rr: any dirty entry, which stays chosen until it is sent.
DirtyPtrs == IF lock # No THEN {lock} ELSE IF Dirty = {} THEN {No} ELSE Dirty

\* toSize64, toByteEnable8: one aligned transfer at a time.
tx_be(k) == IF SPLIT THEN {Min(bdirty(k))} ELSE bdirty(k)

HitEntries(x) == {k \in Valid : wb[k].word = x}

\* The buffer's bytes over those of the cache or of memory (wt_dcache_mem).
Overlay(x, data) ==
    [b \in Byte |-> IF \E k \in HitEntries(x) : b \in wb[k].valid
                    THEN wb[Min(HitEntries(x))].data[b] ELSE data[b]]

-----------------------------------------------------------------------------
(* The acknowledged transaction at the head of the queue                    *)

rtrn == tx[Head(rtrn_ids)]

Returned == rtrn_ids # <<>> /\ wb[rtrn.ptr].checked

\* Bytes overwritten in flight are not for the cache.
wr_data_be == rtrn.be \ wb[rtrn.ptr].dirty

wr_req == Returned /\ wr_data_be # {} /\ wb[rtrn.ptr].hit # {}

evict(wr_ack) == Returned /\ (wr_req => wr_ack)

-----------------------------------------------------------------------------
(* The next state.  In: cl, the index of the line the miss unit writes to   *)
(* the cache now; hit, the ways that the lookup finds; wr_ack, the answer   *)
(* of the cache to wr_req; sent and ptr, the entry the miss unit takes; st, *)
(* the store of the core.                                                   *)

addr_is_nc(x, en) == ~en \/ x[1] \in Uncached

\* An uncached store waits for an empty buffer, and the others for it.
data_gnt(st, en) ==
    /\ st # None /\ (HitEntries(st.word) # {} \/ Valid # Entry)
    /\ Empty \/ ~(addr_is_nc(st.word, en) \/ nc_pending)

wr_ptr(x) == Min(IF HitEntries(x) # {} THEN HitEntries(x) ELSE Entry \ Valid)

\* Fault: the line write of the cycle before is forgotten.
inval_hit_Now(k, cl) == k \in Valid /\ wb[k].word[2] = cl

inval_hit(k, cl) == k \in Valid /\ wb[k].word[2] \in {cl, wr_cl}

Lookup(k, e, cl) ==
    IF inval_hit(k, cl) THEN [e EXCEPT !.checked = FALSE, !.hit = {}]
    ELSE IF checked # None /\ checked.ptr = k /\ k \in Valid
    THEN [e EXCEPT !.checked = TRUE, !.hit = checked.hit]
    ELSE e

Evict(k, e, wr_ack) ==
    IF evict(wr_ack) /\ rtrn.ptr = k
    THEN [e EXCEPT !.txblock = @ \ rtrn.be, !.valid = @ \ wr_data_be]
    ELSE e

\* Fault: the bytes that are sent are not blocked.
Send_Open(k, e, sent, ptr) ==
    IF sent /\ ptr = k THEN [e EXCEPT !.dirty = @ \ tx_be(k)] ELSE e

\* Fault: the bytes that are sent stay dirty.
Send_StaysDirty(k, e, sent, ptr) ==
    IF sent /\ ptr = k THEN [e EXCEPT !.txblock = @ \cup tx_be(k)] ELSE e

Send(k, e, sent, ptr) ==
    IF sent /\ ptr = k
    THEN [e EXCEPT !.dirty = @ \ tx_be(k), !.txblock = @ \cup tx_be(k)]
    ELSE e

Write(k, e, st, en) ==
    IF data_gnt(st, en) /\ wr_ptr(st.word) = k
    THEN [e EXCEPT !.checked = FALSE, !.hit = {}, !.word = st.word,
                   !.valid = @ \cup st.be, !.dirty = @ \cup st.be,
                   !.data = [b \in Byte |-> IF b \in st.be THEN st.data[b] ELSE @[b]]]
    ELSE e

\* An entry without bytes is free, and a byte that is not valid has no value.
Normal(e) ==
    IF e.valid = {} THEN Free
    ELSE [e EXCEPT !.data = [b \in Byte |-> IF b \in e.valid THEN @[b] ELSE 0]]

WbNext(cl, wr_ack, sent, ptr, st, en) ==
    [k \in Entry |->
        Normal(Write(k, Send(k, Evict(k, Lookup(k, wb[k], cl), wr_ack),
                             sent, ptr), st, en))]

\* tx_id: which of the free transactions is used makes no difference.
TxNext(wr_ack, sent, ptr) ==
    [i \in TxId |->
        IF sent /\ i = Min(FreeTx) THEN [ptr |-> ptr, be |-> tx_be(ptr)]
        ELSE IF evict(wr_ack) /\ i = Head(rtrn_ids) THEN None
        ELSE tx[i]]

\* ack: the transaction acknowledged now; look: the entry whose tag lookup is
\* accepted now.
WbufferStep(cl, hit, wr_ack, sent, ptr, st, en, ack, look) ==
    /\ wb' = WbNext(cl, wr_ack, sent, ptr, st, en)
    /\ tx' = TxNext(wr_ack, sent, ptr)
    /\ rtrn_ids' = (IF evict(wr_ack) THEN Tail(rtrn_ids) ELSE rtrn_ids)
                   \o (IF ack = No THEN <<>> ELSE <<ack>>)
    /\ nc_pending' = IF data_gnt(st, en) THEN addr_is_nc(st.word, en) ELSE nc_pending
    /\ check' = IF look = No THEN None ELSE [ptr |-> look, tag |-> wb[look].word[1]]
    /\ checked' = IF check = None THEN None ELSE [ptr |-> check.ptr, hit |-> hit]
    /\ wr_cl' = cl
    /\ lock' = IF Dirty # {} /\ ~sent THEN ptr ELSE No
=============================================================================
