----------------------------- MODULE StoreQueue -----------------------------
(***************************************************************************)
(* What the store buffer promises: stores wait in program order until the  *)
(* commit stage releases them one by one, and reach the data cache in that *)
(* order.  A flush drops the stores that are not committed and no other.   *)
(***************************************************************************)
EXTENDS Sequences

CONSTANT Store

VARIABLES speculative,  \* stores that may still be flushed, oldest first
          committed     \* stores that must reach the cache, oldest first

Init == speculative = <<>> /\ committed = <<>>

\* At most one store enters, one is committed and one is handed to the cache.
Step(enter, commit, drain, flush) ==
  /\ commit => speculative # <<>>
  /\ drain => committed # <<>>
  /\ speculative' =
       IF flush THEN <<>>
       ELSE (IF commit THEN Tail(speculative) ELSE speculative) \o enter
  /\ committed' =
       (IF drain THEN Tail(committed) ELSE committed)
         \o (IF commit THEN <<Head(speculative)>> ELSE <<>>)

Next ==
  \E enter \in {<<>>} \cup {<<s>> : s \in Store},
     commit, drain, flush \in BOOLEAN : Step(enter, commit, drain, flush)

Spec == Init /\ [][Next]_<<speculative, committed>>
=============================================================================
