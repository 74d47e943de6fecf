---------------------------- MODULE ReorderQueue ----------------------------
(***************************************************************************)
(* What the scoreboard promises to the issue and the commit stage: a       *)
(* bounded queue of instructions in program order.  They complete in any   *)
(* order, retire from the front once complete, several in a cycle, and are *)
(* dropped all together by a flush.                                        *)
(***************************************************************************)
EXTENDS Integers, Sequences

CONSTANTS Capacity,   \* instructions the queue can hold
          MaxRetire   \* instructions that can retire in one step

VARIABLE queue        \* of [instr, done, ex, result], oldest first

Init == queue = <<>>

\* What may happen to an instruction that stays in the queue.
Progress(old, new) ==
  \/ new = old
  \/ /\ new.instr = old.instr
     /\ new.done
     /\ old.ex => new.ex

\* An instruction enters complete only if it carries an exception.
Fresh(e) == e.done = e.ex

\* n instructions retire, m enter, the others make progress.
Step(n, m) ==
  /\ n <= Len(queue)
  /\ \A k \in 1 .. n : queue[k].done
  /\ Len(queue') = Len(queue) - n + m
  /\ Len(queue') <= Capacity
  /\ \A k \in 1 .. Len(queue) - n : Progress(queue[n + k], queue'[k])
  /\ \A k \in Len(queue) - n + 1 .. Len(queue') : Fresh(queue'[k])

Flush == queue' = <<>>

Next == Flush \/ \E n \in 0 .. MaxRetire, m \in {0, 1} : Step(n, m)

Spec == Init /\ [][Next]_queue
=============================================================================
