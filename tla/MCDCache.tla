------------------------------ MODULE MCDCache ------------------------------
(* The workloads of the data cache that TLC checks.                        *)
EXTENDS DCache

\* Walker, loads and stores on two lines that compete for one way.
Base == [port |-> 0..2, tag |-> {1, 2}, idx |-> 0..0, way |-> 1..1, io |-> {},
         enable |-> TRUE, amo |-> {}, flush |-> FALSE, kill |-> "early",
         retag |-> FALSE]

\* miss: as above.  ways: stores to three lines that compete for two ways.
\* flush: stores and flushes in two sets.  amo: atomics between loads, stores
\* and flushes in two ways.  uncached: one line cached, one not.  off:
\* everything takes the bypass.
MCWorkloads ==
    [n \in {"miss", "ways", "flush", "amo", "uncached", "off"} |->
       CASE n = "miss"     -> Base
         [] n = "ways"     -> [Base EXCEPT !.port = {2}, !.tag = 1..3, !.way = 1..2]
         [] n = "flush"    -> [Base EXCEPT !.port = {1, 2}, !.idx = 0..1,
                                           !.tag = {1}, !.flush = TRUE]
         [] n = "amo"      -> [Base EXCEPT !.port = {1, 2}, !.way = 1..2, !.flush = TRUE,
                                           !.amo = {"LR", "SC", "RMW"}]
         [] n = "uncached" -> [Base EXCEPT !.io = {1}]
         [] n = "off"      -> [Base EXCEPT !.enable = FALSE]]

\* Two clients the cache does not serve correctly: a load unit that kills a
\* load which the miss handler has taken, and one that drives the tag of its
\* next load while one waits.
LateKill == [late |-> [Base EXCEPT !.port = {1, 2}, !.kill = "late"]]
Retag == [retag |-> [Base EXCEPT !.retag = TRUE]]
=============================================================================
