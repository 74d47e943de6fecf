----------------------------- MODULE MCWtDCache -----------------------------
(* The workloads of the write-through data cache that TLC checks.          *)
EXTENDS WtDCache

\* Loads and stores of one word.
Base == [port |-> {1}, tag |-> {1}, idx |-> 0..0, off |-> 0..0, byte |-> {0},
         split |-> FALSE, io |-> {}, way |-> 1..1, store |-> {<<1, 0, 0>>},
         load |-> {<<1, 0, 0>>}, kill |-> FALSE, toggle |-> FALSE, amo |-> {},
         once |-> FALSE]

\* bytes: two stores to one word, with kills.  lines: two words of a line, and
\* a line that competes with it.  evict: two lines that compete for one way.
\* ports: walker and loads in two ways.  amo: atomics between loads and stores.
\* toggle: the cache is switched on and off.  uncached: one line cached, one
\* not, with kills.
MCWorkloads ==
    [n \in {"bytes", "lines", "evict", "ports", "amo", "toggle", "uncached"} |->
       CASE n = "bytes"    -> [Base EXCEPT !.byte = 0..1, !.split = TRUE,
                                           !.once = TRUE, !.kill = TRUE]
         [] n = "lines"    -> [Base EXCEPT !.tag = 1..2, !.off = 0..1, !.once = TRUE,
                                           !.store = {<<1, 0, 0>>, <<1, 0, 1>>},
                                           !.load = {<<1, 0, 0>>, <<2, 0, 0>>}]
         [] n = "evict"    -> [Base EXCEPT !.tag = 1..2,
                                           !.load = {<<1, 0, 0>>, <<2, 0, 0>>}]
         [] n = "ports"    -> [Base EXCEPT !.port = {0, 1}, !.way = 1..2]
         [] n = "amo"      -> [Base EXCEPT !.amo = {"LR", "SC", "RMW"}, !.once = TRUE]
         [] n = "toggle"   -> [Base EXCEPT !.toggle = TRUE, !.once = TRUE]
         [] n = "uncached" -> [Base EXCEPT !.tag = 1..2, !.io = {1}, !.once = TRUE,
                                           !.kill = TRUE,
                                           !.store = {<<1, 0, 0>>, <<2, 0, 0>>},
                                           !.load = {<<1, 0, 0>>, <<2, 0, 0>>}]]
=============================================================================
