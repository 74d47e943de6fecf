------------------------------- MODULE MCLsu --------------------------------
(***************************************************************************)
(* Instances of Lsu.  Each workload turns on one part of the behaviour:    *)
(* the order of loads and stores, exceptions, AMOs.                        *)
(***************************************************************************)
EXTENDS Lsu, TLC

Good(fu, addr, data) == [fu |-> fu, addr |-> addr, data |-> data, ex |-> "none"]

Bad(fu, ex) == [fu |-> fu, addr |-> "a", data |-> 0, ex |-> ex]

\* The order of loads of two addresses and stores to one of them; loads and
\* stores that fail in every way; AMOs among loads and stores.
MCWorkloads ==
  [order  |-> [kinds |-> {Good("LOAD", "a", 0), Good("LOAD", "b", 0), Good("STORE", "a", 1)},
               flushes |-> FALSE],
   loads  |-> [kinds |-> {Good("LOAD", "a", 0), Good("STORE", "a", 1), Bad("LOAD", "walk")},
               flushes |-> FALSE],
   stores |-> [kinds |-> {Good("LOAD", "a", 0), Bad("LOAD", "mis"), Bad("STORE", "perm"),
                          Bad("STORE", "mis"), Bad("STORE", "walk")},
               flushes |-> FALSE],
   amo    |-> [kinds |-> {Good("LOAD", "a", 0), Good("STORE", "a", 1), Good("AMO", "a", 0),
                          Bad("AMO", "perm")},
               flushes |-> TRUE]]
OverlapWorkload == [loads |-> MCWorkloads.loads]

TwoAddr == {"a", "b"}
=============================================================================
