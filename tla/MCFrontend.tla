----------------------------- MODULE MCFrontend -----------------------------
(***************************************************************************)
(* Programs of eight halfwords for the front end.                          *)
(***************************************************************************)
EXTENDS Frontend

C == [short |-> TRUE, flow |-> "none", target |-> 0]     \* compressed
L == [short |-> FALSE, flow |-> "none", target |-> 0]    \* 32 bits
With(i, flow, target) == [i EXCEPT !.flow = flow, !.target = target]
From0(s) == [a \in Addr |-> s[a + 1]]
Same(s) == [v \in Version |-> From0(s)]

\* 32-bit instructions that start in either half of a word, with every kind of
\* control flow.
Mixed == <<C, L, C, With(C, "branch", 6), With(L, "jump", 1), C,
           With(C, "jalr", 0), L>>
\* Compressed instructions, with jumps in both halves of a word.
Dense == <<C, With(C, "branch", 3), C, With(C, "jump", 6), With(C, "return", 0), C,
           With(C, "branch", 1), C>>

Base == [text |-> Same(Mixed), starts |-> {0, 3, 7}, boot |-> 2, fences |-> FALSE,
         fault |-> {}, writable |-> {}, enable |-> FALSE, idx |-> 2, ways |-> 1]

MCWorkloads ==
    [n \in {"mixed", "dense", "fault", "fence", "enable"} |->
       CASE n = "mixed" -> Base
         [] n = "dense" -> [Base EXCEPT !.text = Same(Dense)]
         [] n = "fault" -> [Base EXCEPT !.fault = {2, 3}, !.starts = {1, 5}]
         [] n = "fence" -> [Base EXCEPT !.fences = TRUE, !.writable = {1},
                                        !.starts = {0}, !.ways = 2]
         [] n = "enable" -> [Base EXCEPT !.starts = {0}, !.enable = TRUE]]
=============================================================================
