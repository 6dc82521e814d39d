------------------------------- MODULE MCPvIo -------------------------------
(* Two processes, a window of two words: register reads, probes, a message  *)
(* that does not fit, lengths that pv_exec() refuses, a ten bit address.    *)
(* The core's quirk check keeps out a pair that exceeds the window          *)
(* together.  A board with all devices, and one where the bus and one of    *)
(* the two pins did not come up.                                            *)
EXTENDS PvIo

W(a, b) == [addr |-> a, rd |-> FALSE, ten |-> FALSE, buf |-> b]
R(a, n) == [addr |-> a, rd |-> TRUE, ten |-> FALSE, buf |-> [k \in 1 .. n |-> 0]]

MCXfers ==
    {<<W(1, <<7, 8, 9>>), W(2, << >>)>>,
     <<W(1, <<8>>), R(1, 3), W(2, <<9>>)>>,
     <<R(1, 2), W(1, <<7>>), R(2, 1)>>,
     <<W(1, << >>), R(1, 1)>>,
     <<W(1, <<7, 7, 7, 7, 7>>)>>,
     <<R(2, 1), [W(1, <<8>>) EXCEPT !.ten = TRUE]>>}

MCBoards == {[bus |-> TRUE, pins |-> {0, 1}], [bus |-> FALSE, pins |-> {0}]}
=============================================================================
