------------------------------- MODULE MCCpu -------------------------------
(* Two virtual pages of a kernel and its process, a level 1 leaf and a table *)
(* below it, TLBs with one entry so that every access evicts another.        *)
EXTENDS Cpu

MCIdx == {0, 1}
MCHi == {0, 1, 2}
MCTables == {<<1, 0>>, <<1, 1>>}
MCRam == {<<0, 0>>, <<0, 1>>, <<1, 0>>, <<1, 1>>}
MCDevice == {<<2, 0>>}
MCPages == {<<0, 0>>, <<1, 0>>}
MCSlots == {0}
MCSlotOf == [v \in MCPages |-> 0]

P(r, w, x, u, h, l) == [v |-> TRUE, r |-> r, w |-> w, x |-> x, u |-> u,
                        a |-> TRUE, d |-> ~u, ppn |-> <<h, l>>]
Unmapped == [P(FALSE, FALSE, FALSE, FALSE, 0, 0) EXCEPT !.v = FALSE]

\* Kernel text, user text, a pointer, an execute-only page, a device.
MCPteValues ==
    {Unmapped, P(TRUE, TRUE, TRUE, FALSE, 0, 0), P(TRUE, TRUE, TRUE, TRUE, 0, 1),
     P(FALSE, FALSE, TRUE, FALSE, 0, 1)}
\* The kernel's own accesses, copying to the user, and a return to the user.
S(su, m, ie, pp) == [sum |-> su, mxr |-> m, uie |-> su, sie |-> ie,
                    spie |-> TRUE, spp |-> pp]
MCSstatusValues == {S(FALSE, FALSE, FALSE, "U"), S(TRUE, FALSE, FALSE, "U"),
                    S(FALSE, TRUE, FALSE, "U"), S(FALSE, FALSE, TRUE, "S")}
MCBootPt ==
    [l \in MCTables \X MCIdx |->
        CASE l = <<<<1, 0>>, 0>> -> P(FALSE, FALSE, FALSE, FALSE, 1, 1)
          [] l = <<<<1, 1>>, 0>> -> P(TRUE, TRUE, TRUE, FALSE, 0, 0)
          [] l = <<<<1, 0>>, 1>> -> P(TRUE, TRUE, TRUE, TRUE, 0, 1)
          [] OTHER -> P(TRUE, TRUE, FALSE, FALSE, 2, 0)]
=============================================================================
