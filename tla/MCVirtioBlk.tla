---------------------------- MODULE MCVirtioBlk ----------------------------
(* VirtioBlk with a queue of four descriptors, a disk of two sectors and   *)
(* the requests that reach every branch of handle_chain().                 *)
EXTENDS VirtioBlk

D(write, len, link) ==
    [write |-> write, len |-> len, link |-> link, indirect |-> FALSE, ram |-> TRUE]

Hdr == D(FALSE, 2, "next")
End == D(TRUE, 1, "end")
Req(type, sector, chain) == [type |-> type, sector |-> sector, chain |-> chain]

Data == D(TRUE, 2, "next")
NoRam(d) == [d EXCEPT !.ram = FALSE]

\* Good ones first, then one per way to be refused.  Those of one or two
\* descriptors are in flight together with others.
MCRequests == <<
    Req("IN", 1, <<Hdr, Data, End>>),
    Req("IN", 1, <<Hdr, Data, D(TRUE, 1, "next"), End>>),
    Req("IN", 0, <<D(FALSE, 1, "next"), D(FALSE, 2, "next"), D(TRUE, 4, "next"), End>>),
    Req("FLUSH", 0, <<Hdr, End>>),
    Req("OUT", 0, <<Hdr, D(FALSE, 2, "next"), End>>),
    Req("ID", 0, <<Hdr, Data, End>>),
    Req("IN", 3, <<Hdr, Data, End>>),
    Req("IN", 0, <<Hdr, NoRam(Data), End>>),
    Req("IN", 0, <<Hdr, NoRam(End)>>),
    Req("IN", 0, <<Hdr, Data, [End EXCEPT !.len = 0]>>),
    Req("IN", 0, <<NoRam(Hdr), Data, End>>),
    Req("IN", 0, <<D(FALSE, 1, "next"), Data, End>>),
    Req("IN", 0, <<Hdr, D(FALSE, 2, "next"), D(FALSE, 2, "end")>>),
    Req("IN", 0, <<Hdr, Data, [End EXCEPT !.indirect = TRUE]>>),
    Req("IN", 0, <<Hdr, Data, [End EXCEPT !.link = "loop"]>>),
    Req("IN", 0, <<[Hdr EXCEPT !.link = "wild"]>>) >>
=============================================================================
