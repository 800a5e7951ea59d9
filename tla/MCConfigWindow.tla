---------------------------- MODULE MCConfigWindow ----------------------------
(***************************************************************************)
(* Instances of ConfigWindow: windows of 4 cells at 4, 8, 12 and 16, words *)
(* of 8 cells (so that addresses need both words), cells of two values.    *)
(***************************************************************************)
EXTENDS ConfigWindow

Req(a, d, f) == [reg_addr |-> a, reg_data |-> d, rw_flag |-> f]

\* Accesses in two windows, at the edges of the range and beyond them.
FewRequests ==
    {Req(4, 2, "WRITE"), Req(11, 3, "WRITE16"), Req(10, 0, "READ"),
     Req(5, 0, "READ16"), Req(16, 1, "WRITE"), Req(17, 1, "WRITE16"),
     Req(4, 1, "unknown")}

\* A list in two windows, one that is refused half way, one that is too long.
FewLists ==
    {<<Req(4, 1, "WRITE"), Req(10, 3, "WRITE")>>,
     <<Req(10, 3, "WRITE"), Req(2, 1, "WRITE"), Req(4, 2, "WRITE")>>,
     <<Req(8, 1, "WRITE"), Req(8, 2, "WRITE"), Req(8, 3, "WRITE"), Req(8, 0, "WRITE")>>}

=============================================================================
