------------------------------ MODULE MCHdmaRegs ------------------------------
(* Values for the constants of HdmaRegs, with words of 25 bits.            *)
EXTENDS HdmaRegs, TLC

Transfer(id, op, enable, n) ==
    [id |-> id, op |-> op, enable |-> enable, desc_size |-> 24 * n,
     desc_addr |-> 5 * Word + 4096 * n, desc_device_addr |-> 36 * Word + 65536 * n]

FewRequests == {Transfer(0, "in", TRUE, 2), Transfer(0, "out", FALSE, 3)}

FewWindows == {1090519040}

FewMessages == {[wide |-> TRUE, lo |-> 11, hi |-> 1, data |-> 33],
                [wide |-> FALSE, lo |-> 12, hi |-> 0, data |-> 34]}

CallerSymmetry == Permutations(Callers)
=============================================================================
