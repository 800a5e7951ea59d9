-------------------------------- MODULE RegOps --------------------------------
(***************************************************************************)
(* Register requests of the driver (struct dpu_reg_args) and what they do  *)
(* to the registers of the device.  Addresses count 16-bit cells: a 32-bit *)
(* access takes the cell at its address and the next one.                  *)
(***************************************************************************)
EXTENDS Integers, Sequences

CONSTANTS
    HalfWord,   \* number of values of a cell: 2^16
    AddrMin,    \* REGS_ADDR_MIN
    AddrMax,    \* REGS_ADDR_MAX
    DevTop      \* last cell of the device

ASSUME RegAssumption ==
    /\ HalfWord \in Nat \ {0}
    /\ AddrMin \in Nat /\ AddrMax \in Nat /\ DevTop \in Nat
    /\ AddrMax < DevTop

Cells == 0 .. DevTop
FullWord == HalfWord * HalfWord
Data == 0 .. FullWord - 1

\* rw_flag has a value for each access; any other value asks for nothing.
Flags == {"WRITE", "READ", "WRITE16", "READ16", "unknown"}
Requests == [reg_addr : Nat, reg_data : Data, rw_flag : Flags]

\* The range check that both regs_operations() and eon_rw_reg() begin with.
InRange(r) == ~(r.reg_addr > AddrMax \/ r.reg_addr < AddrMin)

\* The registers after an access at cell a.
StoreUntruncated(m, a, r) ==
    IF r.rw_flag \in {"WRITE", "WRITE16"} THEN [m EXCEPT ![a] = r.reg_data] ELSE m
Store(m, a, r) ==
    CASE r.rw_flag = "WRITE" ->
            [m EXCEPT ![a] = r.reg_data % HalfWord,
                      ![a + 1] = r.reg_data \div HalfWord]
      [] r.rw_flag = "WRITE16" -> [m EXCEPT ![a] = r.reg_data % HalfWord]
      [] OTHER -> m

\* reg_data after an access at cell a: a 16-bit read clears the upper half.
Load(m, a, r) ==
    CASE r.rw_flag = "READ" -> m[a] + HalfWord * m[a + 1]
      [] r.rw_flag = "READ16" -> m[a]
      [] OTHER -> r.reg_data

=============================================================================
