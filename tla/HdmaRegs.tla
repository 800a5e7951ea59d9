------------------------------- MODULE HdmaRegs -------------------------------
(***************************************************************************)
(* BAR 0 and everybody who writes to it.  The BAR holds the registers of   *)
(* every HDMA channel and of the iATU, at addresses that hdma.h and iatu.h *)
(* compute.  eon_probe() programs a region for the IRAM and, channel after *)
(* channel, where MSIs go; ioctl callers program transfers under the       *)
(* spinlock of a channel; the kthread acknowledges interrupts without any  *)
(* lock; register accesses move the other region.  One memory stands for   *)
(* the BAR, so that writers whose addresses met would be seen to disturb   *)
(* each other.  A step is one of the writers' runs of register writes.     *)
(***************************************************************************)
EXTENDS Integers

CONSTANTS
    NumHdma,    \* MAX_HDMA_NUMBER
    Callers,    \* tasks that issue EON_IOCTL_HDMA
    Requests,   \* their transfers, once the descriptors are ready
    Windows,    \* addresses that the register window is moved to
    Messages,   \* MSI messages that the host may assign
    Statuses,   \* values of HDMA_INT_STATUS that engines report
    Word,       \* 2^32, the width of a register
    None

\* The addresses of a request take 64 bits, a list of descriptors (kmalloc()
\* has a limit) and the two words of a message 32, its data 16.
Words == 0 .. Word - 1
DoubleWords == {a \in Nat : a \div Word < Word}
MsgData == 0 .. 65535

ASSUME SizeAssumption ==
    /\ NumHdma \in 1 .. 16
    /\ Word \in Nat /\ Word >= 33554432 /\ Word % 4 = 0

ASSUME RegsAssumption ==
    /\ None \notin Callers
    /\ Requests \subseteq [id : 0 .. NumHdma - 1, op : {"in", "out"}, enable : BOOLEAN,
                           desc_size : Words, desc_addr : DoubleWords,
                           desc_device_addr : DoubleWords]
    /\ Windows \subseteq DoubleWords /\ 0 \notin Windows
    /\ Statuses \subseteq Words /\ 0 \notin Statuses

ASSUME MessageAssumption ==
    Messages \subseteq [wide : BOOLEAN, lo : Words, hi : Words, data : MsgData]

-----------------------------------------------------------------------------
(* The layout of the BAR.                                                  *)

\* Offsets of the registers of a channel.
en == 0
doorbell == 4
elem_pf == 8
llp_low == 16
llp_high == 20
cycle_off == 24
xfer_size == 28
sar_low == 32
sar_high == 36
dar_low == 40
dar_high == 44
control1 == 52
int_status == 132
int_setup == 136
int_clear == 140
msi_stop_low == 144
msi_stop_high == 148
msi_watermark_low == 152
msi_watermark_high == 156
msi_abort_low == 160
msi_abort_high == 164
msi_msgd == 168
\* watermark, func_num, qos and status: neither the driver nor an engine writes.
Unwritten == {48, 56, 60, 128}

Ctx == (0 .. NumHdma - 1) \X {"r", "w"}

HdmaBase == 4096
HdmaSize == 2048
Reg(x, o) == HdmaBase + HdmaSize * x[1] + (IF x[2] = "r" THEN 1024 ELSE 0) + o

\* The registers of a region of the iATU that are used.
ctrl_1 == 0
ctrl_2 == 4
lwr_target == 20
upper_target == 24

IatuBase == 36864
ShortIndexOffset == 256
IndexOffset == 512
Iatu(n, d, o) == IatuBase + IndexOffset * n + (IF d = "in" THEN 256 ELSE 0) + o

Offsets == {en, doorbell, elem_pf, llp_low, llp_high, cycle_off, xfer_size,
            sar_low, sar_high, dar_low, dar_high, control1, int_status, int_setup,
            int_clear, msi_stop_low, msi_stop_high, msi_watermark_low,
            msi_watermark_high, msi_abort_low, msi_abort_high, msi_msgd} \cup Unwritten
IatuOffsets == {ctrl_1, ctrl_2, lwr_target, upper_target}
Directions == {"in", "out"}
Addrs == {Reg(x, o) : x \in Ctx, o \in Offsets}
         \cup {Iatu(n, d, o) : n \in {0, 1}, d \in Directions, o \in IatuOffsets}

-----------------------------------------------------------------------------
VARIABLES
    mem,                \* the registers
    dpc, pos,           \* where eon_probe() is, and at which context
    live,               \* the contexts that hdmar[] and hdmaw[] point to
    msi_cap,            \* the MSI capability: the message that the host expects,
                        \* or None once it is not the assigned one any more
    base_addr,          \* what the driver has read of it
    pc, req, phase,     \* the callers
    lock,               \* the owner of the spinlock of each context
    config_bar_base     \* where the register window is

probeVars == <<dpc, pos, live, base_addr>>
callerVars == <<pc, req, phase, lock>>
vars == <<mem, probeVars, msi_cap, callerVars, config_bar_base>>

NoMessage == [l |-> 0, h |-> 0, data |-> 0]

Init ==
    /\ mem = [a \in Addrs |-> 0]
    /\ dpc = "unbound" /\ pos = 0 /\ live = {}
    /\ msi_cap = None /\ base_addr = NoMessage
    /\ pc = [c \in Callers |-> "user"]
    /\ req = [c \in Callers |-> None]
    /\ phase = [c \in Callers |-> "desc"]
    /\ lock = [x \in Ctx |-> None]
    /\ config_bar_base = 0

\* A 64-bit value as two registers.
LoUnmasked(a) == a
Lo(a) == a % Word
Hi(a) == (a \div Word) % Word

-----------------------------------------------------------------------------
(* eon_probe() and eon_remove().                                           *)

Dpc(from, to) == dpc = from /\ dpc' = to

\* The words of an MSI capability after the flags; a 64-bit one has its data
\* behind the upper address.
Capability(m) == [o \in {4, 8, 12} |->
                    CASE o = 4 -> m.lo
                      [] o = 8 -> IF m.wide THEN m.hi ELSE m.data
                      [] o = 12 -> IF m.wide THEN m.data ELSE 0]

\* eon_irq_init(): the host assigns a message, pci_msi_setup() reads it back.
DataOffset32(m) == 8
DataOffset(m) == IF m.wide THEN 12 ELSE 8
pci_msi_setup(m) ==
    LET cap == Capability(m) IN
    [l |-> cap[4], h |-> IF m.wide THEN cap[8] ELSE 0, data |-> cap[DataOffset(m)] % 65536]

eon_irq_init ==
    /\ Dpc("unbound", "iatu")
    /\ \E m \in Messages : msi_cap' = m /\ base_addr' = pci_msi_setup(m)
    /\ UNCHANGED <<mem, pos, live, callerVars, config_bar_base>>

\* iatu_map_inbound_bar(), iatu_map_outbound_bar(): the target, the size, and
\* bits 31 and 30 (enable, BAR match) with the number of the BAR.
ctrl_2_value(bar) == 3 * (Word \div 4) + 256 * bar
iatu_map_bar(m, d, bar, n, addr, size) ==
    IF size > 16777216 THEN m
    ELSE [m EXCEPT ![Iatu(n, d, lwr_target)] = Lo(addr),
                   ![Iatu(n, d, upper_target)] = Hi(addr),
                   ![Iatu(n, d, ctrl_1)] = size % 33554432,
                   ![Iatu(n, d, ctrl_2)] = ctrl_2_value(bar)]
iatu_map(bar, n, addr, size) ==
    iatu_map_bar(iatu_map_bar(mem, "in", bar, n, addr, size), "out", bar, n, addr, size)

\* Region 0: 512K of IRAM in DESC_BAR.
IramBase == 1207959552
iatu_config ==
    /\ Dpc("iatu", "init")
    /\ mem' = iatu_map(4, 0, IramBase, 524288)
    /\ UNCHANGED <<pos, live, base_addr, msi_cap, callerVars, config_bar_base>>

\* The loops over the contexts, all of hdmar[] and then all of hdmaw[].
CtxAt(p) == IF p < NumHdma THEN <<p, "r">> ELSE <<p - NumHdma, "w">>
LastPos == 2 * NumHdma - 1

hdma_init ==
    /\ Dpc("init", "enable")
    /\ live' = live \cup {CtxAt(pos)}
    /\ UNCHANGED <<mem, pos, base_addr, msi_cap, callerVars, config_bar_base>>

hdma_enable(m, x) == [m EXCEPT ![Reg(x, en)] = 1]
hdma_msi_interrupt(m, x, msg) ==
    [m EXCEPT ![Reg(x, msi_stop_low)] = msg.l, ![Reg(x, msi_stop_high)] = msg.h,
              ![Reg(x, msi_abort_low)] = msg.l, ![Reg(x, msi_abort_high)] = msg.h,
              ![Reg(x, msi_watermark_low)] = msg.l,
              ![Reg(x, msi_watermark_high)] = msg.h,
              ![Reg(x, msi_msgd)] = msg.data]

arm_ctx ==
    /\ Dpc("enable", IF pos < LastPos THEN "init" ELSE "bound")
    /\ mem' = hdma_msi_interrupt(hdma_enable(mem, CtxAt(pos)), CtxAt(pos), base_addr)
    /\ pos' = IF pos < LastPos THEN pos + 1 ELSE 0
    /\ UNCHANGED <<live, base_addr, msi_cap, callerVars, config_bar_base>>

\* eon_remove(), or the error path of hdma_init(), with no call under way.  The
\* card keeps its registers, or is reset.
unbind ==
    /\ dpc \in {"init", "bound"} /\ dpc' = "unbound" /\ pos' = 0 /\ live' = {}
    /\ \A c \in Callers : pc[c] = "user"
    /\ config_bar_base' = 0 /\ msi_cap' = None
    /\ \/ UNCHANGED mem
       \/ mem' = [a \in Addrs |-> 0]
    /\ UNCHANGED <<base_addr, callerVars>>

\* External: the host moves the interrupt to another processor, which changes
\* the message.
set_affinity ==
    /\ dpc # "unbound" /\ msi_cap' = None
    /\ UNCHANGED <<mem, probeVars, callerVars, config_bar_base>>

-----------------------------------------------------------------------------
(* The callers.                                                            *)

CurCtx(c) == <<req[c].id,
               IF phase[c] = "data" /\ req[c].op = "out" THEN "w" ELSE "r">>
R(c, o) == Reg(CurCtx(c), o)

Goto(c, from, to) == pc[c] = from /\ pc' = [pc EXCEPT ![c] = to]

\* Both contexts of an outbound transfer exist (EonLifecycle has the others).
Exists(r) == <<r.id, "r">> \in live /\ (r.op = "out" => <<r.id, "w">> \in live)

eon_hdma(c) ==
    /\ Goto(c, "user", "spin")
    /\ \E r \in Requests : Exists(r) /\ req' = [req EXCEPT ![c] = r]
    /\ UNCHANGED <<mem, probeVars, msi_cap, phase, lock, config_bar_base>>

LockFree(x) == lock[x] = None

spin_lock(c) ==
    /\ Goto(c, "spin", "program") /\ LockFree(CurCtx(c))
    /\ lock' = [lock EXCEPT ![CurCtx(c)] = c]
    /\ UNCHANGED <<mem, probeVars, msi_cap, req, phase, config_bar_base>>

NoCycleOff(m, x, control, cycle) ==
    [m EXCEPT ![Reg(x, elem_pf)] = 0, ![Reg(x, control1)] = control]
hdma_set_attr(m, x, control, cycle) ==
    [m EXCEPT ![Reg(x, elem_pf)] = 0, ![Reg(x, cycle_off)] = cycle,
              ![Reg(x, control1)] = control]
hdma_enable_intr(m, x, mask) ==
    [m EXCEPT ![Reg(x, int_setup)] = IF mask = 0 THEN 127 ELSE mask]
set_xfer_data(m, x, size, src, des) ==
    [m EXCEPT ![Reg(x, xfer_size)] = Lo(size),
              ![Reg(x, sar_low)] = Lo(src), ![Reg(x, sar_high)] = Hi(src),
              ![Reg(x, dar_low)] = Lo(des), ![Reg(x, dar_high)] = Hi(des)]
hdma_set_desc_pointer(m, x, addr) ==
    [m EXCEPT ![Reg(x, llp_low)] = Lo(addr), ![Reg(x, llp_high)] = Hi(addr)]

\* A single transfer for the descriptors, a linked list for the data.
ProgramDesc(x, r) ==
    set_xfer_data(hdma_enable_intr(hdma_set_attr(mem, x, 851968, 0), x, 61),
                  x, r.desc_size, r.desc_addr, r.desc_device_addr)
ProgramData(x, r) ==
    hdma_set_desc_pointer(hdma_enable_intr(hdma_set_attr(mem, x, 3, 2), x, 24),
                          x, r.desc_device_addr)

program(c) ==
    /\ Goto(c, "program", "doorbell")
    /\ mem' = IF phase[c] = "desc" THEN ProgramDesc(CurCtx(c), req[c])
                                   ELSE ProgramData(CurCtx(c), req[c])
    /\ UNCHANGED <<probeVars, msi_cap, req, phase, lock, config_bar_base>>

\* The doorbell; a data phase without dma_enable leaves the start to the device.
hdma_start_transfer(c) ==
    /\ Goto(c, "doorbell", "wait")
    /\ mem' = IF phase[c] = "desc" \/ req[c].enable
                THEN [mem EXCEPT ![R(c, doorbell)] = 1] ELSE mem
    /\ UNCHANGED <<probeVars, msi_cap, req, phase, lock, config_bar_base>>

\* The wait ends, or a register write of the data phase is refused: unlock, and
\* on to the data phase, or back.  (HdmaTransfer has how waits end.)
spin_unlock(c) ==
    /\ pc[c] = "wait" \/ (pc[c] = "doorbell" /\ phase[c] = "data")
    /\ lock' = [lock EXCEPT ![CurCtx(c)] = None]
    /\ \/ /\ phase[c] = "desc"
          /\ pc' = [pc EXCEPT ![c] = "spin"]
          /\ phase' = [phase EXCEPT ![c] = "data"]
          /\ UNCHANGED req
       \/ /\ pc' = [pc EXCEPT ![c] = "user"]
          /\ phase' = [phase EXCEPT ![c] = "desc"]
          /\ req' = [req EXCEPT ![c] = None]
    /\ UNCHANGED <<mem, probeVars, msi_cap, config_bar_base>>

CallerStep(c) ==
    \/ eon_hdma(c) \/ spin_lock(c) \/ program(c) \/ hdma_start_transfer(c)
    \/ spin_unlock(c)

-----------------------------------------------------------------------------
(* The kthread with the engine it hears from, and the register window.     *)

\* External: the engine of a channel in use reports.
engine_report(x) ==
    /\ \E c \in Callers : pc[c] = "wait" /\ CurCtx(c) = x
    /\ \E v \in Statuses : mem' = [mem EXCEPT ![Reg(x, int_status)] = v]
    /\ UNCHANGED <<probeVars, msi_cap, callerVars, config_bar_base>>

\* The kthread finds a status and clears it (HdmaIrq has the rest); the value
\* that it writes to int_clear, the status, takes effect at once.
hdma_get_intr_status(x) == mem[Reg(x, int_status)]

hdma_clear_intr_status(x) ==
    /\ x \in live /\ hdma_get_intr_status(x) % 8 # 0
    /\ mem' = [mem EXCEPT ![Reg(x, int_status)] = 0, ![Reg(x, int_clear)] = 0]
    /\ UNCHANGED <<probeVars, msi_cap, callerVars, config_bar_base>>

\* Region 1: CONFIG_BAR_SIZE at the window's address in CONFIG_BAR_INDEX.  The
\* mutex keeps the two directions together (see ConfigWindow).
move_window ==
    /\ dpc \notin {"unbound", "iatu"}
    /\ config_bar_base' \in Windows \ {config_bar_base}
    /\ mem' = iatu_map(2, 1, config_bar_base', 16777216)
    /\ UNCHANGED <<probeVars, msi_cap, callerVars>>

-----------------------------------------------------------------------------
Next ==
    \/ eon_irq_init \/ iatu_config \/ hdma_init \/ arm_ctx \/ unbind
    \/ set_affinity \/ move_window
    \/ \E c \in Callers : CallerStep(c)
    \/ \E x \in Ctx : \/ engine_report(x) \/ hdma_clear_intr_status(x)

Spec == Init /\ [][Next]_vars

-----------------------------------------------------------------------------
(* Properties.                                                             *)

\* Registers hold 32 bits.
TypeOK ==
    /\ mem \in [Addrs -> Words]
    /\ dpc \in {"unbound", "iatu", "init", "enable", "bound"}
    /\ pos \in 0 .. 2 * NumHdma - 1
    /\ live \in SUBSET Ctx
    /\ msi_cap \in Messages \cup {None}
    /\ base_addr \in [l : Words, h : Words, data : Words]
    /\ pc \in [Callers -> {"user", "spin", "program", "doorbell", "wait"}]
    /\ req \in [Callers -> Requests \cup {None}]
    /\ phase \in [Callers -> {"desc", "data"}]
    /\ lock \in [Ctx -> Callers \cup {None}]
    /\ config_bar_base \in Windows \cup {0}

\* What the device finds in two registers.
Join(lo, hi) == mem[lo] + Word * mem[hi]

\* From its doorbell to the end of the wait a channel is programmed with
\* the caller's own transfer, all of it, whatever was run on the channel before
\* and whatever other callers, eon_probe() and the kthread write meanwhile.
Programmed ==
    \A c \in Callers : pc[c] = "wait" =>
        /\ mem[R(c, elem_pf)] = 0
        /\ phase[c] = "desc" =>
              /\ mem[R(c, control1)] = 851968 /\ mem[R(c, cycle_off)] = 0
              /\ mem[R(c, int_setup)] = 61
              /\ mem[R(c, xfer_size)] = req[c].desc_size
              /\ Join(R(c, sar_low), R(c, sar_high)) = req[c].desc_addr
              /\ Join(R(c, dar_low), R(c, dar_high)) = req[c].desc_device_addr
        /\ phase[c] = "data" =>
              /\ mem[R(c, control1)] = 3 /\ mem[R(c, cycle_off)] = 2
              /\ mem[R(c, int_setup)] = 24
              /\ Join(R(c, llp_low), R(c, llp_high)) = req[c].desc_device_addr

\* Every channel of a bound device is enabled and reports stop, abort and
\* watermark with the message that the host expects, until the host moves the
\* interrupt: the driver reads the message once.  (A transfer that is started
\* while eon_probe() still runs may find its channel without it.)
Reports(x, lo, hi) ==
    /\ mem[Reg(x, lo)] = msi_cap.lo
    /\ mem[Reg(x, hi)] = IF msi_cap.wide THEN msi_cap.hi ELSE 0

MsiReaches ==
    dpc = "bound" /\ msi_cap # None => \A x \in Ctx :
        /\ mem[Reg(x, en)] = 1
        /\ Reports(x, msi_stop_low, msi_stop_high)
        /\ Reports(x, msi_abort_low, msi_abort_high)
        /\ Reports(x, msi_watermark_low, msi_watermark_high)
        /\ mem[Reg(x, msi_msgd)] = msi_cap.data

\* Wherever the register window is moved, the region of the IRAM stays as
\* iatu_config() made it, the other one agrees with config_bar_base, and no
\* write lands in a register that the driver does not know.
Mapped(n, bar, addr, size) == \A d \in Directions :
    /\ Join(Iatu(n, d, lwr_target), Iatu(n, d, upper_target)) = addr
    /\ mem[Iatu(n, d, ctrl_1)] = size
    /\ mem[Iatu(n, d, ctrl_2)] = ctrl_2_value(bar)

RegionsApart ==
    /\ dpc \notin {"unbound", "iatu"} => Mapped(0, 4, IramBase, 524288)
    /\ config_bar_base # 0 => Mapped(1, 2, config_bar_base, 16777216)
    /\ \A x \in Ctx, o \in Unwritten : mem[Reg(x, o)] = 0

=============================================================================
