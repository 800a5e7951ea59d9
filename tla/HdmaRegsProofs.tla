---------------------------- MODULE HdmaRegsProofs ----------------------------
(***************************************************************************)
(* Proofs about HdmaRegs, for up to 16 channels and any callers, requests, *)
(* windows and messages: first that no two registers share an address,     *)
(* then what each run of writes does and leaves alone, then the invariant. *)
(* Leaves in which large numbers are in sight name SMT: Zenon writes a     *)
(* number in unary.                                                        *)
(***************************************************************************)
EXTENDS HdmaRegs, TLAPS

\* The registers of a channel direction fit its block of hdma.h.
LEMMA OffsetRange == \A o \in Offsets : o \in 0 .. 168
  BY SMT DEF Offsets, Unwritten, en, doorbell, elem_pf, llp_low, llp_high, cycle_off,
     xfer_size, sar_low, sar_high, dar_low, dar_high, control1, int_status,
     int_setup, int_clear, msi_stop_low, msi_stop_high, msi_watermark_low,
     msi_watermark_high, msi_abort_low, msi_abort_high, msi_msgd

\* The addresses of hdma.h: no two contexts share a register, and no two
\* registers of a context are one.
THEOREM ChannelsApart ==
    ASSUME NEW x \in Ctx, NEW y \in Ctx, NEW o \in Offsets, NEW p \in Offsets,
           Reg(x, o) = Reg(y, p)
    PROVE  x = y /\ o = p
<1>1. /\ x[1] \in Int /\ y[1] \in Int
      /\ x[2] \in {"r", "w"} /\ y[2] \in {"r", "w"}
      /\ x = <<x[1], x[2]>> /\ y = <<y[1], y[2]>>
  BY SMT, SizeAssumption DEF Ctx
<1>2. o \in 0 .. 168 /\ p \in 0 .. 168
  BY SMT, OffsetRange
<1>3. x[1] = y[1] /\ x[2] = y[2] /\ o = p
  <2> DEFINE u == IF x[2] = "r" THEN 1024 ELSE 0
             v == IF y[2] = "r" THEN 1024 ELSE 0
  <2>1. 4096 + 2048 * x[1] + u + o = 4096 + 2048 * y[1] + v + p
    BY SMT DEF Reg, HdmaBase, HdmaSize
  <2>2. u \in {0, 1024} /\ v \in {0, 1024}
    BY SMT
  <2>3. u = v => x[2] = y[2]
    BY SMT, <1>1
  <2> HIDE DEF u, v
  <2>4. x[1] = y[1] /\ u = v /\ o = p
    <3> DEFINE i == x[1]
               j == y[1]
    <3>1. /\ i \in Int /\ j \in Int
          /\ 4096 + 2048 * i + u + o = 4096 + 2048 * j + v + p
      BY SMT, <1>1, <2>1
    <3> HIDE DEF i, j
    <3>2. i = j /\ u = v /\ o = p
      BY SMT, <1>2, <2>2, <3>1
    <3> QED BY SMT, <3>2 DEF i, j
  <2> QED BY SMT, <2>3, <2>4
<1> QED BY SMT, <1>1, <1>3

\* With all 16 channels of hdma.h the last register still lies below the first
\* one of the iATU.
THEOREM IatuApart ==
    ASSUME NEW x \in Ctx, NEW o \in Offsets,
           NEW n \in {0, 1}, NEW d \in Directions, NEW p \in IatuOffsets
    PROVE  Reg(x, o) < Iatu(n, d, p)
<1>1. x[1] \in 0 .. 15
  BY SMT, SizeAssumption DEF Ctx
<1>2. o \in 0 .. 168
  BY SMT, OffsetRange
<1>3. p \in 0 .. 24
  BY SMT DEF IatuOffsets, ctrl_1, ctrl_2, lwr_target, upper_target
<1> QED BY SMT, <1>1, <1>2, <1>3 DEF Reg, Iatu, HdmaBase, HdmaSize, IatuBase, IndexOffset

\* Inbound and outbound registers of the two regions (iatu.h) are all different.
THEOREM RegionsDisjoint ==
    ASSUME NEW n \in {0, 1}, NEW d \in Directions, NEW o \in IatuOffsets,
           NEW k \in {0, 1}, NEW e \in Directions, NEW p \in IatuOffsets,
           Iatu(n, d, o) = Iatu(k, e, p)
    PROVE  n = k /\ d = e /\ o = p
<1>1. o \in 0 .. 24 /\ p \in 0 .. 24
  BY SMT DEF IatuOffsets, ctrl_1, ctrl_2, lwr_target, upper_target
<1> QED BY SMT, <1>1 DEF Iatu, IatuBase, IndexOffset, Directions

-----------------------------------------------------------------------------
(* Runs of register writes: what they write, and that they write nothing   *)
(* else.                                                                   *)

\* The contents of the BAR, registers of a context, and writes to W only.
Memory == [Addrs -> Words]
Block(x, S) == {Reg(x, o) : o \in S}
Same(n, m, W) == \A a \in Addrs \ W : n[a] = m[a]

ArmOffsets == {en, msi_stop_low, msi_stop_high, msi_watermark_low, msi_watermark_high,
               msi_abort_low, msi_abort_high, msi_msgd}
ModeOffsets == {elem_pf, cycle_off, control1, int_setup, xfer_size, sar_low, sar_high,
                dar_low, dar_high, llp_low, llp_high}

\* Quotient and remainder.
LEMMA DivMod ==
    ASSUME NEW a \in Nat, NEW b \in Nat \ {0}
    PROVE  /\ a % b \in 0 .. b - 1
           /\ a \div b \in Nat
           /\ a = (a \div b) * b + (a % b)
  BY SMT

\* A 64-bit value is its two registers.
LEMMA TwoWords ==
    ASSUME NEW a \in DoubleWords
    PROVE  Lo(a) \in Words /\ Hi(a) \in Words /\ Lo(a) + Word * Hi(a) = a
<1>1. Word \in Nat \ {0} /\ a \in Nat /\ a \div Word < Word
  BY SMT, SizeAssumption DEF DoubleWords
<1>2. /\ a % Word \in 0 .. Word - 1 /\ a \div Word \in Nat
      /\ a = (a \div Word) * Word + (a % Word)
  BY <1>1, DivMod
<1>3. (a \div Word) % Word = a \div Word
  BY <1>1, <1>2, SMTT(30)
<1>4. (a \div Word) * Word = Word * (a \div Word)
  BY <1>1, <1>2, SMTT(30)
<1> QED BY SMT, <1>1, <1>2, <1>3, <1>4 DEF Lo, Hi, Words

\* The constants that the driver writes fit a register.
LEMMA SmallWords ==
    /\ {0, 1, 2, 3, 24, 61, 127, 851968, 524288, 16777216} \subseteq Words
    /\ \A v \in Words : Lo(v) = v
    /\ \A bar \in {2, 4} : ctrl_2_value(bar) \in Words
    /\ IramBase \in DoubleWords
<1>1. Word \in Nat /\ Word >= 33554432 /\ Word % 4 = 0
  BY SMT, SizeAssumption
<1>2. {0, 1, 2, 3, 24, 61, 127, 851968, 524288, 16777216} \subseteq Words
  BY SMT, <1>1 DEF Words
<1>3. \A v \in Words : Lo(v) = v
  BY SMT, <1>1 DEF Words, Lo
<1>4. \A bar \in {2, 4} : ctrl_2_value(bar) \in Words
  BY SMT, <1>1 DEF Words, ctrl_2_value
<1>5. IramBase \div Word \in Nat /\ IramBase \div Word < Word
  <2> DEFINE q == IramBase \div Word
             m == IramBase % Word
  <2>1. Word \in Nat \ {0} /\ IramBase \in Nat
    BY SMT, <1>1 DEF IramBase
  <2>2. m \in 0 .. Word - 1 /\ q \in Nat /\ IramBase = q * Word + m
    BY <2>1, DivMod
  <2> HIDE DEF q, m
  <2>3. ASSUME q >= Word PROVE FALSE
    <3>1. q - 64 \in Nat /\ q = (q - 64) + 64
      BY SMT, <1>1, <2>2, <2>3
    <3>2. (q - 64) * Word \in Nat /\ q * Word = (q - 64) * Word + 64 * Word
      BY <1>1, <2>2, <3>1, SMTT(30)
    <3> QED BY SMT, <1>1, <2>2, <3>2 DEF IramBase
  <2> QED BY SMT, <1>1, <2>2, <2>3 DEF q
<1> QED BY SMT, <1>2, <1>3, <1>4, <1>5 DEF DoubleWords, IramBase

\* Every register is an address of the BAR; who writes to which offsets.
LEMMA InAddrs ==
    /\ \A x \in Ctx, o \in Offsets : Reg(x, o) \in Addrs
    /\ \A n \in {0, 1}, d \in Directions, o \in IatuOffsets : Iatu(n, d, o) \in Addrs
    /\ ArmOffsets \subseteq Offsets /\ ModeOffsets \subseteq Offsets
    /\ {doorbell, int_status, int_clear} \cup Unwritten \subseteq Offsets
    /\ ArmOffsets \cap ModeOffsets = {}
    /\ ({doorbell, int_status, int_clear} \cup Unwritten) \cap (ArmOffsets \cup ModeOffsets) = {}
    /\ Unwritten \cap {doorbell, int_status, int_clear} = {}
  BY SMT DEF Addrs, Offsets, ArmOffsets, ModeOffsets, Unwritten, en, doorbell, elem_pf,
     llp_low, llp_high, cycle_off,
     xfer_size, sar_low, sar_high, dar_low, dar_high, control1, int_status,
     int_setup, int_clear, msi_stop_low, msi_stop_high, msi_watermark_low,
     msi_watermark_high, msi_abort_low, msi_abort_high, msi_msgd

\* A context is enabled and reports with a message.
ArmedWith(m, x, msg) ==
    /\ m[Reg(x, en)] = 1
    /\ m[Reg(x, msi_stop_low)] = msg.l /\ m[Reg(x, msi_stop_high)] = msg.h
    /\ m[Reg(x, msi_abort_low)] = msg.l /\ m[Reg(x, msi_abort_high)] = msg.h
    /\ m[Reg(x, msi_watermark_low)] = msg.l /\ m[Reg(x, msi_watermark_high)] = msg.h
    /\ m[Reg(x, msi_msgd)] = msg.data

\* hdma_enable() and hdma_msi_interrupt().
LEMMA ArmWrites ==
    ASSUME NEW m \in Memory, NEW x \in Ctx,
           NEW msg \in [l : Words, h : Words, data : Words],
           NEW n, n = hdma_msi_interrupt(hdma_enable(m, x), x, msg)
    PROVE  n \in Memory /\ Same(n, m, Block(x, ArmOffsets)) /\ ArmedWith(n, x, msg)
<1>1. \A o \in ArmOffsets : Reg(x, o) \in Addrs
  BY SMT, InAddrs
<1>2. n \in Memory
  <2>1. msg.l \in Words /\ msg.h \in Words /\ msg.data \in Words /\ 1 \in Words
    BY SMT, SmallWords
  <2>2. hdma_enable(m, x) \in Memory
    BY SMT, <1>1, <2>1 DEF Memory, hdma_enable, ArmOffsets
  <2> QED BY SMT, <1>1, <2>1, <2>2 DEF Memory, hdma_msi_interrupt, ArmOffsets
<1>3. Same(n, m, Block(x, ArmOffsets))
  BY SMT, <1>1 DEF Memory, Same, Block, ArmOffsets, hdma_msi_interrupt, hdma_enable
<1>4. \A o, p \in ArmOffsets : Reg(x, o) = Reg(x, p) => o = p
  BY SMT, ChannelsApart, InAddrs
<1>5. ArmedWith(n, x, msg)
  BY SMT, <1>1, <1>4 DEF Memory, ArmedWith, hdma_msi_interrupt, hdma_enable, ArmOffsets,
     en, msi_stop_low, msi_stop_high, msi_watermark_low,
     msi_watermark_high, msi_abort_low, msi_abort_high, msi_msgd
<1> QED BY SMT, <1>2, <1>3, <1>5

\* A context is programmed to fetch the descriptors, or to move the data.
DescMode(m, x, r) ==
    /\ m[Reg(x, elem_pf)] = 0
    /\ m[Reg(x, control1)] = 851968 /\ m[Reg(x, cycle_off)] = 0
    /\ m[Reg(x, int_setup)] = 61
    /\ m[Reg(x, xfer_size)] = r.desc_size
    /\ m[Reg(x, sar_low)] + Word * m[Reg(x, sar_high)] = r.desc_addr
    /\ m[Reg(x, dar_low)] + Word * m[Reg(x, dar_high)] = r.desc_device_addr
DataMode(m, x, r) ==
    /\ m[Reg(x, elem_pf)] = 0
    /\ m[Reg(x, control1)] = 3 /\ m[Reg(x, cycle_off)] = 2
    /\ m[Reg(x, int_setup)] = 24
    /\ m[Reg(x, llp_low)] + Word * m[Reg(x, llp_high)] = r.desc_device_addr

\* The register writes of tranfer_desc().
LEMMA DescWrites ==
    ASSUME mem \in Memory, NEW x \in Ctx, NEW r \in Requests,
           NEW n, n = ProgramDesc(x, r)
    PROVE  n \in Memory /\ Same(n, mem, Block(x, ModeOffsets)) /\ DescMode(n, x, r)
<1>1. \A o \in ModeOffsets : Reg(x, o) \in Addrs
  BY SMT, InAddrs
<1>2. /\ r.desc_size \in Words /\ r.desc_addr \in DoubleWords
      /\ r.desc_device_addr \in DoubleWords
  BY SMT, RegsAssumption
<1>3. /\ Lo(r.desc_addr) \in Words /\ Hi(r.desc_addr) \in Words
      /\ Lo(r.desc_addr) + Word * Hi(r.desc_addr) = r.desc_addr
      /\ Lo(r.desc_device_addr) \in Words /\ Hi(r.desc_device_addr) \in Words
      /\ Lo(r.desc_device_addr) + Word * Hi(r.desc_device_addr) = r.desc_device_addr
      /\ Lo(r.desc_size) = r.desc_size
  BY SMT, <1>2, TwoWords, SmallWords
<1> USE DEF ProgramDesc, hdma_set_attr, hdma_enable_intr, set_xfer_data
<1>4. n \in Memory
  BY SMT, <1>1, <1>2, <1>3, SmallWords DEF Memory, ModeOffsets
<1>5. Same(n, mem, Block(x, ModeOffsets))
  BY SMT, <1>1 DEF Memory, Same, Block, ModeOffsets
<1>6. \A o, p \in ModeOffsets : Reg(x, o) = Reg(x, p) => o = p
  BY SMT, ChannelsApart, InAddrs
<1>7. DescMode(n, x, r)
  BY SMT, <1>1, <1>3, <1>6 DEF Memory, DescMode, ModeOffsets, elem_pf, cycle_off,
     control1, int_setup, xfer_size, sar_low, sar_high, dar_low, dar_high, llp_low, llp_high
<1> QED BY SMT, <1>4, <1>5, <1>7

\* Those of dma_llmode_transmit().
LEMMA DataWrites ==
    ASSUME mem \in Memory, NEW x \in Ctx, NEW r \in Requests,
           NEW n, n = ProgramData(x, r)
    PROVE  n \in Memory /\ Same(n, mem, Block(x, ModeOffsets)) /\ DataMode(n, x, r)
<1>1. \A o \in ModeOffsets : Reg(x, o) \in Addrs
  BY SMT, InAddrs
<1>2. r.desc_device_addr \in DoubleWords
  BY SMT, RegsAssumption
<1>3. /\ Lo(r.desc_device_addr) \in Words /\ Hi(r.desc_device_addr) \in Words
      /\ Lo(r.desc_device_addr) + Word * Hi(r.desc_device_addr) = r.desc_device_addr
  BY SMT, <1>2, TwoWords
<1> USE DEF ProgramData, hdma_set_attr, hdma_enable_intr, hdma_set_desc_pointer
<1>4. n \in Memory
  BY SMT, <1>1, <1>3, SmallWords DEF Memory, ModeOffsets
<1>5. Same(n, mem, Block(x, ModeOffsets))
  BY SMT, <1>1 DEF Memory, Same, Block, ModeOffsets
<1>6. \A o, p \in ModeOffsets : Reg(x, o) = Reg(x, p) => o = p
  BY SMT, ChannelsApart, InAddrs
<1>7. DataMode(n, x, r)
  BY SMT, <1>1, <1>3, <1>6 DEF Memory, DataMode, ModeOffsets, elem_pf, cycle_off,
     control1, int_setup, xfer_size, sar_low, sar_high, dar_low, dar_high, llp_low, llp_high
<1> QED BY SMT, <1>4, <1>5, <1>7

\* The registers of a region, and what they map.
Region(n) == {Iatu(n, d, o) : d \in Directions, o \in IatuOffsets}
MappedTo(m, n, bar, addr, size) == \A d \in Directions :
    /\ m[Iatu(n, d, lwr_target)] + Word * m[Iatu(n, d, upper_target)] = addr
    /\ m[Iatu(n, d, ctrl_1)] = size
    /\ m[Iatu(n, d, ctrl_2)] = ctrl_2_value(bar)

\* iatu_map_inbound_bar() and iatu_map_outbound_bar() of a region.
LEMMA IatuWrites ==
    ASSUME mem \in Memory, NEW n \in {0, 1}, NEW bar \in {2, 4},
           NEW addr \in DoubleWords, NEW size \in {524288, 16777216},
           NEW k, k = iatu_map(bar, n, addr, size)
    PROVE  k \in Memory /\ Same(k, mem, Region(n)) /\ MappedTo(k, n, bar, addr, size)
<1>1. \A d \in Directions, o \in IatuOffsets : Iatu(n, d, o) \in Addrs
  BY SMT, InAddrs
<1>2. /\ Lo(addr) \in Words /\ Hi(addr) \in Words /\ Lo(addr) + Word * Hi(addr) = addr
      /\ size % 33554432 = size /\ size \in Words /\ ~(size > 16777216)
      /\ ctrl_2_value(bar) \in Words
  BY SMT, TwoWords, SmallWords
<1> USE DEF iatu_map, iatu_map_bar, Directions, IatuOffsets
<1>3. k \in Memory
  BY SMT, <1>1, <1>2 DEF Memory
<1>4. Same(k, mem, Region(n))
  BY SMT, <1>1, <1>2 DEF Memory, Same, Region
<1>5. \A d, e \in Directions, o, p \in IatuOffsets :
          Iatu(n, d, o) = Iatu(n, e, p) => d = e /\ o = p
  BY SMT, RegionsDisjoint
<1>6. MappedTo(k, n, bar, addr, size)
  BY SMT, <1>1, <1>2, <1>5 DEF Memory, MappedTo, lwr_target, upper_target, ctrl_1, ctrl_2
<1> QED BY SMT, <1>3, <1>4, <1>6

-----------------------------------------------------------------------------
(* Writes elsewhere.                                                       *)

IramMapped(m) == MappedTo(m, 0, 4, IramBase, 524288)
WindowMapped(m, base) == MappedTo(m, 1, 2, base, 16777216)

\* Blocks of different contexts, or of different registers, do not meet.
LEMMA BlocksApart ==
    ASSUME NEW x \in Ctx, NEW y \in Ctx, NEW S \in SUBSET Offsets, NEW T \in SUBSET Offsets,
           x # y \/ S \cap T = {}
    PROVE  Block(x, S) \cap Block(y, T) = {}
<1>1. \A o \in S, p \in T : Reg(x, o) # Reg(y, p)
  <2> SUFFICES ASSUME NEW o \in S, NEW p \in T, Reg(x, o) = Reg(y, p) PROVE FALSE
    OBVIOUS
  <2>1. x = y /\ o = p
    BY ChannelsApart
  <2> QED BY <2>1
<1> QED BY <1>1 DEF Block

\* Nor do channels and the iATU.
LEMMA BlockRegionApart ==
    ASSUME NEW x \in Ctx, NEW S \in SUBSET Offsets, NEW n \in {0, 1}
    PROVE  Block(x, S) \cap Region(n) = {}
<1>1. \A o \in S, d \in Directions, p \in IatuOffsets : Reg(x, o) # Iatu(n, d, p)
  <2> SUFFICES ASSUME NEW o \in S, NEW d \in Directions, NEW p \in IatuOffsets,
                      Reg(x, o) = Iatu(n, d, p)
               PROVE FALSE
    OBVIOUS
  <2>1. Reg(x, o) < Iatu(n, d, p)
    BY IatuApart
  <2>2. Reg(x, o) \in Int
    <3>1. x[1] \in Int /\ o \in Int
      BY SMT, OffsetRange, SizeAssumption DEF Ctx
    <3> QED BY SMT, <3>1 DEF Reg, HdmaBase, HdmaSize
  <2> QED BY SMT, <2>1, <2>2
<1> QED BY <1>1 DEF Block, Region

\* Nor do the two regions.
LEMMA TwoRegionsApart == Region(0) \cap Region(1) = {}
<1>1. \A d, e \in Directions, o, p \in IatuOffsets : Iatu(0, d, o) # Iatu(1, e, p)
  BY SMT, RegionsDisjoint
<1> QED BY <1>1 DEF Region

\* Writes outside a block leave its registers alone,
LEMMA KeepReg ==
    ASSUME NEW m, NEW n, NEW W, Same(n, m, W),
           NEW x \in Ctx, NEW S \in SUBSET Offsets, Block(x, S) \cap W = {}
    PROVE  \A o \in S : n[Reg(x, o)] = m[Reg(x, o)]
  BY InAddrs DEF Same, Block

\* hence the transfer that a context is programmed with,
LEMMA KeepMode ==
    ASSUME NEW m, NEW n, NEW W, Same(n, m, W),
           NEW x \in Ctx, NEW r, Block(x, ModeOffsets) \cap W = {}
    PROVE  (DescMode(m, x, r) => DescMode(n, x, r)) /\ (DataMode(m, x, r) => DataMode(n, x, r))
<1>1. \A o \in ModeOffsets : n[Reg(x, o)] = m[Reg(x, o)]
  BY KeepReg, InAddrs
<1> QED BY SMT, <1>1 DEF ModeOffsets, DescMode, DataMode

\* the message that it knows,
LEMMA KeepArmed ==
    ASSUME NEW m, NEW n, NEW W, Same(n, m, W),
           NEW x \in Ctx, NEW msg, Block(x, ArmOffsets) \cap W = {}, ArmedWith(m, x, msg)
    PROVE  ArmedWith(n, x, msg)
<1>1. \A o \in ArmOffsets : n[Reg(x, o)] = m[Reg(x, o)]
  BY KeepReg, InAddrs
<1> QED BY SMT, <1>1 DEF ArmOffsets, ArmedWith

\* and what a region maps.
LEMMA KeepMapped ==
    ASSUME NEW m, NEW n, NEW W, Same(n, m, W),
           NEW k \in {0, 1}, NEW bar, NEW addr, NEW size, Region(k) \cap W = {},
           MappedTo(m, k, bar, addr, size)
    PROVE  MappedTo(n, k, bar, addr, size)
<1>1. \A d \in Directions, o \in IatuOffsets : n[Iatu(k, d, o)] = m[Iatu(k, d, o)]
  BY InAddrs DEF Same, Region
<1> QED BY SMT, <1>1 DEF IatuOffsets, MappedTo

-----------------------------------------------------------------------------
(* The contexts in the order of the loops, and the message.                *)

\* The loops of eon_probe() meet every context once.
LEMMA LoopContexts ==
    /\ \A p \in 0 .. LastPos : CtxAt(p) \in Ctx
    /\ \A p, q \in 0 .. LastPos : CtxAt(p) = CtxAt(q) => p = q
    /\ \A x \in Ctx : \E p \in 0 .. LastPos : CtxAt(p) = x
<1> USE SizeAssumption
<1>1. \A p \in 0 .. LastPos : CtxAt(p) \in Ctx
  BY SMT DEF CtxAt, Ctx, LastPos
<1>2. ASSUME NEW p \in 0 .. LastPos, NEW q \in 0 .. LastPos, CtxAt(p) = CtxAt(q)
      PROVE  p = q
  BY SMT, <1>2 DEF CtxAt, LastPos
<1>3. ASSUME NEW x \in Ctx PROVE \E p \in 0 .. LastPos : CtxAt(p) = x
  <2>1. PICK i \in 0 .. NumHdma - 1, d \in {"r", "w"} : x = <<i, d>>
    BY SMT DEF Ctx
  <2> DEFINE p == IF d = "r" THEN i ELSE i + NumHdma
  <2>2. p \in 0 .. LastPos
    BY SMT DEF LastPos
  <2>3. CtxAt(p) = x
    BY SMT, <2>1 DEF CtxAt
  <2> QED BY <2>2, <2>3
<1> QED BY <1>1, <1>2, <1>3

\* pci_msi_setup() reads back the message that the host has assigned.
LEMMA ReadsBack ==
    ASSUME NEW m \in Messages
    PROVE  /\ pci_msi_setup(m) \in [l : Words, h : Words, data : Words]
           /\ pci_msi_setup(m).l = m.lo
           /\ pci_msi_setup(m).h = IF m.wide THEN m.hi ELSE 0
           /\ pci_msi_setup(m).data = m.data
<1>1. m.lo \in Words /\ m.hi \in Words /\ m.data \in MsgData
  BY MessageAssumption
<1>0. m.wide \in BOOLEAN
  BY MessageAssumption
<1>2. 0 \in Words /\ m.data \in Words
  <2>1. 0 \in Words /\ MsgData \subseteq Words
    BY SMT, SizeAssumption DEF Words, MsgData
  <2> QED BY <1>1, <2>1
<1>3. Capability(m)[4] = m.lo
  BY DEF Capability
<1>4. (m.wide => Capability(m)[8] = m.hi) /\ (~m.wide => Capability(m)[8] = m.data)
  BY <1>0 DEF Capability
<1>5. m.wide => Capability(m)[12] = m.data
  BY <1>0 DEF Capability
<1>6. Capability(m)[DataOffset(m)] = m.data
  BY <1>0, <1>4, <1>5 DEF DataOffset
<1>7. m.data % 65536 = m.data
  <2> DEFINE v == m.data
  <2>1. v \in MsgData
    BY <1>1
  <2> HIDE DEF v
  <2>2. v \in Int /\ 0 <= v /\ v < 65536
    BY SMT, <2>1 DEF MsgData
  <2>3. v % 65536 = v
    BY SMT, <2>2
  <2> QED BY SMT, <2>3 DEF v
<1>8. pci_msi_setup(m) = [l |-> m.lo, h |-> IF m.wide THEN m.hi ELSE 0, data |-> m.data]
  BY SMT, <1>3, <1>4, <1>6, <1>7 DEF pci_msi_setup
<1> QED BY <1>0, <1>1, <1>2, <1>8

-----------------------------------------------------------------------------
(* The inductive invariant.                                                *)

Holds(c) == pc[c] \in {"program", "doorbell", "wait"}

\* Who programs a context or waits on it owns its lock.
LockInv ==
    /\ \A c \in Callers : pc[c] # "user" => req[c] \in Requests
    /\ \A c \in Callers : Holds(c) => lock[CurCtx(c)] = c

\* The registers of a context are its owner's from the programming on.
ModeInv ==
    \A c \in Callers : pc[c] \in {"doorbell", "wait"} =>
        /\ phase[c] = "desc" => DescMode(mem, CurCtx(c), req[c])
        /\ phase[c] = "data" => DataMode(mem, CurCtx(c), req[c])

\* The loop of eon_probe() leaves behind contexts that know the message.
Passed(p) == dpc = "bound" \/ (dpc \in {"init", "enable"} /\ p < pos)
ArmInv ==
    /\ dpc \in {"unbound", "iatu"} => pos = 0
    /\ msi_cap # None => base_addr = pci_msi_setup(msi_cap)
    /\ \A p \in 0 .. LastPos : Passed(p) => ArmedWith(mem, CtxAt(p), base_addr)

RegionInv ==
    /\ dpc \notin {"unbound", "iatu"} => IramMapped(mem)
    /\ config_bar_base # 0 => WindowMapped(mem, config_bar_base)
    /\ \A x \in Ctx, o \in Unwritten : mem[Reg(x, o)] = 0

RegsInv == TypeOK /\ LockInv /\ ModeInv /\ ArmInv /\ RegionInv

\* The context of a call is one of the device's.
LEMMA CurCtxInCtx ==
    ASSUME LockInv, NEW c \in Callers, pc[c] # "user"
    PROVE  CurCtx(c) \in Ctx
<1>1. req[c].id \in 0 .. NumHdma - 1
  <2>1. req[c] \in Requests
    BY DEF LockInv
  <2> QED BY <2>1, RegsAssumption
<1>2. (IF phase[c] = "data" /\ req[c].op = "out" THEN "w" ELSE "r") \in {"r", "w"}
  OBVIOUS
<1> QED BY <1>1, <1>2 DEF CurCtx, Ctx

\* Two callers never hold one context.
LEMMA HoldersApart ==
    ASSUME LockInv, NEW c \in Callers, NEW d \in Callers, c # d, Holds(c), Holds(d)
    PROVE  CurCtx(c) # CurCtx(d)
  BY DEF LockInv

\* It holds before the first eon_probe().
LEMMA InitInv == Init => RegsInv
<1> SUFFICES ASSUME Init PROVE RegsInv
  OBVIOUS
<1>0. 0 \in Words
  BY SmallWords
<1>1. TypeOK
  <2>1. mem \in [Addrs -> Words]
    BY <1>0 DEF Init
  <2>2. pos \in 0 .. 2 * NumHdma - 1
    BY SMT, SizeAssumption DEF Init
  <2>3. base_addr \in [l : Words, h : Words, data : Words]
    BY <1>0 DEF Init, NoMessage
  <2> QED BY <2>1, <2>2, <2>3 DEF Init, TypeOK
<1>2. LockInv /\ ModeInv
  BY DEF Init, LockInv, ModeInv, Holds
<1>3. ArmInv
  BY DEF Init, ArmInv, Passed
<1>4. RegionInv
  <2>1. \A x \in Ctx, o \in Unwritten : Reg(x, o) \in Addrs
    BY InAddrs
  <2> QED BY <2>1 DEF Init, RegionInv
<1> QED BY <1>1, <1>2, <1>3, <1>4 DEF RegsInv

-----------------------------------------------------------------------------
(* What each action does to the registers.                                 *)

\* A single register write.
LEMMA Write1 ==
    ASSUME NEW m \in Memory, NEW x \in Ctx, NEW o \in Offsets, NEW v \in Words
    PROVE  /\ [m EXCEPT ![Reg(x, o)] = v] \in Memory
           /\ Same([m EXCEPT ![Reg(x, o)] = v], m, Block(x, {o}))
<1>1. Reg(x, o) \in Addrs
  BY InAddrs
<1> QED BY <1>1 DEF Memory, Same, Block

\* The doorbell, the engine's report and the clear stay off everything that the
\* invariant speaks of.
Quiet == {doorbell, int_status, int_clear}

\* Writes to a part are writes to the whole.
LEMMA SameSubset ==
    ASSUME NEW m, NEW n, NEW V, NEW W, V \subseteq W, Same(n, m, V)
    PROVE  Same(n, m, W)
  BY DEF Same

\* hdma_start_transfer(), the engine and the kthread.
LEMMA QuietWrites ==
    ASSUME TypeOK, LockInv,
           \/ \E c \in Callers : hdma_start_transfer(c)
           \/ \E x \in Ctx : engine_report(x) \/ hdma_clear_intr_status(x)
    PROVE  mem' \in Memory /\ \E x \in Ctx : Same(mem', mem, Block(x, Quiet))
<1>0. mem \in Memory /\ 0 \in Words /\ 1 \in Words /\ Quiet \subseteq Offsets
  <2>1. 0 \in Words /\ 1 \in Words
    BY SMT, SizeAssumption DEF Words
  <2>2. mem \in Memory
    BY DEF TypeOK, Memory
  <2> QED BY <2>1, <2>2, InAddrs DEF Quiet
<1>Q. \A x, o : o \in Quiet => Block(x, {o}) \subseteq Block(x, Quiet)
  BY DEF Block
<1>1. ASSUME NEW c \in Callers, hdma_start_transfer(c)
      PROVE  mem' \in Memory /\ \E x \in Ctx : Same(mem', mem, Block(x, Quiet))
  <2>1. CurCtx(c) \in Ctx
    BY <1>1, CurCtxInCtx DEF hdma_start_transfer, Goto
  <2>2. CASE phase[c] = "desc" \/ req[c].enable
    <3>1. mem' = [mem EXCEPT ![Reg(CurCtx(c), doorbell)] = 1]
      BY <1>1, <2>2 DEF hdma_start_transfer, R
    <3>2. mem' \in Memory /\ Same(mem', mem, Block(CurCtx(c), {doorbell}))
      BY <1>0, <2>1, <3>1, Write1 DEF Quiet
    <3>3. Same(mem', mem, Block(CurCtx(c), Quiet))
      BY <1>Q, <3>2, SameSubset DEF Quiet
    <3> QED BY <2>1, <3>2, <3>3
  <2>3. CASE ~(phase[c] = "desc" \/ req[c].enable)
    BY <1>0, <1>1, <2>1, <2>3 DEF hdma_start_transfer, Same
  <2> QED BY <2>2, <2>3
<1>2. ASSUME NEW x \in Ctx, engine_report(x)
      PROVE  mem' \in Memory /\ Same(mem', mem, Block(x, Quiet))
  <2>1. PICK v \in Statuses : mem' = [mem EXCEPT ![Reg(x, int_status)] = v]
    BY <1>2 DEF engine_report
  <2>2. v \in Words
    BY RegsAssumption
  <2>3. mem' \in Memory /\ Same(mem', mem, Block(x, {int_status}))
    BY <1>0, <2>1, <2>2, Write1 DEF Quiet
  <2> QED BY <1>Q, <2>3, SameSubset DEF Quiet
<1>3. ASSUME NEW x \in Ctx, hdma_clear_intr_status(x)
      PROVE  mem' \in Memory /\ Same(mem', mem, Block(x, Quiet))
  <2>1. Reg(x, int_status) \in Addrs /\ Reg(x, int_clear) \in Addrs
    BY <1>0, InAddrs DEF Quiet
  <2>2. mem' = [mem EXCEPT ![Reg(x, int_status)] = 0, ![Reg(x, int_clear)] = 0]
    BY <1>3 DEF hdma_clear_intr_status
  <2>3. mem' \in Memory
    BY SMT, <1>0, <2>1, <2>2 DEF Memory
  <2>4. Same(mem', mem, Block(x, Quiet))
    BY SMT, <1>0, <2>1, <2>2 DEF Memory, Same, Block, Quiet
  <2> QED BY <2>3, <2>4
<1> QED BY <1>1, <1>2, <1>3

\* iatu_config().
LEMMA IatuConfigWrites ==
    ASSUME TypeOK, iatu_config
    PROVE  mem' \in Memory /\ Same(mem', mem, Region(0)) /\ IramMapped(mem')
<1>1. mem \in Memory /\ IramBase \in DoubleWords
  BY SmallWords DEF TypeOK, Memory
<1>2. mem' = iatu_map(4, 0, IramBase, 524288)
  BY SMT DEF iatu_config
<1> QED BY SMT, <1>1, <1>2, IatuWrites DEF IramMapped

\* The move of the register window.
LEMMA MoveWindowWrites ==
    ASSUME TypeOK, move_window
    PROVE  /\ mem' \in Memory /\ Same(mem', mem, Region(1))
           /\ WindowMapped(mem', config_bar_base')
           /\ config_bar_base' \in Windows
<1>1. mem \in Memory /\ config_bar_base' \in Windows /\ config_bar_base' \in DoubleWords
  <2>1. mem \in Memory
    BY DEF TypeOK, Memory
  <2>2. config_bar_base' \in Windows
    BY SMT DEF move_window
  <2> QED BY <2>1, <2>2, RegsAssumption
<1>2. mem' = iatu_map(2, 1, config_bar_base', 16777216)
  BY SMT DEF move_window
<1> QED BY SMT, <1>1, <1>2, IatuWrites DEF WindowMapped

\* A round of the loop of eon_probe().
LEMMA ArmCtxWrites ==
    ASSUME TypeOK, arm_ctx
    PROVE  /\ mem' \in Memory /\ Same(mem', mem, Block(CtxAt(pos), ArmOffsets))
           /\ ArmedWith(mem', CtxAt(pos), base_addr)
           /\ CtxAt(pos) \in Ctx /\ pos \in 0 .. LastPos
<1>1. mem \in Memory /\ base_addr \in [l : Words, h : Words, data : Words]
  BY DEF TypeOK, Memory
<1>2. pos \in 0 .. LastPos /\ CtxAt(pos) \in Ctx
  BY LoopContexts DEF TypeOK, LastPos
<1>3. mem' = hdma_msi_interrupt(hdma_enable(mem, CtxAt(pos)), CtxAt(pos), base_addr)
  BY DEF arm_ctx
<1> QED BY <1>1, <1>2, <1>3, ArmWrites

ModeAt(c) ==
    /\ phase[c] = "desc" => DescMode(mem, CurCtx(c), req[c])
    /\ phase[c] = "data" => DataMode(mem, CurCtx(c), req[c])

\* A caller programs its context.
LEMMA ProgramWrites ==
    ASSUME TypeOK, LockInv, NEW c \in Callers, program(c)
    PROVE  /\ mem' \in Memory /\ Same(mem', mem, Block(CurCtx(c), ModeOffsets))
           /\ ModeAt(c)' /\ CurCtx(c) \in Ctx
<1>1. mem \in Memory /\ CurCtx(c) \in Ctx /\ req[c] \in Requests
  <2>1. pc[c] # "user"
    BY DEF program, Goto
  <2> QED BY <2>1, CurCtxInCtx DEF TypeOK, Memory, LockInv
<1>2. phase' = phase /\ req' = req /\ CurCtx(c)' = CurCtx(c)
  BY DEF program, CurCtx
<1>3. CASE phase[c] = "desc"
  <2>1. mem' = ProgramDesc(CurCtx(c), req[c])
    BY <1>3 DEF program
  <2>2. /\ mem' \in Memory /\ Same(mem', mem, Block(CurCtx(c), ModeOffsets))
        /\ DescMode(mem', CurCtx(c), req[c])
    BY <1>1, <2>1, DescWrites
  <2> QED BY <1>1, <1>2, <1>3, <2>2 DEF ModeAt
<1>4. CASE phase[c] # "desc"
  <2>1. mem' = ProgramData(CurCtx(c), req[c])
    BY <1>4 DEF program
  <2>2. /\ mem' \in Memory /\ Same(mem', mem, Block(CurCtx(c), ModeOffsets))
        /\ DataMode(mem', CurCtx(c), req[c])
    BY <1>1, <2>1, DataWrites
  <2> QED BY <1>1, <1>2, <1>4, <2>2 DEF ModeAt
<1> QED BY <1>3, <1>4

-----------------------------------------------------------------------------
(* One conjunct of the invariant after the other.                          *)

\* Types.
LEMMA TypeStep == TypeOK /\ LockInv /\ Next => TypeOK'
<1> SUFFICES ASSUME TypeOK, LockInv, Next PROVE TypeOK'
  OBVIOUS
<1>m. mem \in Memory
  BY DEF TypeOK, Memory
<1>z. 0 \in Words
  BY SmallWords
<1>1. CASE eon_irq_init
  <2>1. \A m \in Messages : pci_msi_setup(m) \in [l : Words, h : Words, data : Words]
    BY ReadsBack
  <2> QED BY <1>1, <2>1 DEF TypeOK, eon_irq_init, Dpc, callerVars
<1>2. CASE iatu_config
  <2>1. mem' \in Memory
    BY <1>2, IatuConfigWrites
  <2>2. /\ dpc' = "init" /\ UNCHANGED <<pos, live, base_addr, msi_cap, config_bar_base>>
        /\ UNCHANGED callerVars
    BY SMT, <1>2 DEF iatu_config, Dpc
  <2> QED BY <2>1, <2>2 DEF TypeOK, callerVars, Memory
<1>3. CASE hdma_init
  <2>1. CtxAt(pos) \in Ctx
    BY LoopContexts DEF TypeOK, LastPos
  <2> QED BY <1>3, <2>1 DEF TypeOK, hdma_init, Dpc, callerVars
<1>4. CASE arm_ctx
  <2>1. mem' \in Memory
    BY <1>4, ArmCtxWrites
  <2>2. pos' \in 0 .. 2 * NumHdma - 1
    BY SMT, <1>4, SizeAssumption DEF TypeOK, arm_ctx, LastPos
  <2>3. dpc' \in {"init", "bound"}
    BY <1>4 DEF arm_ctx, Dpc
  <2> QED BY <1>4, <2>1, <2>2, <2>3 DEF TypeOK, arm_ctx, callerVars, Memory
<1>5. CASE unbind
  <2>1. mem' \in Memory
    BY <1>5, <1>m, <1>z DEF unbind, Memory
  <2>2. pos' \in 0 .. 2 * NumHdma - 1
    BY SMT, <1>5, SizeAssumption DEF unbind
  <2> QED BY <1>5, <2>1, <2>2 DEF TypeOK, unbind, callerVars, Memory
<1>6. CASE set_affinity
  BY <1>6 DEF TypeOK, set_affinity, callerVars, probeVars
<1>7. CASE move_window
  <2>1. mem' \in Memory /\ config_bar_base' \in Windows
    BY <1>7, MoveWindowWrites
  <2>2. UNCHANGED <<probeVars, msi_cap, callerVars>>
    BY SMT, <1>7 DEF move_window, probeVars, callerVars
  <2> QED BY <2>1, <2>2 DEF TypeOK, callerVars, probeVars, Memory
<1>8. ASSUME NEW c \in Callers, eon_hdma(c) PROVE TypeOK'
  <2>1. req' \in [Callers -> Requests \cup {None}]
    BY <1>8 DEF TypeOK, eon_hdma
  <2>2. pc' \in [Callers -> {"user", "spin", "program", "doorbell", "wait"}]
    BY <1>8 DEF TypeOK, eon_hdma, Goto
  <2> QED BY <1>8, <2>1, <2>2 DEF TypeOK, eon_hdma, probeVars
<1>9. ASSUME NEW c \in Callers, spin_lock(c) PROVE TypeOK'
  <2>1. lock' \in [Ctx -> Callers \cup {None}]
    BY <1>9 DEF TypeOK, spin_lock
  <2>2. pc' \in [Callers -> {"user", "spin", "program", "doorbell", "wait"}]
    BY <1>9 DEF TypeOK, spin_lock, Goto
  <2> QED BY <1>9, <2>1, <2>2 DEF TypeOK, spin_lock, probeVars
<1>10. ASSUME NEW c \in Callers, program(c) PROVE TypeOK'
  <2>1. mem' \in Memory
    BY <1>10, ProgramWrites
  <2>2. pc' \in [Callers -> {"user", "spin", "program", "doorbell", "wait"}]
    BY <1>10 DEF TypeOK, program, Goto
  <2> QED BY <1>10, <2>1, <2>2 DEF TypeOK, program, probeVars, Memory
<1>11. ASSUME NEW c \in Callers, hdma_start_transfer(c) PROVE TypeOK'
  <2>1. mem' \in Memory
    BY <1>11, QuietWrites
  <2>2. pc' \in [Callers -> {"user", "spin", "program", "doorbell", "wait"}]
    BY <1>11 DEF TypeOK, hdma_start_transfer, Goto
  <2> QED BY <1>11, <2>1, <2>2 DEF TypeOK, hdma_start_transfer, probeVars, Memory
<1>12. ASSUME NEW c \in Callers, spin_unlock(c) PROVE TypeOK'
  <2>1. lock' \in [Ctx -> Callers \cup {None}]
    BY <1>12 DEF TypeOK, spin_unlock
  <2>2. pc' \in [Callers -> {"user", "spin", "program", "doorbell", "wait"}]
    BY <1>12 DEF TypeOK, spin_unlock
  <2>3. phase' \in [Callers -> {"desc", "data"}]
    BY <1>12 DEF TypeOK, spin_unlock
  <2>4. req' \in [Callers -> Requests \cup {None}]
    BY <1>12 DEF TypeOK, spin_unlock
  <2> QED BY <1>12, <2>1, <2>2, <2>3, <2>4 DEF TypeOK, spin_unlock, probeVars
<1>13. ASSUME NEW x \in Ctx, engine_report(x) PROVE TypeOK'
  <2>1. mem' \in Memory
    BY <1>13, QuietWrites
  <2> QED BY <1>13, <2>1 DEF TypeOK, engine_report, probeVars, callerVars, Memory
<1>14. ASSUME NEW x \in Ctx, hdma_clear_intr_status(x) PROVE TypeOK'
  <2>1. mem' \in Memory
    BY <1>14, QuietWrites
  <2> QED BY <1>14, <2>1 DEF TypeOK, hdma_clear_intr_status, probeVars, callerVars, Memory
<1> QED BY <1>1, <1>2, <1>3, <1>4, <1>5, <1>6, <1>7, <1>8, <1>9, <1>10, <1>11, <1>12,
           <1>13, <1>14 DEF Next, CallerStep

\* Lock and unlock keep owners and contexts together.
LEMMA LockStep == TypeOK /\ LockInv /\ Next => LockInv'
<1> SUFFICES ASSUME TypeOK, LockInv, Next PROVE LockInv'
  OBVIOUS
<1>1. CASE UNCHANGED callerVars
  BY <1>1 DEF LockInv, callerVars, Holds, CurCtx
<1>2. ASSUME NEW c \in Callers, eon_hdma(c) PROVE LockInv'
  <2>1. PICK r \in Requests : req' = [req EXCEPT ![c] = r]
    BY <1>2 DEF eon_hdma
  <2>2. ASSUME NEW d \in Callers, d # c
        PROVE  req'[d] = req[d] /\ pc'[d] = pc[d] /\ CurCtx(d)' = CurCtx(d)
    BY <1>2, <2>1, <2>2 DEF TypeOK, eon_hdma, Goto, CurCtx
  <2>3. req'[c] = r /\ pc'[c] = "spin" /\ lock' = lock
    BY <1>2, <2>1 DEF TypeOK, eon_hdma, Goto
  <2> QED BY <2>2, <2>3 DEF LockInv, Holds
<1>3. ASSUME NEW c \in Callers, spin_lock(c) PROVE LockInv'
  <2>1. /\ \A d \in Callers : CurCtx(d)' = CurCtx(d) /\ req'[d] = req[d]
        /\ \A d \in Callers \ {c} : pc'[d] = pc[d]
        /\ pc[c] = "spin" /\ lock[CurCtx(c)] = None
        /\ lock' = [lock EXCEPT ![CurCtx(c)] = c]
    BY <1>3 DEF TypeOK, spin_lock, Goto, CurCtx, LockFree
  <2>2. CurCtx(c) \in Ctx
    BY <2>1, CurCtxInCtx
  <2>3. ASSUME NEW d \in Callers, d # c, Holds(d)' PROVE lock'[CurCtx(d)'] = d
    <3>1. Holds(d) /\ pc[d] # "user"
      BY <2>1, <2>3 DEF Holds
    <3>2. lock[CurCtx(d)] = d /\ CurCtx(d) \in Ctx
      BY <3>1, CurCtxInCtx DEF LockInv
    <3>3. CurCtx(d) # CurCtx(c)
      BY <2>1, <3>2, RegsAssumption
    <3> QED BY <2>1, <2>2, <3>2, <3>3 DEF TypeOK
  <2>4. lock'[CurCtx(c)'] = c
    BY <2>1, <2>2 DEF TypeOK
  <2>5. \A d \in Callers : pc'[d] # "user" => req'[d] \in Requests
    BY <2>1 DEF LockInv
  <2> QED BY <2>3, <2>4, <2>5 DEF LockInv
<1>4. ASSUME NEW c \in Callers, program(c) \/ hdma_start_transfer(c) PROVE LockInv'
  <2>1. /\ \A d \in Callers : CurCtx(d)' = CurCtx(d)
        /\ req' = req /\ lock' = lock
        /\ \A d \in Callers \ {c} : pc'[d] = pc[d]
        /\ Holds(c)
    BY <1>4 DEF TypeOK, program, hdma_start_transfer, Goto, CurCtx, Holds
  <2>2. \A d \in Callers : Holds(d)' => Holds(d)
    BY <2>1 DEF Holds
  <2>3. \A d \in Callers : pc'[d] # "user" => pc[d] # "user"
    BY <2>1 DEF Holds
  <2> QED BY <2>1, <2>2, <2>3 DEF LockInv
<1>5. ASSUME NEW c \in Callers, spin_unlock(c) PROVE LockInv'
  <2>1. Holds(c) /\ pc[c] # "user" /\ CurCtx(c) \in Ctx /\ req[c] \in Requests
    <3>1. Holds(c) /\ pc[c] # "user"
      BY <1>5 DEF spin_unlock, Holds
    <3> QED BY <3>1, CurCtxInCtx DEF LockInv
  <2>2. /\ \A d \in Callers \ {c} :
              pc'[d] = pc[d] /\ req'[d] = req[d] /\ CurCtx(d)' = CurCtx(d)
        /\ lock' = [lock EXCEPT ![CurCtx(c)] = None]
    BY <1>5 DEF TypeOK, spin_unlock, CurCtx
  <2>3. ~Holds(c)'
    BY <1>5 DEF TypeOK, spin_unlock, Holds
  <2>4. pc'[c] # "user" => req'[c] = req[c]
    BY <1>5 DEF TypeOK, spin_unlock
  <2>5. ASSUME NEW d \in Callers, Holds(d)' PROVE lock'[CurCtx(d)'] = d
    <3>1. d # c
      BY <2>3, <2>5
    <3>2. Holds(d) /\ pc[d] # "user"
      BY <2>2, <2>5, <3>1 DEF Holds
    <3>3. CurCtx(d) # CurCtx(c) /\ CurCtx(d) \in Ctx
      BY <2>1, <3>1, <3>2, HoldersApart, CurCtxInCtx
    <3> QED BY <2>1, <2>2, <3>1, <3>2, <3>3 DEF TypeOK, LockInv
  <2>6. \A d \in Callers : pc'[d] # "user" => req'[d] \in Requests
    BY <2>1, <2>2, <2>4 DEF LockInv
  <2> QED BY <2>5, <2>6 DEF LockInv
<1>6. \/ UNCHANGED callerVars
      \/ \E c \in Callers : CallerStep(c)
  <2>1. CASE iatu_config \/ move_window
    BY SMT, <2>1 DEF iatu_config, move_window, callerVars
  <2>2. CASE eon_irq_init \/ hdma_init \/ arm_ctx \/ unbind \/ set_affinity
    BY <2>2 DEF eon_irq_init, hdma_init, arm_ctx, unbind, set_affinity
  <2>3. CASE \E x \in Ctx : engine_report(x) \/ hdma_clear_intr_status(x)
    BY <2>3 DEF engine_report, hdma_clear_intr_status
  <2> QED BY <2>1, <2>2, <2>3 DEF Next
<1> QED BY <1>1, <1>2, <1>3, <1>4, <1>5, <1>6 DEF CallerStep

\* A programmed context that nobody writes to stays programmed.
LEMMA ModeKept ==
    ASSUME LockInv, ModeInv, NEW c \in Callers, NEW W, Same(mem', mem, W),
           pc[c] \in {"doorbell", "wait"}, phase'[c] = phase[c], req'[c] = req[c],
           Block(CurCtx(c), ModeOffsets) \cap W = {}
    PROVE  ModeAt(c)'
<1>1. CurCtx(c)' = CurCtx(c) /\ CurCtx(c) \in Ctx
  BY CurCtxInCtx DEF CurCtx
<1>2. ModeAt(c)
  BY DEF ModeInv, ModeAt
<1>3. /\ DescMode(mem, CurCtx(c), req[c]) => DescMode(mem', CurCtx(c), req[c])
      /\ DataMode(mem, CurCtx(c), req[c]) => DataMode(mem', CurCtx(c), req[c])
  BY <1>1, KeepMode
<1> QED BY <1>1, <1>2, <1>3 DEF ModeAt

\* The registers of the different writers.
LEMMA ModeApart ==
    /\ ModeOffsets \in SUBSET Offsets /\ ArmOffsets \in SUBSET Offsets
    /\ Quiet \in SUBSET Offsets /\ Unwritten \in SUBSET Offsets
    /\ ModeOffsets \cap ArmOffsets = {} /\ ModeOffsets \cap Quiet = {}
    /\ ArmOffsets \cap ModeOffsets = {} /\ ArmOffsets \cap Quiet = {}
    /\ Unwritten \cap ModeOffsets = {} /\ Unwritten \cap ArmOffsets = {}
    /\ Unwritten \cap Quiet = {}
  BY InAddrs DEF Quiet

\* No step disturbs a programmed context.
LEMMA ModeStep == TypeOK /\ LockInv /\ ModeInv /\ Next => ModeInv'
<1> SUFFICES ASSUME TypeOK, LockInv, ModeInv, Next,
                    NEW c \in Callers, pc'[c] \in {"doorbell", "wait"}
             PROVE  ModeAt(c)'
  BY DEF ModeInv, ModeAt
<1> DEFINE Still == pc[c] \in {"doorbell", "wait"} /\ phase'[c] = phase[c] /\ req'[c] = req[c]
<1>0. Still => CurCtx(c) \in Ctx
  BY CurCtxInCtx
<1>u. UNCHANGED callerVars => Still
  BY DEF callerVars
<1>s. Same(mem, mem, {})
  BY DEF Same
<1>1. CASE UNCHANGED mem /\ Still
  BY <1>1, <1>s, ModeKept
<1>2. CASE iatu_config
  <2>1. Still
    BY SMT, <1>2 DEF iatu_config, callerVars
  <2>2. Same(mem', mem, Region(0))
    BY <1>2, IatuConfigWrites
  <2>3. Block(CurCtx(c), ModeOffsets) \cap Region(0) = {}
    BY <1>0, <2>1, BlockRegionApart, ModeApart
  <2> QED BY <2>1, <2>2, <2>3, ModeKept
<1>3. CASE move_window
  <2>1. Still
    BY SMT, <1>3 DEF move_window, callerVars
  <2>2. Same(mem', mem, Region(1))
    BY <1>3, MoveWindowWrites
  <2>3. Block(CurCtx(c), ModeOffsets) \cap Region(1) = {}
    BY <1>0, <2>1, BlockRegionApart, ModeApart
  <2> QED BY <2>1, <2>2, <2>3, ModeKept
<1>4. CASE arm_ctx
  <2>1. Still
    BY <1>4, <1>u DEF arm_ctx
  <2>2. Same(mem', mem, Block(CtxAt(pos), ArmOffsets)) /\ CtxAt(pos) \in Ctx
    BY <1>4, ArmCtxWrites
  <2>3. Block(CurCtx(c), ModeOffsets) \cap Block(CtxAt(pos), ArmOffsets) = {}
    BY <1>0, <2>1, <2>2, BlocksApart, ModeApart
  <2> QED BY <2>1, <2>2, <2>3, ModeKept
<1>5. CASE unbind
  BY <1>5 DEF unbind, callerVars
<1>6. CASE \/ \E d \in Callers : hdma_start_transfer(d)
           \/ \E x \in Ctx : engine_report(x) \/ hdma_clear_intr_status(x)
  <2>1. Still
    <3>1. ASSUME NEW d \in Callers, hdma_start_transfer(d) PROVE Still
      BY <3>1 DEF TypeOK, hdma_start_transfer, Goto
    <3>2. ASSUME NEW x \in Ctx, engine_report(x) \/ hdma_clear_intr_status(x) PROVE Still
      BY <3>2, <1>u DEF engine_report, hdma_clear_intr_status
    <3> QED BY <1>6, <3>1, <3>2
  <2>2. PICK x \in Ctx : Same(mem', mem, Block(x, Quiet))
    BY <1>6, QuietWrites
  <2>3. Block(CurCtx(c), ModeOffsets) \cap Block(x, Quiet) = {}
    BY <1>0, <2>1, BlocksApart, ModeApart
  <2> QED BY <2>1, <2>2, <2>3, ModeKept
<1>7. ASSUME NEW d \in Callers, program(d) PROVE ModeAt(c)'
  <2>1. CASE c = d
    BY <1>7, <2>1, ProgramWrites
  <2>2. CASE c # d
    <3>1. Still /\ Holds(c) /\ Holds(d)
      BY <1>7, <2>2 DEF TypeOK, program, Goto, Holds
    <3>2. Same(mem', mem, Block(CurCtx(d), ModeOffsets)) /\ CurCtx(d) \in Ctx
      BY <1>7, ProgramWrites
    <3>3. CurCtx(c) # CurCtx(d)
      BY <2>2, <3>1, HoldersApart
    <3>4. Block(CurCtx(c), ModeOffsets) \cap Block(CurCtx(d), ModeOffsets) = {}
      BY <1>0, <3>1, <3>2, <3>3, BlocksApart, ModeApart
    <3> QED BY <3>1, <3>2, <3>4, ModeKept
  <2> QED BY <2>1, <2>2
<1>8. CASE eon_irq_init \/ hdma_init \/ set_affinity
  BY <1>8, <1>u, <1>1 DEF eon_irq_init, hdma_init, set_affinity
<1>9. ASSUME NEW d \in Callers, eon_hdma(d) \/ spin_lock(d) \/ spin_unlock(d)
      PROVE  ModeAt(c)'
  <2>1. CASE eon_hdma(d)
    BY <2>1, <1>1 DEF TypeOK, eon_hdma, Goto
  <2>2. CASE spin_lock(d)
    BY <2>2, <1>1 DEF TypeOK, spin_lock, Goto
  <2>3. CASE spin_unlock(d)
    BY <2>3, <1>1 DEF TypeOK, spin_unlock
  <2> QED BY <1>9, <2>1, <2>2, <2>3
<1> QED BY <1>2, <1>3, <1>4, <1>5, <1>6, <1>7, <1>8, <1>9 DEF Next, CallerStep

\* The loop of eon_probe() proceeds, and no step disturbs what it has armed.
LEMMA ArmStep == TypeOK /\ LockInv /\ ArmInv /\ Next => ArmInv'
<1> SUFFICES ASSUME TypeOK, LockInv, ArmInv, Next PROVE ArmInv'
  OBVIOUS
<1> DEFINE Armed(p) == ArmedWith(mem, CtxAt(p), base_addr)
<1>k. ASSUME NEW W, Same(mem', mem, W), base_addr' = base_addr, NEW p \in 0 .. LastPos,
             Armed(p), Block(CtxAt(p), ArmOffsets) \cap W = {}
      PROVE  Armed(p)'
  BY <1>k, KeepArmed, LoopContexts
\* All steps that leave the loop where it is.
<1>f. ASSUME NEW W, Same(mem', mem, W), UNCHANGED <<dpc, pos, base_addr>>,
             msi_cap' = msi_cap \/ msi_cap' = None,
             \A p \in 0 .. LastPos : Block(CtxAt(p), ArmOffsets) \cap W = {}
      PROVE  ArmInv'
  BY <1>f, <1>k DEF ArmInv, Passed
<1>s. Same(mem, mem, {})
  BY DEF Same
<1>1. CASE UNCHANGED <<mem, dpc, pos, base_addr>> /\ (msi_cap' = msi_cap \/ msi_cap' = None)
  BY <1>1, <1>s, <1>f
<1>2. CASE eon_irq_init
  BY <1>2 DEF ArmInv, eon_irq_init, Dpc, Passed
<1>3. CASE iatu_config
  <2>1. dpc' = "init" /\ dpc = "iatu" /\ pos' = pos /\ base_addr' = base_addr /\ msi_cap' = msi_cap
    BY SMT, <1>3 DEF iatu_config, Dpc
  <2>2. pos' = 0
    BY <2>1 DEF ArmInv
  <2>3. \A p \in 0 .. LastPos : ~(p < 0)
    BY SMT
  <2> QED BY <2>1, <2>2, <2>3 DEF ArmInv, Passed
<1>4. CASE hdma_init
  BY <1>4 DEF ArmInv, hdma_init, Dpc, Passed
<1>5. CASE arm_ctx
  <2>1. /\ Same(mem', mem, Block(CtxAt(pos), ArmOffsets)) /\ ArmedWith(mem', CtxAt(pos), base_addr)
        /\ CtxAt(pos) \in Ctx /\ pos \in 0 .. LastPos
    BY <1>5, ArmCtxWrites
  <2>2. base_addr' = base_addr /\ msi_cap' = msi_cap /\ dpc = "enable" /\ dpc' \in {"init", "bound"}
    BY <1>5 DEF arm_ctx, Dpc
  <2>3. ASSUME NEW p \in 0 .. LastPos, Passed(p)' PROVE p = pos \/ Passed(p)
    <3>1. p <= pos
      <4>1. CASE pos < LastPos
        <5>1. dpc' = "init" /\ pos' = pos + 1
          BY <1>5, <4>1 DEF arm_ctx, Dpc
        <5> QED BY SMT, <2>1, <2>3, <5>1 DEF Passed
      <4>2. CASE ~(pos < LastPos)
        BY SMT, <2>1, <4>2, SizeAssumption DEF LastPos
      <4> QED BY <4>1, <4>2
    <3>2. p = pos \/ p < pos
      BY SMT, <2>1, <3>1
    <3> QED BY <2>2, <3>2 DEF Passed
  <2>4. ASSUME NEW p \in 0 .. LastPos, Passed(p)' PROVE Armed(p)'
    <3>1. CASE p = pos
      BY <2>1, <2>2, <3>1
    <3>2. CASE p # pos
      <4>1. Armed(p) /\ CtxAt(p) \in Ctx /\ CtxAt(p) # CtxAt(pos)
        BY <2>1, <2>3, <2>4, <3>2, LoopContexts DEF ArmInv
      <4>2. Block(CtxAt(p), ArmOffsets) \cap Block(CtxAt(pos), ArmOffsets) = {}
        BY <2>1, <4>1, BlocksApart, ModeApart
      <4> QED BY <1>k, <2>1, <2>2, <4>1, <4>2
    <3> QED BY <3>1, <3>2
  <2> QED BY <2>2, <2>4 DEF ArmInv
<1>6. CASE unbind
  BY <1>6 DEF ArmInv, unbind, Passed
<1>7. CASE set_affinity
  BY <1>7, <1>1 DEF set_affinity, probeVars
<1>8. CASE move_window
  <2>1. UNCHANGED <<dpc, pos, base_addr>> /\ msi_cap' = msi_cap
    BY SMT, <1>8 DEF move_window, probeVars
  <2>2. Same(mem', mem, Region(1))
    BY <1>8, MoveWindowWrites
  <2>3. \A p \in 0 .. LastPos : Block(CtxAt(p), ArmOffsets) \cap Region(1) = {}
    BY LoopContexts, BlockRegionApart, ModeApart
  <2> QED BY <1>f, <2>1, <2>2, <2>3
<1>9. CASE \/ \E c \in Callers : hdma_start_transfer(c)
           \/ \E x \in Ctx : engine_report(x) \/ hdma_clear_intr_status(x)
  <2>1. UNCHANGED <<dpc, pos, base_addr>> /\ msi_cap' = msi_cap
    BY <1>9 DEF hdma_start_transfer, engine_report, hdma_clear_intr_status, probeVars
  <2>2. PICK x \in Ctx : Same(mem', mem, Block(x, Quiet))
    BY <1>9, QuietWrites
  <2>3. \A p \in 0 .. LastPos : Block(CtxAt(p), ArmOffsets) \cap Block(x, Quiet) = {}
    BY LoopContexts, BlocksApart, ModeApart
  <2> QED BY <1>f, <2>1, <2>2, <2>3
<1>10. ASSUME NEW c \in Callers, program(c) PROVE ArmInv'
  <2>1. UNCHANGED <<dpc, pos, base_addr>> /\ msi_cap' = msi_cap
    BY <1>10 DEF program, probeVars
  <2>2. Same(mem', mem, Block(CurCtx(c), ModeOffsets)) /\ CurCtx(c) \in Ctx
    BY <1>10, ProgramWrites
  <2>3. \A p \in 0 .. LastPos : Block(CtxAt(p), ArmOffsets) \cap Block(CurCtx(c), ModeOffsets) = {}
    BY <2>2, LoopContexts, BlocksApart, ModeApart
  <2> QED BY <1>f, <2>1, <2>2, <2>3
<1>11. CASE \E c \in Callers : eon_hdma(c) \/ spin_lock(c) \/ spin_unlock(c)
  BY <1>11, <1>1 DEF eon_hdma, spin_lock, spin_unlock, probeVars
<1> QED BY <1>2, <1>3, <1>4, <1>5, <1>6, <1>7, <1>8, <1>9, <1>10, <1>11 DEF Next, CallerStep

\* No step disturbs a region, or a register that is nobody's.
LEMMA RegionStep == TypeOK /\ LockInv /\ RegionInv /\ Next => RegionInv'
<1> SUFFICES ASSUME TypeOK, LockInv, RegionInv, Next PROVE RegionInv'
  OBVIOUS
<1> DEFINE Untouched(m) == \A x \in Ctx, o \in Unwritten : m[Reg(x, o)] = 0
<1>s. Same(mem, mem, {})
  BY DEF Same
<1>r. ASSUME NEW W, Same(mem', mem, W),
             \A x \in Ctx : Block(x, Unwritten) \cap W = {}
      PROVE  Untouched(mem')
  <2>1. ASSUME NEW x \in Ctx PROVE \A o \in Unwritten : mem'[Reg(x, o)] = mem[Reg(x, o)]
    BY <1>r, <2>1, KeepReg, ModeApart
  <2> QED BY <2>1 DEF RegionInv
<1>i. ASSUME NEW W, Same(mem', mem, W), Region(0) \cap W = {}, IramMapped(mem)
      PROVE  IramMapped(mem')
  BY SMT, <1>i, KeepMapped DEF IramMapped
<1>w. ASSUME NEW W, Same(mem', mem, W), Region(1) \cap W = {},
             WindowMapped(mem, config_bar_base)
      PROVE  WindowMapped(mem', config_bar_base)
  BY SMT, <1>w, KeepMapped DEF WindowMapped
\* Writes to a channel.
<1>f. ASSUME NEW W, Same(mem', mem, W), config_bar_base' = config_bar_base,
             dpc' \notin {"unbound", "iatu"} => dpc \notin {"unbound", "iatu"},
             Region(0) \cap W = {}, Region(1) \cap W = {},
             \A x \in Ctx : Block(x, Unwritten) \cap W = {}
      PROVE  RegionInv'
  BY <1>f, <1>r, <1>i, <1>w DEF RegionInv
<1>b. ASSUME NEW y \in Ctx, NEW S \in SUBSET Offsets, Unwritten \cap S = {}
      PROVE  /\ Region(0) \cap Block(y, S) = {} /\ Region(1) \cap Block(y, S) = {}
             /\ \A x \in Ctx : Block(x, Unwritten) \cap Block(y, S) = {}
  <2>1. Block(y, S) \cap Region(0) = {} /\ Block(y, S) \cap Region(1) = {}
    BY <1>b, BlockRegionApart
  <2>2. \A x \in Ctx : Block(x, Unwritten) \cap Block(y, S) = {}
    BY <1>b, BlocksApart, ModeApart
  <2> QED BY <2>1, <2>2
<1>1. CASE /\ UNCHANGED <<mem, config_bar_base>>
           /\ dpc' \notin {"unbound", "iatu"} => dpc \notin {"unbound", "iatu"}
  BY <1>1 DEF RegionInv
<1>2. CASE eon_irq_init
  BY <1>2, <1>1 DEF eon_irq_init, Dpc
<1>3. CASE iatu_config
  <2>1. Same(mem', mem, Region(0)) /\ IramMapped(mem')
    BY <1>3, IatuConfigWrites
  <2>2. config_bar_base' = config_bar_base
    BY SMT, <1>3 DEF iatu_config
  <2>3. Untouched(mem')
    BY <1>r, <2>1, BlockRegionApart, ModeApart
  <2>4. Region(1) \cap Region(0) = {}
    BY TwoRegionsApart
  <2> QED BY <1>w, <2>1, <2>2, <2>3, <2>4 DEF RegionInv
<1>4. CASE hdma_init
  BY <1>4, <1>1 DEF hdma_init, Dpc
<1>5. CASE arm_ctx
  <2>1. Same(mem', mem, Block(CtxAt(pos), ArmOffsets)) /\ CtxAt(pos) \in Ctx
    BY <1>5, ArmCtxWrites
  <2>2. config_bar_base' = config_bar_base /\ dpc \notin {"unbound", "iatu"}
    BY <1>5 DEF arm_ctx, Dpc
  <2> QED BY <1>f, <1>b, <2>1, <2>2, ModeApart
<1>6. CASE unbind
  <2>1. dpc' = "unbound" /\ config_bar_base' = 0
    BY <1>6 DEF unbind
  <2>2. mem' = mem \/ mem' = [a \in Addrs |-> 0]
    BY <1>6 DEF unbind
  <2>3. \A x \in Ctx, o \in Unwritten : Reg(x, o) \in Addrs
    BY InAddrs
  <2>4. Untouched(mem')
    BY <2>2, <2>3 DEF RegionInv
  <2> QED BY <2>1, <2>4 DEF RegionInv
<1>7. CASE set_affinity
  BY <1>7, <1>1 DEF set_affinity, probeVars
<1>8. CASE move_window
  <2>1. Same(mem', mem, Region(1)) /\ WindowMapped(mem', config_bar_base')
    BY <1>8, MoveWindowWrites
  <2>2. dpc' = dpc
    BY SMT, <1>8 DEF move_window, probeVars
  <2>3. Untouched(mem')
    BY <1>r, <2>1, BlockRegionApart, ModeApart
  <2> QED BY <1>i, <2>1, <2>2, <2>3, TwoRegionsApart DEF RegionInv
<1>9. CASE \/ \E c \in Callers : hdma_start_transfer(c)
           \/ \E x \in Ctx : engine_report(x) \/ hdma_clear_intr_status(x)
  <2>1. dpc' = dpc /\ config_bar_base' = config_bar_base
    BY <1>9 DEF hdma_start_transfer, engine_report, hdma_clear_intr_status, probeVars
  <2>2. PICK x \in Ctx : Same(mem', mem, Block(x, Quiet))
    BY <1>9, QuietWrites
  <2> QED BY <1>f, <1>b, <2>1, <2>2, ModeApart
<1>10. ASSUME NEW c \in Callers, program(c) PROVE RegionInv'
  <2>1. dpc' = dpc /\ config_bar_base' = config_bar_base
    BY <1>10 DEF program, probeVars
  <2>2. Same(mem', mem, Block(CurCtx(c), ModeOffsets)) /\ CurCtx(c) \in Ctx
    BY <1>10, ProgramWrites
  <2> QED BY <1>f, <1>b, <2>1, <2>2, ModeApart
<1>11. CASE \E c \in Callers : eon_hdma(c) \/ spin_lock(c) \/ spin_unlock(c)
  BY <1>11, <1>1 DEF eon_hdma, spin_lock, spin_unlock, probeVars
<1> QED BY <1>2, <1>3, <1>4, <1>5, <1>6, <1>7, <1>8, <1>9, <1>10, <1>11 DEF Next, CallerStep

-----------------------------------------------------------------------------
(* Theorems.                                                               *)

\* RegsInv is inductive, whatever the number of channels up to 16, callers,
\* requests, windows and messages.
THEOREM RegsInvariant == Spec => []RegsInv
<1>1. RegsInv /\ [Next]_vars => RegsInv'
  <2> SUFFICES ASSUME RegsInv, [Next]_vars PROVE RegsInv'
    OBVIOUS
  <2>1. CASE Next
    BY <2>1, TypeStep, LockStep, ModeStep, ArmStep, RegionStep DEF RegsInv
  <2>2. CASE UNCHANGED vars
    <3>1. /\ UNCHANGED <<mem, dpc, pos, live, base_addr, msi_cap, config_bar_base>>
          /\ UNCHANGED <<pc, req, phase, lock>>
      BY <2>2 DEF vars, probeVars, callerVars
    <3>2. TypeOK'
      BY <3>1 DEF RegsInv, TypeOK
    <3>3. LockInv' /\ ModeInv'
      BY <3>1 DEF RegsInv, LockInv, ModeInv, Holds, CurCtx
    <3>4. ArmInv' /\ RegionInv'
      BY <3>1 DEF RegsInv, ArmInv, Passed, RegionInv
    <3> QED BY <3>2, <3>3, <3>4 DEF RegsInv
  <2> QED BY <2>1, <2>2
<1> QED BY <1>1, InitInv, PTL DEF Spec

\* What the writers of BAR 0 store fits its 32-bit registers.
THEOREM RegsTyped == Spec => []TypeOK
<1>1. RegsInv => TypeOK
  BY DEF RegsInv
<1> QED BY <1>1, RegsInvariant, PTL

\* A channel is programmed with its caller's own transfer from the doorbell to the
\* end of the wait, with any number of channels and callers.
THEOREM ChannelProgrammed == Spec => []Programmed
<1>1. RegsInv => Programmed
  <2> SUFFICES ASSUME RegsInv, NEW c \in Callers, pc[c] = "wait"
               PROVE  Programmed!(c)!2
    BY DEF Programmed
  <2>1. /\ phase[c] = "desc" => DescMode(mem, CurCtx(c), req[c])
        /\ phase[c] = "data" => DataMode(mem, CurCtx(c), req[c])
    BY DEF RegsInv, ModeInv
  <2>2. phase[c] \in {"desc", "data"}
    BY DEF RegsInv, TypeOK
  <2> QED BY SMT, <2>1, <2>2 DEF DescMode, DataMode, R, Join
<1> QED BY <1>1, RegsInvariant, PTL

\* Every channel of a bound device reports with the message that the host expects.
THEOREM MessageReaches == Spec => []MsiReaches
<1>1. RegsInv => MsiReaches
  <2> SUFFICES ASSUME RegsInv, dpc = "bound", msi_cap # None, NEW x \in Ctx
               PROVE  /\ mem[Reg(x, en)] = 1
                      /\ Reports(x, msi_stop_low, msi_stop_high)
                      /\ Reports(x, msi_abort_low, msi_abort_high)
                      /\ Reports(x, msi_watermark_low, msi_watermark_high)
                      /\ mem[Reg(x, msi_msgd)] = msi_cap.data
    BY DEF MsiReaches
  <2>1. PICK p \in 0 .. LastPos : CtxAt(p) = x
    BY LoopContexts
  <2>2. ArmedWith(mem, x, base_addr) /\ base_addr = pci_msi_setup(msi_cap)
    BY <2>1 DEF RegsInv, ArmInv, Passed
  <2>3. msi_cap \in Messages
    BY DEF RegsInv, TypeOK
  <2>4. /\ base_addr.l = msi_cap.lo
        /\ base_addr.h = IF msi_cap.wide THEN msi_cap.hi ELSE 0
        /\ base_addr.data = msi_cap.data
    BY <2>2, <2>3, ReadsBack
  <2> QED BY <2>2, <2>4 DEF ArmedWith, Reports
<1> QED BY <1>1, RegsInvariant, PTL

\* The two regions of the iATU stay as they were made, and no register of a channel
\* that the driver does not know is written to.
THEOREM RegionsSafety == Spec => []RegionsApart
<1>1. RegsInv => RegionsApart
  <2> SUFFICES ASSUME RegsInv PROVE RegionsApart
    OBVIOUS
  <2>1. RegionInv
    BY DEF RegsInv
  <2>2. dpc \notin {"unbound", "iatu"} => Mapped(0, 4, IramBase, 524288)
    BY SMT, <2>1 DEF RegionInv, IramMapped, MappedTo, Mapped, Join
  <2>3. config_bar_base # 0 => Mapped(1, 2, config_bar_base, 16777216)
    BY SMT, <2>1 DEF RegionInv, WindowMapped, MappedTo, Mapped, Join
  <2> QED BY SMT, <2>1, <2>2, <2>3 DEF RegionInv, RegionsApart
<1> QED BY <1>1, RegsInvariant, PTL
=============================================================================
