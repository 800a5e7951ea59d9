---------------------------- MODULE HdmaIrqProofs ----------------------------
(* Proofs about the interrupt path, for every number of channels, every     *)
(* size of the kfifo and every loop limit.                                  *)
EXTENDS HdmaIrq, FiniteSetTheorems, TLAPS

\* The scan positions 0 .. LastPos are positions of contexts.
LEMMA CtxAtType ==
    ASSUME NEW k \in 0 .. LastPos
    PROVE  CtxAt(k) \in Ctx
<1>1. k \div 2 \in 0 .. NumHdma - 1
    BY IrqAssumption DEF LastPos
<1> QED
    BY <1>1 DEF CtxAt, Ctx

\* loop stays below its limit whenever it may be incremented: at the head of
\* the while loop, and through an extra scan, which leads back there.
LoopBelowLimit ==
    /\ kpc = "while" \/ kextra => kloop < LoopLimit
    /\ kpc \in {"while", "loop"} => ~kextra

IrqInv == IrqTypeOK /\ LoopBelowLimit

\* The interrupt path starts in the invariant.
LEMMA IrqInitInv == IrqInit => IrqInv
<1> SUFFICES ASSUME IrqInit PROVE IrqInv
    OBVIOUS
<1>1. /\ kfifo \in 0 .. FifoSize
      /\ kpos \in 0 .. LastPos
      /\ kloop \in 0 .. LoopLimit
      /\ kloop < LoopLimit
    BY IrqAssumption DEF IrqInit, LastPos
<1> QED
    BY <1>1, Zenon DEF IrqInit, IrqInv, IrqTypeOK, LoopBelowLimit

\* Every step of tasks, engines, handler and kthread preserves it.
LEMMA IrqStepInv == IrqInv /\ [IrqNext]_irqVars => IrqInv'
<1> SUFFICES ASSUME IrqInv, [IrqNext]_irqVars
             PROVE  IrqInv'
    OBVIOUS
<1> USE IrqAssumption DEF IrqInv, IrqTypeOK, LoopBelowLimit, kthreadVars
<1>0. CtxAt(kpos) \in Ctx
    BY CtxAtType
<1>1. ASSUME NEW x \in Ctx, begin_wait(x)
      PROVE  IrqInv'
    BY <1>1 DEF begin_wait
<1>2. ASSUME NEW x \in Ctx, sleep_on(x)
      PROVE  IrqInv'
    BY <1>2 DEF sleep_on
<1>3. ASSUME NEW x \in Ctx, leave_wait(x)
      PROVE  IrqInv'
    BY <1>3 DEF leave_wait
<1>4. ASSUME NEW x \in Ctx, NEW b \in StatusBits, NEW enabled \in BOOLEAN,
             raise_status(x, b, enabled)
      PROVE  IrqInv'
    BY <1>4 DEF raise_status
<1>5. CASE dma_isr_handler
  <2>1. msi' \in BOOLEAN
    BY <1>5, Zenon DEF dma_isr_handler
  <2>2. kfifo' \in 0 .. FifoSize
    BY <1>5 DEF dma_isr_handler, kfifo_in
  <2> QED
    BY <1>5, <2>1, <2>2, Zenon DEF dma_isr_handler
<1>6. CASE kthread_while
  <2>1. kloop' \in 0 .. LoopLimit
    BY <1>6 DEF kthread_while
  <2>2. kextra' \in BOOLEAN
    BY <1>6, Zenon DEF kthread_while
  <2>3. kextra' => kloop' < LoopLimit
    BY <1>6, Zenon DEF kthread_while
  <2>4. kpc' = "scan" /\ kpc' \notin {"while", "loop"}
    BY <1>6 DEF kthread_while
  <2> QED
    BY <1>6, <2>1, <2>2, <2>3, <2>4, Zenon DEF kthread_while
<1>7. CASE kthread_scan
  <2>1. kpos' \in 0 .. LastPos
    BY <1>7 DEF kthread_scan, LastPos
  <2>2. kirq' \in SUBSET StatusBits
    BY <1>0, <1>7 DEF kthread_scan
  <2>3. CASE kpc' \in {"scan", "set"} /\ UNCHANGED kextra
    <3>1. kpc' \notin {"while", "loop"}
        BY <2>3
    <3> QED
        BY <1>7, <2>1, <2>2, <2>3, <3>1, Zenon DEF kthread_scan
  <2>4. CASE kpc' = (IF kextra THEN "while" ELSE "loop") /\ kextra' = FALSE
    BY <1>7, <2>1, <2>2, <2>4, Zenon DEF kthread_scan
  <2> QED
    BY <1>7, <2>3, <2>4, Zenon DEF kthread_scan
<1>8. CASE kthread_set
    BY <1>0, <1>8 DEF kthread_set, Completed
<1>9. CASE kthread_clear
    BY <1>0, <1>9 DEF kthread_clear, Acked
<1>10. CASE kthread_wake
  <2>1. Taken \in Nat
    <3>1. IsFiniteSet(({} \cup {"stop"}) \cup {"watermark"})
        BY FS_EmptySet, FS_AddElement
    <3>2. ({} \cup {"stop"}) \cup {"watermark"} = {"stop", "watermark"}
        OBVIOUS
    <3>3. Cardinality(kirq \cap {"stop", "watermark"}) \in Nat
        BY <3>1, <3>2, FS_Intersection, FS_CardinalityType
    <3> QED
        BY <3>3 DEF Taken
  <2>2. /\ kfifo' \in 0 .. FifoSize
        /\ kpos' \in 0 .. LastPos
        /\ 0 \in 0 .. LoopLimit /\ 0 < LoopLimit
    BY <1>10, <2>1 DEF kthread_wake, kfifo_out, LastPos
  <2>3. asleep' \in [Ctx -> BOOLEAN]
    BY <1>0, <1>10 DEF kthread_wake
  <2> QED
    BY <1>10, <2>2, <2>3, Zenon DEF kthread_wake
<1>11. CASE kthread_loop
    BY <1>11 DEF kthread_loop, StaleDropped, Stale, kfifo_out
<1>12. CASE UNCHANGED irqVars
    BY <1>12 DEF irqVars
<1> QED
    BY <1>1, <1>2, <1>3, <1>4, <1>5, <1>6, <1>7, <1>8, <1>9, <1>10, <1>11, <1>12
    DEF IrqNext, hama_handle_kthread

\* Whatever tasks and engines do, the kfifo is never over-filled, loop never
\* passes its limit and the scan never leaves the array of contexts.
THEOREM IrqTyped == IrqSpec => []IrqTypeOK
<1>1. IrqInv => IrqTypeOK
    BY DEF IrqInv
<1> QED
    BY IrqInitInv, IrqStepInv, <1>1, PTL DEF IrqSpec

=============================================================================
