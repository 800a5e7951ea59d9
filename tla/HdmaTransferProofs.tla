-------------------------- MODULE HdmaTransferProofs --------------------------
(* Proofs about HdmaTransfer, for any number of callers, channels and        *)
(* processors and any choice of the environment's events.                    *)
EXTENDS HdmaTransfer, HdmaIrqProofs

\* The channel a caller's phase uses is one of the contexts.
LEMMA CurCtxType ==
    ASSUME TypeOK, NEW c \in Callers
    PROVE  CurCtx(c) \in Ctx
BY IrqAssumption DEF TypeOK, CurCtx, Ctx, Requests

\* A caller's step leaves the location and the context of the others alone.
LEMMA CallerFrame ==
    ASSUME TypeOK, NEW c \in Callers, CallerStep(c) \/ signal_caller(c),
           NEW d \in Callers, d # c
    PROVE  pc'[d] = pc[d] /\ CurCtx(d)' = CurCtx(d)
<1> USE DEF TypeOK, CurCtx, Goto
<1>1. CASE eon_hdma(c)
    BY <1>1 DEF eon_hdma
<1>2. CASE spin_lock(c)
    BY <1>2 DEF spin_lock
<1>3. CASE regs_refused(c)
    BY <1>3 DEF regs_refused
<1>4. CASE hdma_start_transfer(c)
    BY <1>4 DEF hdma_start_transfer
<1>5. CASE wait_sleep(c)
    BY <1>5 DEF wait_sleep, callerVars
<1>6. ASSUME NEW r, NEW cause, end_phase(c, r, cause)
      PROVE  pc'[d] = pc[d] /\ CurCtx(d)' = CurCtx(d)
    BY <1>6 DEF end_phase
<1>7. CASE wait_done(c) \/ wait_signal(c) \/ wait_timeout(c)
    BY <1>6, <1>7 DEF wait_done, wait_signal, wait_timeout
<1>8. CASE teardown(c)
    BY <1>8 DEF teardown
<1>9. CASE signal_caller(c)
    BY <1>9 DEF signal_caller
<1> QED
    BY <1>1, <1>2, <1>3, <1>4, <1>5, <1>7, <1>8, <1>9 DEF CallerStep

\* Every step is a step of the interrupt path, or leaves it alone.
LEMMA StepImplements ==
    ASSUME TypeOK, [Next]_vars
    PROVE  [IrqNext]_irqVars
<1>1. ASSUME NEW c \in Callers, CallerStep(c) \/ signal_caller(c)
      PROVE  [IrqNext]_irqVars
  <2>0. CurCtx(c) \in Ctx
    BY CurCtxType
  <2>1. CASE UNCHANGED irqVars
    BY <2>1
  <2>2. ASSUME begin_wait(CurCtx(c)) \/ sleep_on(CurCtx(c)) \/ leave_wait(CurCtx(c))
        PROVE  IrqNext
    BY <2>0, <2>2, Zenon DEF IrqNext
  <2> QED
    BY <1>1, <2>1, <2>2, Zenon
    DEF CallerStep, eon_hdma, spin_lock, regs_refused, hdma_start_transfer,
        wait_sleep, wait_done, wait_signal, wait_timeout, end_phase, teardown,
        signal_caller
<1>2. ASSUME NEW x \in Ctx,
             engine_stop(x) \/ engine_watermark(x) \/ engine_abort(x) \/ device_start(x)
      PROVE  [IrqNext]_irqVars
  <2>1. ASSUME NEW b, NEW enabled \in BOOLEAN, raise_status(x, b, enabled)
        PROVE  IrqNext
    <3>1. b \in StatusBits
        BY <2>1, IrqAssumption DEF raise_status
    <3> QED
        BY <2>1, <3>1, Zenon DEF IrqNext
  <2> QED
    BY <1>2, <2>1, Zenon DEF engine_stop, engine_watermark, engine_abort, device_start
<1>3. CASE isr_step \/ kthread_step
    BY <1>3, Zenon DEF isr_step, kthread_step, IrqNext
<1>4. CASE UNCHANGED vars
    BY <1>4, Zenon DEF vars
<1> QED
    BY <1>1, <1>2, <1>3, <1>4, Zenon DEF Next

-----------------------------------------------------------------------------
(* Type correctness.                                                       *)

\* The initial state is well typed.
LEMMA InitTypeOK == Init => TypeOK
<1> SUFFICES ASSUME Init PROVE TypeOK
    OBVIOUS
<1>1. IrqTypeOK
    BY IrqInitInv DEF Init, IrqInv
<1>2. FirstReq \in Requests
    BY IrqAssumption DEF FirstReq, Requests
<1> QED
    BY <1>1, <1>2 DEF Init, TypeOK, Locations, Causes

\* Every step keeps the types.
LEMMA StepTypeOK ==
    ASSUME TypeOK, IrqTypeOK', [Next]_vars
    PROVE  TypeOK'
<1> USE DEF TypeOK
<1>0. FirstReq \in Requests
    BY IrqAssumption DEF FirstReq, Requests
<1>1. ASSUME NEW c \in Callers, eon_hdma(c)
      PROVE  TypeOK'
    BY <1>1, TransferAssumption
    DEF eon_hdma, Goto, Locations, Requests, deviceVars, historyVars
<1>2. ASSUME NEW c \in Callers, spin_lock(c)
      PROVE  TypeOK'
    BY <1>2, CurCtxType DEF spin_lock, Goto, Locations, deviceVars, Causes
<1>3. ASSUME NEW c \in Callers, regs_refused(c)
      PROVE  TypeOK'
    BY <1>3, CurCtxType
    DEF regs_refused, RefusedRet, RefusedLock, Goto, Locations, deviceVars, historyVars
<1>4. ASSUME NEW c \in Callers, hdma_start_transfer(c)
      PROVE  TypeOK'
  <2>1. \A st \in {"armed", "busy"} : [st |-> st, who |-> c, kind |-> phase[c]] \in Jobs
    BY DEF Jobs
  <2>2. engine' \in [Ctx -> Jobs \cup {NoJob}]
    BY <1>4, <2>1, CurCtxType DEF hdma_start_transfer
  <2>3. descOwner' \in [DescAddrs -> Callers \cup {None}]
    BY <1>4, TransferAssumption DEF hdma_start_transfer
  <2> QED
    BY <1>4, <2>2, <2>3 DEF hdma_start_transfer, Goto, Locations, historyVars
<1>5. ASSUME NEW c \in Callers, wait_sleep(c)
      PROVE  TypeOK'
    BY <1>5 DEF wait_sleep, callerVars, deviceVars, historyVars
<1>6. ASSUME NEW c \in Callers, NEW r \in {"ok", "err"}, NEW cause \in SUBSET Causes,
             end_phase(c, r, cause)
      PROVE  TypeOK'
  <2>1. misled' \in [Callers -> BOOLEAN]
    BY <1>6, Zenon DEF end_phase
  <2> QED
    BY <1>6, <2>1, CurCtxType DEF end_phase, Goto, Locations, deviceVars
<1>7. ASSUME NEW c \in Callers, wait_done(c) \/ wait_signal(c) \/ wait_timeout(c)
      PROVE  TypeOK'
  <2>1. /\ Overtake(c) \in SUBSET Causes
        /\ {"signal"} \in SUBSET Causes
        /\ {"timeout"} \in SUBSET Causes
    BY DEF Overtake, Causes, Early
  <2> QED
    BY <1>6, <1>7, <2>1 DEF wait_done, wait_signal, wait_timeout
<1>8. ASSUME NEW c \in Callers, teardown(c)
      PROVE  TypeOK'
  <2>1. misled' \in [Callers -> BOOLEAN]
    BY <1>8, Zenon DEF teardown
  <2> QED
    BY <1>0, <1>8, <2>1 DEF teardown, Goto, Locations, deviceVars
<1>9. ASSUME NEW c \in Callers, signal_caller(c)
      PROVE  TypeOK'
    BY <1>9 DEF signal_caller, deviceVars, historyVars
<1>10. ASSUME NEW x \in Ctx, engine_stop(x)
       PROVE  TypeOK'
  <2>1. engine[x] \in Jobs
    BY <1>10 DEF engine_stop, NoJob
  <2>2. moved' \in [Callers -> BOOLEAN]
    BY <1>10, Zenon DEF engine_stop
  <2> QED
    BY <1>10, <2>1, <2>2, TransferAssumption DEF engine_stop, Jobs, callerVars
<1>11. ASSUME NEW x \in Ctx, engine_watermark(x)
       PROVE  TypeOK'
    BY <1>11 DEF engine_watermark, Jobs, NoJob, callerVars, historyVars
<1>12. ASSUME NEW x \in Ctx, engine_abort(x)
       PROVE  TypeOK'
    BY <1>12 DEF engine_abort, callerVars, Causes
<1>13. ASSUME NEW x \in Ctx, device_start(x)
       PROVE  TypeOK'
    BY <1>13 DEF device_start, Jobs, NoJob, callerVars, historyVars
<1>14. CASE isr_step
    BY <1>14 DEF isr_step, callerVars, deviceVars, historyVars
<1>15. CASE kthread_step
    BY <1>15 DEF kthread_step, callerVars, deviceVars, Causes, Early
<1>16. CASE UNCHANGED vars
    BY <1>16 DEF vars, callerVars, deviceVars, historyVars
<1> QED
    BY <1>1, <1>2, <1>3, <1>4, <1>5, <1>7, <1>8, <1>9, <1>10, <1>11, <1>12,
       <1>13, <1>14, <1>15, <1>16
    DEF Next, CallerStep


-----------------------------------------------------------------------------
(* The spinlocks.                                                          *)

\* Every step keeps the spinlocks with the callers in their critical sections.
LEMMA StepLockOwner ==
    ASSUME TypeOK, TypeOK', LockOwner, [Next]_vars
    PROVE  LockOwner'
<1> USE TransferAssumption DEF TypeOK, LockOwner, Critical
\* A step that touches neither the locks nor the callers' locations.
<1>0. ASSUME UNCHANGED <<pc, req, phase, lock>>
      PROVE  LockOwner'
    BY <1>0 DEF CurCtx
<1>1. ASSUME NEW c \in Callers, CallerStep(c) \/ signal_caller(c)
      PROVE  LockOwner'
  <2>0. \A d \in Callers : d # c => pc'[d] = pc[d] /\ CurCtx(d)' = CurCtx(d)
    BY <1>1, CallerFrame
  <2>01. CurCtx(c) \in Ctx
    BY CurCtxType
  <2>1. CASE eon_hdma(c)
    BY <2>0, <2>1 DEF eon_hdma, Goto
  <2>2. CASE spin_lock(c)
    <3>1. CurCtx(c)' = CurCtx(c)
        BY <2>2 DEF spin_lock, CurCtx
    <3> QED
        BY <2>0, <2>01, <2>2, <3>1 DEF spin_lock, MayAcquire, Goto
  <2>3. CASE regs_refused(c)
    BY <2>0, <2>01, <2>3 DEF regs_refused, RefusedLock, Goto
  <2>4. CASE hdma_start_transfer(c)
    <3>1. CurCtx(c)' = CurCtx(c)
        BY <2>4 DEF hdma_start_transfer, CurCtx
    <3> QED
        BY <2>0, <2>4, <3>1 DEF hdma_start_transfer, Goto
  <2>5. CASE wait_sleep(c)
    BY <1>0, <2>5 DEF wait_sleep, callerVars
  <2>6. ASSUME NEW r, NEW cause, pc[c] = "wait", end_phase(c, r, cause)
        PROVE  LockOwner'
    <3>1. pc'[c] \notin Critical
        BY <2>6 DEF end_phase, Goto
    <3> QED
        BY <2>0, <2>01, <2>6, <3>1 DEF end_phase
  <2>7. CASE wait_done(c) \/ wait_signal(c) \/ wait_timeout(c)
    BY <2>6, <2>7 DEF wait_done, wait_signal, wait_timeout
  <2>8. CASE teardown(c)
    BY <2>0, <2>8 DEF teardown, Goto
  <2>9. CASE signal_caller(c)
    BY <1>0, <2>9 DEF signal_caller
  <2> QED
    BY <1>1, <2>1, <2>2, <2>3, <2>4, <2>5, <2>7, <2>8, <2>9 DEF CallerStep
<1>2. ASSUME NEW x \in Ctx,
             engine_stop(x) \/ engine_watermark(x) \/ engine_abort(x) \/ device_start(x)
      PROVE  LockOwner'
    BY <1>0, <1>2
    DEF engine_stop, engine_watermark, engine_abort, device_start, callerVars
<1>3. CASE isr_step \/ kthread_step
    BY <1>0, <1>3 DEF isr_step, kthread_step, callerVars
<1>4. CASE UNCHANGED vars
    BY <1>0, <1>4 DEF vars, callerVars
<1> QED
    BY <1>1, <1>2, <1>3, <1>4 DEF Next

\* The owner of a lock does not spin, so a lock that is not free has an owner
\* that leaves a processor to the others.
LEMMA LockOwnerNoLockup ==
    ASSUME TypeOK, LockOwner
    PROVE  NoLockup
<1> SUFFICES ASSUME Cardinality(Callers) <= NumCpus, ~CpuFree
             PROVE  \E c \in Spinners : lock[CurCtx(c)] = None
    BY DEF NoLockup
<1>1. Spinners \in SUBSET Callers
    BY DEF Spinners
<1>2. Cardinality(Spinners) \in Nat /\ Cardinality(Callers) \in Nat
    BY <1>1, TransferAssumption, FS_Subset, FS_CardinalityType
<1>3. Cardinality(Spinners) <= Cardinality(Callers)
    BY <1>1, TransferAssumption, FS_Subset
<1>4. Cardinality(Spinners) = Cardinality(Callers) /\ NumCpus > 0
    BY <1>2, <1>3, TransferAssumption DEF CpuFree
<1>5. Spinners = Callers
    BY <1>1, <1>4, TransferAssumption, FS_Subset
<1>6. PICK c \in Callers : TRUE
    BY <1>2, <1>4, <1>5, TransferAssumption, FS_EmptySet DEF CpuFree
<1>7. lock[CurCtx(c)] \in Callers \cup {None}
    BY CurCtxType DEF TypeOK
<1>8. \A d \in Callers : lock[CurCtx(c)] # d
    BY <1>5, CurCtxType DEF LockOwner, Critical, Spinners
<1> QED
    BY <1>5, <1>6, <1>7, <1>8

-----------------------------------------------------------------------------
(* The driver stays in step with the engines.                              *)

\* What a job that is not idle looks like.
LEMMA JobType ==
    ASSUME TypeOK, NEW x \in Ctx, engine[x].st # "idle"
    PROVE  engine[x].who \in Callers /\ engine[x] \in Jobs
BY DEF TypeOK, Jobs, NoJob

\* A step that changes nothing that InStepAt(x) speaks of preserves it.
LEMMA InStepFrame ==
    ASSUME TypeOK, NEW x \in Ctx, InStepAt(x),
           engine'[x] = engine[x], intStatus'[x] = intStatus[x], state'[x] = state[x],
           UNCHANGED <<kpc, kpos, kirq>>,
           \A d \in Callers : pc[d] = "wait" /\ CurCtx(d) = x
                                => pc'[d] = "wait" /\ CurCtx(d)' = x,
           \A d \in Callers : pc'[d] = "doorbell" /\ CurCtx(d)' = x
                                => pc[d] = "doorbell" /\ CurCtx(d) = x
    PROVE  InStepAt(x)'
<1>1. Pending(x) => Pending(x)'
    BY DEF Pending
<1>2. AtCtx("set", x)' = AtCtx("set", x) /\ AtCtx("clear", x)' = AtCtx("clear", x)
    BY DEF AtCtx, CtxAt
<1>3. Ends(x)' = Ends(x)
    BY DEF Ends
<1>4. engine[x].st # "idle" => engine[x].who \in Callers
    BY JobType
<1> QED
    BY <1>1, <1>2, <1>3, <1>4 DEF InStepAt

\* Nobody waits on a context whose lock is free, or held before the doorbell.
LEMMA NobodyWaits ==
    ASSUME TypeOK, LockOwner, NEW x \in Ctx,
           lock[x] = None \/ \E c \in Callers : lock[x] = c /\ pc[c] = "doorbell"
    PROVE  \A d \in Callers : ~(pc[d] = "wait" /\ CurCtx(d) = x)
BY TransferAssumption DEF LockOwner, Critical

\* So its engine is idle, and no news is on its way.
LEMMA NobodyWaitsIdle ==
    ASSUME TypeOK, NEW x \in Ctx, InStepAt(x),
           \A d \in Callers : ~(pc[d] = "wait" /\ CurCtx(d) = x)
    PROVE  /\ engine[x].st = "idle"
           /\ Ends(x) # {} => AtCtx("clear", x) /\ Ends(x) \subseteq kirq
           /\ ~(AtCtx("set", x) /\ kirq # {"watermark"})
BY JobType DEF InStepAt, Pending

\* A step of a caller keeps an undisturbed context in step with its engine.
LEMMA CallerInStep ==
    ASSUME TypeOK, TypeOK', LockOwner, InStep,
           NEW c \in Callers, CallerStep(c) \/ signal_caller(c)
    PROVE  InStep'
<1> SUFFICES ASSUME NEW x \in Ctx, causes'[x] \cap Early = {}
             PROVE  InStepAt(x)'
    BY DEF InStep
<1> USE TransferAssumption DEF TypeOK
<1>0. \A d \in Callers : d # c => pc'[d] = pc[d] /\ CurCtx(d)' = CurCtx(d)
    BY CallerFrame
<1>01. CurCtx(c) \in Ctx
    BY CurCtxType
<1>02. causes[x] \cap Early = {} => InStepAt(x)
    BY DEF InStep
<1>1. CASE eon_hdma(c)
  <2>1. pc[c] # "wait" /\ pc'[c] # "doorbell"
    BY <1>1 DEF eon_hdma, Goto
  <2> QED
    BY <1>0, <1>02, <1>1, <2>1, InStepFrame
    DEF eon_hdma, irqVars, kthreadVars, deviceVars, historyVars
<1>2. CASE spin_lock(c)
  <2>1. pc[c] = "spin" /\ pc'[c] = "doorbell" /\ CurCtx(c)' = CurCtx(c)
    BY <1>2 DEF spin_lock, Goto, CurCtx
  <2>2. CASE x # CurCtx(c)
    BY <1>0, <1>01, <1>02, <1>2, <2>1, <2>2, InStepFrame
    DEF spin_lock, begin_wait, kthreadVars, deviceVars
  <2>3. CASE x = CurCtx(c)
    <3>1. \A d \in Callers : ~(pc[d] = "wait" /\ CurCtx(d) = x)
        BY <1>2, <2>3, NobodyWaits DEF spin_lock, MayAcquire
    <3>2. /\ engine[x].st = "idle"
          /\ Ends(x) # {} => AtCtx("clear", x) /\ Ends(x) \subseteq kirq
          /\ ~(AtCtx("set", x) /\ kirq # {"watermark"})
      <4>1. CASE Quiet(x)
        BY <4>1 DEF Quiet, NoJob, Ends
      <4>2. CASE ~Quiet(x)
        BY <1>02, <1>2, <2>3, <3>1, <4>2, NobodyWaitsIdle DEF spin_lock
      <4> QED
        BY <4>1, <4>2
    <3>3. /\ engine' = engine /\ intStatus' = intStatus
          /\ kpc' = kpc /\ kpos' = kpos /\ kirq' = kirq
        BY <1>2, Zenon DEF spin_lock, begin_wait, deviceVars, kthreadVars
    <3>4. state'[x] = "RUNNING"
        BY <1>2, <2>3 DEF spin_lock, begin_wait, IrqTypeOK
    <3>5. /\ Ends(x)' = Ends(x)
          /\ AtCtx("clear", x)' = AtCtx("clear", x)
          /\ AtCtx("set", x)' = AtCtx("set", x)
        BY <3>3 DEF Ends, AtCtx, CtxAt
    <3> QED
        BY <3>2, <3>3, <3>4, <3>5 DEF InStepAt
  <2> QED
    BY <2>2, <2>3
<1>3. CASE regs_refused(c)
  <2>1. pc[c] # "wait" /\ pc'[c] # "doorbell"
    BY <1>3 DEF regs_refused, Goto
  <2> QED
    BY <1>0, <1>02, <1>3, <2>1, InStepFrame
    DEF regs_refused, irqVars, kthreadVars, deviceVars, historyVars
<1>4. CASE hdma_start_transfer(c)
  <2>1. pc[c] = "doorbell" /\ pc'[c] = "wait" /\ CurCtx(c)' = CurCtx(c)
    BY <1>4 DEF hdma_start_transfer, Goto, CurCtx
  <2>2. CASE x # CurCtx(c)
    BY <1>0, <1>01, <1>02, <1>4, <2>1, <2>2, InStepFrame
    DEF hdma_start_transfer, irqVars, kthreadVars, historyVars
  <2>3. CASE x = CurCtx(c)
    <3>1. InStepAt(x)
        BY <1>02, <1>4 DEF hdma_start_transfer, historyVars
    <3>2. lock[x] = c
        BY <2>1, <2>3 DEF LockOwner, Critical
    <3>3. \A d \in Callers : ~(pc[d] = "wait" /\ CurCtx(d) = x)
        BY <2>1, <3>2, NobodyWaits
    <3>4. /\ engine[x].st = "idle"
          /\ Ends(x) # {} => AtCtx("clear", x) /\ Ends(x) \subseteq kirq
          /\ ~(AtCtx("set", x) /\ kirq # {"watermark"})
        BY <3>1, <3>3, NobodyWaitsIdle
    <3>5. engine'[x].who = c
      <4>1. PICK st : engine' = [engine EXCEPT ![x] = [st |-> st, who |-> c,
                                                       kind |-> phase[c]]]
        BY <1>4, <2>3, <3>4, Zenon DEF hdma_start_transfer
      <4> QED
        BY <4>1
    <3>6. /\ Ends(x)' = Ends(x) /\ kirq' = kirq
          /\ AtCtx("clear", x)' = AtCtx("clear", x)
          /\ AtCtx("set", x)' = AtCtx("set", x)
          /\ state' = state
        BY <1>4
        DEF hdma_start_transfer, irqVars, kthreadVars, Ends, AtCtx, CtxAt
    <3>7. state[x] = "RUNNING"
        BY <2>1, <2>3, <3>1 DEF InStepAt
    <3> QED
        BY <2>1, <2>3, <3>4, <3>5, <3>6, <3>7 DEF InStepAt
  <2> QED
    BY <2>2, <2>3
<1>5. CASE wait_sleep(c)
    BY <1>02, <1>5, InStepFrame
    DEF wait_sleep, sleep_on, callerVars, kthreadVars, deviceVars, historyVars, CurCtx
<1>6. ASSUME NEW r, NEW cause, pc[c] = "wait", end_phase(c, r, cause),
             cause \cap Early = {} => Condition(c)
      PROVE  InStepAt(x)'
  <2>1. pc'[c] # "wait" /\ pc'[c] # "doorbell"
    BY <1>6 DEF end_phase, Goto
  <2>2. CASE x # CurCtx(c)
    BY <1>0, <1>01, <1>02, <1>6, <2>1, <2>2, InStepFrame
    DEF end_phase, leave_wait, kthreadVars, deviceVars
  <2>3. CASE x = CurCtx(c)
    <3>1. causes[x] \cap Early = {} /\ cause \cap Early = {}
        BY <1>6, <2>3 DEF end_phase
    <3>2. InStepAt(x) /\ state[x] # "RUNNING"
        BY <1>02, <1>6, <2>3, <3>1 DEF Condition
    <3>3. /\ engine[x].st = "idle"
          /\ Ends(x) # {} => AtCtx("clear", x) /\ Ends(x) \subseteq kirq
          /\ ~(AtCtx("set", x) /\ kirq # {"watermark"})
        BY <3>2 DEF InStepAt, Pending
    <3>4. /\ engine' = engine
          /\ Ends(x)' = Ends(x) /\ kirq' = kirq
          /\ AtCtx("clear", x)' = AtCtx("clear", x)
          /\ AtCtx("set", x)' = AtCtx("set", x)
        BY <1>6
        DEF end_phase, leave_wait, kthreadVars, deviceVars, Ends, AtCtx, CtxAt
    <3>5. \A d \in Callers : ~(pc'[d] = "doorbell" /\ CurCtx(d)' = x)
        BY <1>0, <1>6, <2>1, <2>3 DEF LockOwner, Critical
    <3> QED
        BY <3>3, <3>4, <3>5 DEF InStepAt
  <2> QED
    BY <2>2, <2>3
<1>7. CASE wait_done(c) \/ wait_signal(c) \/ wait_timeout(c)
    BY <1>6, <1>7 DEF wait_done, wait_signal, wait_timeout, Early
<1>8. CASE teardown(c)
  <2>1. pc[c] # "wait" /\ pc'[c] # "doorbell"
    BY <1>8 DEF teardown, Goto
  <2> QED
    BY <1>0, <1>02, <1>8, <2>1, InStepFrame
    DEF teardown, irqVars, kthreadVars, deviceVars
<1>9. CASE signal_caller(c)
    BY <1>02, <1>9, InStepFrame
    DEF signal_caller, leave_wait, irqVars, kthreadVars, deviceVars, historyVars, CurCtx
<1> QED
    BY <1>1, <1>2, <1>3, <1>4, <1>5, <1>7, <1>8, <1>9 DEF CallerStep

\* A step of an engine keeps an undisturbed context in step.
LEMMA DeviceInStep ==
    ASSUME TypeOK, InStep, NEW y \in Ctx,
           engine_stop(y) \/ engine_watermark(y) \/ engine_abort(y) \/ device_start(y)
    PROVE  InStep'
<1> SUFFICES ASSUME NEW x \in Ctx, causes'[x] \cap Early = {}
             PROVE  InStepAt(x)'
    BY DEF InStep
<1> USE DEF TypeOK, IrqTypeOK
<1>1. pc' = pc /\ \A d \in Callers : CurCtx(d)' = CurCtx(d)
    BY DEF engine_stop, engine_watermark, engine_abort, device_start, callerVars, CurCtx
<1>2. kpc' = kpc /\ kpos' = kpos /\ kirq' = kirq /\ state' = state
    BY Zenon DEF engine_stop, engine_watermark, engine_abort, device_start, raise_status,
           irqVars, kthreadVars
<1>3. InStepAt(x)
  <2>1. causes[x] \cap Early = {}
    BY DEF engine_stop, engine_watermark, engine_abort, device_start, historyVars
  <2> QED
    BY <2>1 DEF InStep
<1>4. CASE x # y
  <2>1. engine'[x] = engine[x] /\ intStatus'[x] = intStatus[x]
    <3>1. CASE engine_stop(y) \/ engine_abort(y)
        BY <1>4, <3>1 DEF engine_stop, engine_abort, raise_status
    <3>2. CASE engine_watermark(y) \/ device_start(y)
        BY <1>4, <3>2 DEF engine_watermark, device_start, raise_status, irqVars
    <3> QED
        BY <3>1, <3>2
  <2> QED
    BY <1>1, <1>2, <1>3, <2>1, InStepFrame
<1>5. CASE x = y
  <2>1. /\ engine[x].st # "idle" /\ engine[x].who \in Callers
        /\ pc[engine[x].who] = "wait" /\ CurCtx(engine[x].who) = x
        /\ state[x] = "RUNNING"
    <3>1. engine[x].st # "idle"
        BY <1>5 DEF engine_stop, engine_watermark, engine_abort, device_start
    <3> QED
        BY <1>3, <3>1, JobType DEF InStepAt
  <2>2. ~(AtCtx("set", x)' /\ kirq' # {"watermark"})
    BY <1>2, <1>3, <2>1 DEF InStepAt, Pending, AtCtx, CtxAt
  <2>3. CASE engine_stop(y) \/ engine_abort(y)
    <3>0. engine'[x] = NoJob
        BY <1>5, <2>3 DEF engine_stop, engine_abort
    <3>1. engine'[x].st = "idle"
        BY <3>0 DEF NoJob
    <3>2. Pending(x)'
        BY <1>1, <1>2, <2>1, <3>1 DEF Pending
    <3> QED
        BY <1>1, <1>2, <2>1, <2>2, <3>1, <3>2 DEF InStepAt
  <2>4. CASE engine_watermark(y) \/ device_start(y)
    <3>0. PICK st : engine' = [engine EXCEPT ![x].st = st]
        BY <1>5, <2>4, Zenon DEF engine_watermark, device_start
    <3>1. engine'[x].who = engine[x].who
        BY <2>1, <3>0, JobType DEF Jobs
    <3>2. Ends(x)' = Ends(x)
      <4>1. CASE engine_watermark(y)
        BY <1>5, <4>1 DEF engine_watermark, raise_status, Ends
      <4>2. CASE device_start(y)
        BY <4>2 DEF device_start, irqVars, Ends
      <4> QED
        BY <2>4, <4>1, <4>2
    <3>3. Ends(x) # {} => AtCtx("clear", x)' /\ Ends(x) \subseteq kirq'
        BY <1>2, <1>3, <2>1 DEF InStepAt, Pending, AtCtx, CtxAt
    <3> QED
        BY <1>1, <1>2, <2>1, <2>2, <3>1, <3>2, <3>3 DEF InStepAt
  <2> QED
    BY <2>3, <2>4
<1> QED
    BY <1>4, <1>5

\* A step of the kthread keeps an undisturbed context in step.
LEMMA KthreadInStep ==
    ASSUME TypeOK, TypeOK', LockOwner, InStep, kthread_step
    PROVE  InStep'
<1> SUFFICES ASSUME NEW x \in Ctx, causes'[x] \cap Early = {}
             PROVE  InStepAt(x)'
    BY DEF InStep
<1> USE DEF TypeOK, IrqTypeOK
<1>0. CtxAt(kpos) \in Ctx
    BY CtxAtType
<1>1. /\ pc' = pc /\ engine' = engine
      /\ \A d \in Callers : CurCtx(d)' = CurCtx(d)
    BY DEF kthread_step, callerVars, deviceVars, CurCtx
<1>2. InStepAt(x)
  <2>1. causes[x] \cap Early = {}
    BY <1>0 DEF kthread_step
  <2> QED
    BY <2>1 DEF InStep
<1>3. CASE kthread_set
  <2>1. CASE CtxAt(kpos) = x
    <3>1. kirq # {"watermark"}
        BY <1>3, <2>1 DEF kthread_step, kthread_set, Early
    <3>2. Pending(x) /\ Ends(x) \subseteq kirq
        BY <1>2, <1>3, <2>1, <3>1 DEF InStepAt, AtCtx, kthread_set
    <3>3. AtCtx("clear", x)' /\ ~AtCtx("set", x)' /\ Ends(x)' = Ends(x) /\ kirq' = kirq
        BY <1>3, <2>1 DEF kthread_set, AtCtx, CtxAt, Ends
    <3>4. \A c \in Callers : ~(pc'[c] = "doorbell" /\ CurCtx(c)' = x)
        BY <1>1, <3>2 DEF Pending, LockOwner, Critical
    <3> QED
        BY <1>1, <3>2, <3>3, <3>4 DEF InStepAt, Pending
  <2>2. CASE CtxAt(kpos) # x
    <3>1. state'[x] = state[x] /\ intStatus' = intStatus
        BY <1>0, <1>3, <2>2 DEF kthread_set, Completed
    <3>2. ~AtCtx("clear", x) /\ ~AtCtx("set", x)' /\ ~AtCtx("clear", x)'
        BY <1>3, <2>2 DEF kthread_set, AtCtx, CtxAt
    <3> QED
        BY <1>1, <1>2, <3>1, <3>2, JobType DEF InStepAt, Pending, Ends
  <2> QED
    BY <2>1, <2>2
<1>4. CASE kthread_clear
  <2>1. kpc = "clear" /\ kpc' = "wake" /\ state' = state /\ kirq' = kirq
    BY <1>4 DEF kthread_clear
  <2>2. Ends(x)' # {} => Pending(x)
    <3>1. CASE CtxAt(kpos) = x
        BY <1>2, <1>4, <3>1 DEF kthread_clear, Acked, InStepAt, Ends
    <3>2. CASE CtxAt(kpos) # x
        BY <1>2, <1>4, <3>2 DEF kthread_clear, InStepAt, Ends, AtCtx
    <3> QED
        BY <3>1, <3>2
  <2>3. Pending(x) => Pending(x)'
    BY <1>1, <2>1 DEF Pending
  <2> QED
    BY <1>1, <1>2, <2>1, <2>2, <2>3, JobType DEF InStepAt, AtCtx
<1>5. CASE kthread_scan
  <2>1. kpc = "scan" /\ state' = state /\ intStatus' = intStatus
    BY <1>5 DEF kthread_scan
  <2>2. Ends(x)' = Ends(x) /\ (Ends(x) # {} => Pending(x)) /\ (Pending(x) => Pending(x)')
    BY <1>1, <1>2, <2>1 DEF InStepAt, Pending, Ends, AtCtx
  <2>3. AtCtx("set", x)' => kirq' = intStatus[x] /\ kirq' # {}
    BY <1>5 DEF kthread_scan, AtCtx, CtxAt
  <2>4. kirq' = intStatus[x] /\ kirq' # {} /\ kirq' # {"watermark"}
          => Ends(x) # {} /\ Ends(x) \subseteq kirq'
    BY DEF Ends, StatusBits
  <2> QED
    BY <1>1, <1>2, <2>1, <2>2, <2>3, <2>4, JobType DEF InStepAt
<1>6. CASE kthread_while \/ kthread_wake \/ kthread_loop
  <2>1. /\ kpc \notin {"set", "clear"} /\ kpc' \notin {"set", "clear"}
        /\ state' = state /\ intStatus' = intStatus
    BY <1>6 DEF kthread_while, kthread_wake, kthread_loop
  <2>2. Ends(x)' = Ends(x) /\ (Ends(x) # {} => Pending(x)) /\ (Pending(x) => Pending(x)')
    BY <1>1, <1>2, <2>1 DEF InStepAt, Pending, Ends, AtCtx
  <2> QED
    BY <1>1, <1>2, <2>1, <2>2, JobType DEF InStepAt, AtCtx
<1> QED
    BY <1>3, <1>4, <1>5, <1>6 DEF kthread_step, hama_handle_kthread

\* Pages are pinned before a caller spins for the first lock and released only
\* on its way back to user space.
PinnedInside == \A c \in Callers : pc[c] # "user" => pinned[c]

\* A caller's pages are pinned from eon_hdma() to its teardown.
LEMMA StepPinnedInside ==
    ASSUME TypeOK, PinnedInside, [Next]_vars
    PROVE  PinnedInside'
<1> USE DEF TypeOK, PinnedInside
<1>0. ASSUME UNCHANGED <<pc, pinned>>
      PROVE  PinnedInside'
    BY <1>0
<1>1. ASSUME NEW c \in Callers, CallerStep(c) \/ signal_caller(c)
      PROVE  PinnedInside'
  <2>1. CASE eon_hdma(c)
    BY <2>1 DEF eon_hdma, Goto
  <2>2. CASE teardown(c)
    BY <2>2 DEF teardown, Goto
  <2>3. ASSUME pc[c] # "user", pinned' = pinned, NEW l, Goto(c, l)
        PROVE  PinnedInside'
    BY <2>3 DEF Goto
  <2>4. CASE spin_lock(c) \/ regs_refused(c) \/ hdma_start_transfer(c)
    BY <2>3, <2>4 DEF spin_lock, regs_refused, hdma_start_transfer
  <2>5. CASE wait_done(c) \/ wait_signal(c) \/ wait_timeout(c)
    BY <2>3, <2>5 DEF wait_done, wait_signal, wait_timeout, end_phase
  <2>6. CASE wait_sleep(c) \/ signal_caller(c)
    BY <1>0, <2>6 DEF wait_sleep, signal_caller, callerVars
  <2> QED
    BY <1>1, <2>1, <2>2, <2>4, <2>5, <2>6 DEF CallerStep
<1>2. ASSUME NEW x \in Ctx,
             engine_stop(x) \/ engine_watermark(x) \/ engine_abort(x) \/ device_start(x)
      PROVE  PinnedInside'
    BY <1>0, <1>2
    DEF engine_stop, engine_watermark, engine_abort, device_start, callerVars
<1>3. CASE isr_step \/ kthread_step \/ UNCHANGED vars
    BY <1>0, <1>3 DEF isr_step, kthread_step, callerVars, vars
<1> QED
    BY <1>1, <1>2, <1>3 DEF Next

-----------------------------------------------------------------------------
(* The inductive invariant and what follows from it.                       *)

TransferInv == IrqInv /\ TypeOK /\ LockOwner /\ PinnedInside /\ InStep

\* The initial state satisfies the inductive invariant.
LEMMA InitInv == Init => TransferInv
<1> SUFFICES ASSUME Init PROVE TransferInv
    OBVIOUS
<1>1. IrqInv /\ TypeOK
    BY IrqInitInv, InitTypeOK DEF Init
<1>2. LockOwner /\ PinnedInside
    BY TransferAssumption DEF Init, LockOwner, PinnedInside, Critical
<1>3. InStep
    BY DEF Init, IrqInit, InStep, InStepAt, Ends, AtCtx, NoJob
<1> QED
    BY <1>1, <1>2, <1>3 DEF TransferInv

\* Every step preserves the inductive invariant.
LEMMA StepInv == TransferInv /\ [Next]_vars => TransferInv'
<1> SUFFICES ASSUME TransferInv, [Next]_vars PROVE TransferInv'
    OBVIOUS
<1> USE DEF TransferInv
<1>1. IrqInv'
    BY StepImplements, IrqStepInv
<1>2. TypeOK'
    BY <1>1, StepTypeOK DEF IrqInv
<1>3. LockOwner'
    BY <1>2, StepLockOwner
<1>4. PinnedInside'
    BY StepPinnedInside
<1>5. InStep'
  <2>1. ASSUME UNCHANGED <<callerVars, deviceVars, causes, state, intStatus, kpc, kpos, kirq>>
        PROVE  InStep'
    BY <2>1, InStepFrame DEF InStep, callerVars, deviceVars, CurCtx
  <2>2. CASE isr_step \/ UNCHANGED vars
    BY <2>1, <2>2, Zenon DEF isr_step, dma_isr_handler, vars, irqVars, kthreadVars, historyVars
  <2> QED
    BY <1>2, <2>2, CallerInStep, DeviceInStep, KthreadInStep DEF Next
<1> QED
    BY <1>1, <1>2, <1>3, <1>4, <1>5

\* The inductive invariant holds in every behaviour.
LEMMA Invariance == Spec => []TransferInv
BY InitInv, StepInv, PTL DEF Spec

\* Type correctness, for any number of callers, channels and processors; it
\* includes that no step over-fills the kfifo.
THEOREM TransferTyped == Spec => []TypeOK
<1>1. TransferInv => TypeOK
    BY DEF TransferInv
<1> QED
    BY <1>1, Invariance, PTL

\* The composition implements the interrupt path: callers and engines touch
\* its state only in the ways that HdmaIrq foresees.
THEOREM TransferImplementsIrq == Spec => IrqSpec
<1>1. Init => IrqInit
    BY DEF Init
<1>2. TransferInv /\ [Next]_vars => [IrqNext]_irqVars
    BY StepImplements DEF TransferInv
<1> QED
    BY <1>1, <1>2, Invariance, PTL DEF Spec, IrqSpec

\* Each path through the two phases gives back the spinlock it took, and no
\* two callers are between lock and unlock of one context.
THEOREM LockSafety == Spec => []LockOwner
<1>1. TransferInv => LockOwner
    BY DEF TransferInv
<1> QED
    BY <1>1, Invariance, PTL

\* With no more callers than processors, sleeping with a spinlock held never
\* locks the machine up.
THEOREM LockupFreedom == Spec => []NoLockup
<1>1. TransferInv => NoLockup
    BY LockOwnerNoLockup DEF TransferInv
<1> QED
    BY <1>1, Invariance, PTL

\* The driver and the engines stay in step as long as no wait ends early.
THEOREM InStepAlways == Spec => []InStep
<1>1. TransferInv => InStep
    BY DEF TransferInv
<1> QED
    BY <1>1, Invariance, PTL

\* A caller that takes the lock of a context finds its engine idle, unless an
\* earlier wait ended early.
THEOREM LockMeansIdle == Spec => []IdleWhenTaken
<1>1. TransferInv => IdleWhenTaken
    BY NobodyWaits, NobodyWaitsIdle DEF TransferInv, InStep, IdleWhenTaken
<1> QED
    BY <1>1, Invariance, PTL

\* No engine touches pages that have been unpinned, unless a wait ended early.
THEOREM DmaSafety == Spec => []PinnedWhileBusy
<1>1. TransferInv => PinnedWhileBusy
    BY JobType DEF TransferInv, InStep, InStepAt, PinnedInside, PinnedWhileBusy
<1> QED
    BY <1>1, Invariance, PTL

\* The kthread records a completion only for an engine that has finished.
THEOREM CompletionSafety == Spec => CompletedWhenIdle
<1> DEFINE A == \A x \in Ctx :
                  state[x] = "RUNNING" /\ state'[x] = "COMPLETED"
                      => engine[x].st = "idle" \/ causes'[x] \cap Early # {}
<1>1. TransferInv /\ [Next]_vars => [A]_vars
  <2> SUFFICES ASSUME TransferInv, Next,
                      NEW x \in Ctx, state[x] = "RUNNING", state'[x] = "COMPLETED"
               PROVE  engine[x].st = "idle" \/ causes'[x] \cap Early # {}
    OBVIOUS
  <2> USE DEF TransferInv, TypeOK, IrqTypeOK
  <2>1. kthread_step /\ kthread_set
    <3>1. ASSUME NEW y, begin_wait(y) PROVE FALSE
        BY <3>1 DEF begin_wait
    <3>2. \A c \in Callers : ~CallerStep(c) /\ ~signal_caller(c)
        BY <3>1, Zenon
        DEF CallerStep, eon_hdma, spin_lock, regs_refused, hdma_start_transfer,
            wait_sleep, wait_done, wait_signal, wait_timeout, end_phase, teardown,
            signal_caller, sleep_on, leave_wait, irqVars
    <3>3. \A y \in Ctx : ~engine_stop(y) /\ ~engine_watermark(y)
                         /\ ~engine_abort(y) /\ ~device_start(y)
        BY Zenon
        DEF engine_stop, engine_watermark, engine_abort, device_start,
            raise_status, irqVars
    <3>4. ~isr_step
        BY DEF isr_step, dma_isr_handler
    <3>5. kthread_step
        BY <3>2, <3>3, <3>4 DEF Next
    <3>6. hama_handle_kthread => kthread_set
        BY DEF hama_handle_kthread, kthread_while, kthread_scan, kthread_clear,
               kthread_wake, kthread_loop
    <3> QED
        BY <3>5, <3>6 DEF kthread_step
  <2>2. CtxAt(kpos) = x /\ kpc = "set"
    BY <2>1, CtxAtType DEF kthread_set, Completed
  <2>3. CASE kirq = {"watermark"}
    <3>1. causes' = [causes EXCEPT ![CtxAt(kpos)] = @ \cup {"watermark"}]
        BY <2>1, <2>2, <2>3 DEF kthread_step
    <3> QED
        BY <3>1, <2>2 DEF Early
  <2>4. CASE kirq # {"watermark"}
    <3>1. causes' = causes
        BY <2>1, <2>4 DEF kthread_step
    <3>2. causes[x] \cap Early = {} => Pending(x)
        BY <2>2, <2>4 DEF InStep, InStepAt, AtCtx
    <3> QED
        BY <3>1, <3>2 DEF Pending
  <2> QED
    BY <2>3, <2>4
<1> QED
    BY <1>1, Invariance, PTL DEF Spec, CompletedWhenIdle

=============================================================================
