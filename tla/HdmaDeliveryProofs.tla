-------------------------- MODULE HdmaDeliveryProofs --------------------------
(* Proofs about HdmaTransfer, continued: no completion is lost, no wake-up is *)
(* missed, a linked list is run by the caller who wrote it, and an inbound    *)
(* ioctl that succeeds has moved its data.                                    *)
EXTENDS HdmaTransferProofs

-----------------------------------------------------------------------------
(* What the steps leave alone.                                             *)

\* A step of a caller leaves the status registers and the kthread alone.
LEMMA CallerIrqFrame ==
    ASSUME NEW c \in Callers, CallerStep(c) \/ signal_caller(c)
    PROVE  UNCHANGED <<intStatus, kpc, kpos, kirq, kextra>>
BY Zenon
DEF CallerStep, eon_hdma, spin_lock, regs_refused, hdma_start_transfer, wait_sleep,
    wait_done, wait_signal, wait_timeout, end_phase, teardown, signal_caller,
    begin_wait, sleep_on, leave_wait, irqVars, kthreadVars

\* A step of an engine leaves the callers and the kthread alone, and changes
\* the job and the status of its own channel only; a status bit is never lost.
LEMMA DeviceFrame ==
    ASSUME TypeOK, NEW y \in Ctx,
           engine_stop(y) \/ engine_watermark(y) \/ engine_abort(y) \/ device_start(y)
    PROVE  /\ UNCHANGED <<pc, req, phase, ret, lock, state, asleep, misled>>
           /\ UNCHANGED <<kpc, kpos, kirq, kextra>>
           /\ engine[y].st # "idle"
           /\ \A x \in Ctx :
                /\ causes[x] \subseteq causes'[x]
                /\ intStatus[x] \subseteq intStatus'[x]
                /\ causes'[x] \subseteq causes[x] \cup {"abort"}
                /\ x # y => /\ engine'[x] = engine[x]
                            /\ causes'[x] = causes[x]
                            /\ intStatus'[x] = intStatus[x]
<1> USE DEF TypeOK, IrqTypeOK
<1>1. UNCHANGED <<pc, req, phase, ret, lock, state, asleep, misled>>
    BY Zenon
    DEF engine_stop, engine_watermark, engine_abort, device_start, raise_status,
        irqVars, callerVars, historyVars
<1>2. UNCHANGED <<kpc, kpos, kirq, kextra>>
    BY Zenon
    DEF engine_stop, engine_watermark, engine_abort, device_start, raise_status,
        irqVars, kthreadVars
<1>3. CASE engine_stop(y) \/ engine_abort(y)
    BY <1>1, <1>2, <1>3 DEF engine_stop, engine_abort, raise_status
<1>4. CASE engine_watermark(y) \/ device_start(y)
    BY <1>1, <1>2, <1>4
    DEF engine_watermark, device_start, raise_status, irqVars, historyVars
<1> QED
    BY <1>3, <1>4

\* A step of the kthread leaves callers and engines alone; causes only grow.
LEMMA KthreadFrame ==
    ASSUME TypeOK, kthread_step
    PROVE  /\ UNCHANGED <<pc, req, phase, ret, lock, engine, descOwner, misled, moved>>
           /\ \A x \in Ctx : /\ causes[x] \subseteq causes'[x]
                             /\ x # CtxAt(kpos) => causes'[x] = causes[x]
BY CtxAtType DEF kthread_step, callerVars, deviceVars, TypeOK, IrqTypeOK

\* The three ways in which a wait ends.
EndsWait(c) == wait_done(c) \/ wait_signal(c) \/ wait_timeout(c)

\* A wait that ends early leaves a cause behind; otherwise its condition is true.
LEMMA EndOfWait ==
    ASSUME NEW c \in Callers, EndsWait(c)
    PROVE  \E r \in {"ok", "err"}, cause \in SUBSET Causes :
             /\ pc[c] = "wait" /\ end_phase(c, r, cause)
             /\ cause \cap Early = {} => Condition(c) /\ cause = Overtake(c) /\ r = "ok"
<1>1. Overtake(c) \subseteq Causes /\ {"signal"} \subseteq Causes /\ {"timeout"} \subseteq Causes
    BY DEF Overtake, Causes, Early
<1>2. {"signal"} \cap Early # {} /\ {"timeout"} \cap Early # {}
    BY DEF Early
<1>3. CASE wait_done(c)
    BY <1>1, <1>3, Zenon DEF wait_done
<1>4. CASE wait_signal(c)
    BY <1>1, <1>2, <1>4, Zenon DEF wait_signal
<1>5. CASE wait_timeout(c)
    BY <1>1, <1>2, <1>5, Zenon DEF wait_timeout
<1> QED
    BY <1>3, <1>4, <1>5 DEF EndsWait

\* A caller's step forgets the causes noted for a context only if it is quiet.
LEMMA CallerCauses ==
    ASSUME TypeOK, NEW c \in Callers, CallerStep(c) \/ signal_caller(c)
    PROVE  \A x \in Ctx : causes[x] \subseteq causes'[x] \/ Quiet(x)
<1> USE DEF TypeOK
<1>1. CurCtx(c) \in Ctx
    BY CurCtxType
<1>2. CASE spin_lock(c)
    BY <1>1, <1>2 DEF spin_lock
<1>3. CASE EndsWait(c)
    BY <1>1, <1>3, EndOfWait DEF end_phase
<1>4. CASE eon_hdma(c) \/ regs_refused(c) \/ hdma_start_transfer(c)
           \/ wait_sleep(c) \/ teardown(c) \/ signal_caller(c)
  <2>1. causes' = causes
    BY <1>4, Zenon
    DEF eon_hdma, regs_refused, hdma_start_transfer, wait_sleep, teardown,
        signal_caller, historyVars
  <2> QED
    BY <2>1
<1> QED
    BY <1>2, <1>3, <1>4 DEF CallerStep, EndsWait

-----------------------------------------------------------------------------
(* Wake-ups.                                                               *)

\* The kthread holds bits that it has read, and an abort that is in a register
\* or in its hands has been noted.
AbortAt(x) ==
    "abort" \in intStatus[x]
    \/ ((AtCtx("set", x) \/ AtCtx("clear", x)) /\ "abort" \in kirq)

AbortNoted ==
    /\ kpc \in {"set", "clear", "wake"} => kirq # {}
    /\ \A x \in Ctx : AbortAt(x) => "abort" \in causes[x]

\* No step forgets an abort that is still to be handled.
LEMMA StepAbortNoted ==
    ASSUME TypeOK, TypeOK', AbortNoted, [Next]_vars
    PROVE  AbortNoted'
<1> USE DEF TypeOK, IrqTypeOK, AbortNoted
\* A step after which no more aborts are to be handled, and none is forgotten.
<1>0. ASSUME kpc' = kpc, kirq' = kirq,
             \A x \in Ctx : AbortAt(x)' => AbortAt(x),
             \A x \in Ctx : AbortAt(x) => causes[x] \subseteq causes'[x]
      PROVE  AbortNoted'
    BY <1>0
<1>1. ASSUME NEW c \in Callers, CallerStep(c) \/ signal_caller(c)
      PROVE  AbortNoted'
  <2>1. UNCHANGED <<intStatus, kpc, kpos, kirq, kextra>>
    BY <1>1, CallerIrqFrame
  <2>2. \A x \in Ctx : AbortAt(x)' = AbortAt(x)
    BY <2>1 DEF AbortAt, AtCtx, CtxAt
  <2>3. \A x \in Ctx : AbortAt(x) => causes[x] \subseteq causes'[x]
    BY <1>1, CallerCauses DEF AbortAt, Quiet
  <2> QED
    BY <1>0, <2>1, <2>2, <2>3
<1>2. ASSUME NEW y \in Ctx,
             engine_stop(y) \/ engine_watermark(y) \/ engine_abort(y) \/ device_start(y)
      PROVE  AbortNoted'
  <2>1. /\ UNCHANGED <<kpc, kpos, kirq>>
        /\ \A x \in Ctx : causes[x] \subseteq causes'[x]
    BY <1>2, DeviceFrame
  <2>2. \A x \in Ctx : AtCtx("set", x)' = AtCtx("set", x) /\ AtCtx("clear", x)' = AtCtx("clear", x)
    BY <2>1 DEF AtCtx, CtxAt
  <2>3. \A x \in Ctx : "abort" \in intStatus'[x]
                        => "abort" \in intStatus[x] \/ "abort" \in causes'[x]
    BY <1>2 DEF engine_stop, engine_watermark, engine_abort, device_start,
                raise_status, irqVars
  <2> QED
    BY <2>1, <2>2, <2>3 DEF AbortAt
<1>3. CASE kthread_step
  <2>1. \A x \in Ctx : causes[x] \subseteq causes'[x]
    BY <1>3, KthreadFrame
  <2>2. CtxAt(kpos) \in Ctx
    BY CtxAtType
  <2>3. CASE kthread_scan
    BY <2>1, <2>2, <2>3 DEF kthread_scan, AbortAt, AtCtx, CtxAt
  <2>4. CASE kthread_set
    <3>1. \A x \in Ctx : AbortAt(x)' => AbortAt(x)
        BY <2>4 DEF kthread_set, AbortAt, AtCtx, CtxAt
    <3> QED
        BY <2>1, <2>4, <3>1 DEF kthread_set
  <2>5. CASE kthread_clear
    <3>1. \A x \in Ctx : AbortAt(x)' => AbortAt(x)
        BY <2>2, <2>5 DEF kthread_clear, AbortAt, AtCtx, CtxAt
    <3> QED
        BY <2>1, <2>5, <3>1 DEF kthread_clear
  <2>6. CASE kthread_while \/ kthread_wake \/ kthread_loop
    <3>1. intStatus' = intStatus /\ kpc' \notin {"set", "clear", "wake"}
        BY <2>6 DEF kthread_while, kthread_wake, kthread_loop
    <3> QED
        BY <2>1, <3>1 DEF AbortAt, AtCtx
  <2> QED
    BY <1>3, <2>3, <2>4, <2>5, <2>6 DEF kthread_step, hama_handle_kthread
<1>4. CASE isr_step \/ UNCHANGED vars
  <2>1. UNCHANGED <<intStatus, kpc, kpos, kirq, causes>>
    BY <1>4, Zenon DEF isr_step, dma_isr_handler, vars, irqVars, kthreadVars, historyVars
  <2>2. \A x \in Ctx : AbortAt(x)' = AbortAt(x)
    BY <2>1 DEF AbortAt, AtCtx, CtxAt
  <2> QED
    BY <1>0, <2>1, <2>2
<1> QED
    BY <1>1, <1>2, <1>3, <1>4 DEF Next

\* Bits that were found, no abort among them, are a lone watermark or hold a
\* stop.
LEMMA StopFound ==
    ASSUME NEW S \in SUBSET StatusBits, S # {}, S # {"watermark"}, "abort" \notin S
    PROVE  "stop" \in S
<1> SUFFICES ASSUME "stop" \notin S PROVE FALSE
    OBVIOUS
<1>1. \A b \in S : b = "watermark"
    BY DEF StatusBits
<1> QED
    BY <1>1

\* A completion that is recorded for a sleeper is followed by its wake-up.
LEMMA StepNoMissedWakeup ==
    ASSUME TypeOK, TypeOK', AbortNoted, NoMissedWakeup, [Next]_vars
    PROVE  NoMissedWakeup'
<1> DEFINE Missed(x) == /\ asleep[x] /\ state[x] # "RUNNING"
                        /\ causes[x] \cap {"watermark", "abort"} = {}
           Coming(x) == (AtCtx("clear", x) \/ AtCtx("wake", x)) /\ Wakes
<1> SUFFICES ASSUME NEW x \in Ctx, Missed(x)'
             PROVE  Coming(x)'
    BY DEF NoMissedWakeup
<1>0. Missed(x) => Coming(x)
    BY DEF NoMissedWakeup
<1> USE DEF TypeOK, IrqTypeOK
<1>1. ASSUME NEW c \in Callers, CallerStep(c) \/ signal_caller(c)
      PROVE  Coming(x)'
  <2>1. UNCHANGED <<intStatus, kpc, kpos, kirq, kextra>>
    BY <1>1, CallerIrqFrame
  <2>2. Coming(x)' = Coming(x)
    BY <2>1 DEF AtCtx, CtxAt, Wakes
  <2>3. CurCtx(c) \in Ctx
    BY CurCtxType
  <2>4. CASE spin_lock(c)
    BY <1>0, <2>2, <2>3, <2>4 DEF spin_lock, begin_wait
  <2>5. CASE EndsWait(c)
    BY <1>0, <2>2, <2>3, <2>5, EndOfWait DEF end_phase, leave_wait
  <2>6. CASE wait_sleep(c)
    BY <1>0, <2>2, <2>3, <2>6 DEF wait_sleep, sleep_on, historyVars
  <2>7. CASE signal_caller(c)
    BY <1>0, <2>2, <2>3, <2>7 DEF signal_caller, leave_wait, irqVars, historyVars
  <2>8. CASE eon_hdma(c) \/ regs_refused(c) \/ hdma_start_transfer(c) \/ teardown(c)
    <3>1. causes' = causes /\ asleep' = asleep /\ state' = state
        BY <2>8, Zenon
        DEF eon_hdma, regs_refused, hdma_start_transfer, teardown, historyVars, irqVars
    <3> QED
        BY <1>0, <2>2, <3>1
  <2> QED
    BY <1>1, <2>4, <2>5, <2>6, <2>7, <2>8 DEF CallerStep, EndsWait
<1>2. ASSUME NEW y \in Ctx,
             engine_stop(y) \/ engine_watermark(y) \/ engine_abort(y) \/ device_start(y)
      PROVE  Coming(x)'
  <2>1. /\ UNCHANGED <<kpc, kpos, kirq, kextra, asleep, state>>
        /\ causes[x] \subseteq causes'[x]
    BY <1>2, DeviceFrame
  <2>2. Coming(x)' = Coming(x)
    BY <2>1 DEF AtCtx, CtxAt, Wakes
  <2> QED
    BY <1>0, <2>1, <2>2
<1>3. CASE kthread_step
  <2>1. causes[x] \subseteq causes'[x]
    BY <1>3, KthreadFrame
  <2>2. CtxAt(kpos) \in Ctx
    BY CtxAtType
  <2>3. CASE kthread_set
    <3>1. AtCtx("set", x)
      <4>1. ~Coming(x)
        BY <2>3 DEF kthread_set, AtCtx
      <4>2. state'[x] # state[x]
        BY <1>0, <2>1, <2>3, <4>1 DEF kthread_set
      <4> QED
        BY <2>2, <2>3, <4>2 DEF kthread_set, Completed, AtCtx
    <3>2. kirq # {"watermark"}
      <4>1. "watermark" \notin causes'[x]
        OBVIOUS
      <4> HIDE DEF Missed
      <4>2. kirq = {"watermark"} => causes'[x] = causes[x] \cup {"watermark"}
        BY <1>3, <2>2, <3>1 DEF kthread_step, AtCtx
      <4> QED
        BY <4>1, <4>2
    <3>3. "abort" \notin kirq
        BY <2>1, <3>1 DEF AbortNoted, AbortAt
    <3>4. "stop" \in kirq
      <4>1. kirq \in SUBSET StatusBits /\ kirq # {}
        BY <3>1 DEF AbortNoted, AtCtx
      <4> QED
        BY <4>1, <3>2, <3>3, StopFound
    <3>5. AtCtx("clear", x)' /\ kirq' = kirq
        BY <2>3, <3>1 DEF kthread_set, AtCtx, CtxAt
    <3> QED
        BY <3>4, <3>5 DEF Wakes
  <2>4. CASE kthread_clear
    <3>1. UNCHANGED <<state, asleep, kpos, kirq, kextra>> /\ kpc = "clear" /\ kpc' = "wake"
        BY <2>4 DEF kthread_clear
    <3>2. Coming(x)
        BY <1>0, <2>1, <3>1
    <3> QED
        BY <3>1, <3>2 DEF AtCtx, CtxAt, Wakes
  <2>5. CASE kthread_wake
    <3>1. kpc = "wake" /\ state' = state
        BY <2>5 DEF kthread_wake
    <3>2. asleep[x]
        BY <2>5 DEF kthread_wake
    <3>3. AtCtx("wake", x) /\ Wakes
        BY <1>0, <2>1, <3>1, <3>2 DEF AtCtx
    <3> QED
        BY <2>5, <3>3 DEF kthread_wake, AtCtx
  <2>6. CASE kthread_while \/ kthread_scan \/ kthread_loop
    <3>1. UNCHANGED <<state, asleep>> /\ kpc \notin {"clear", "wake"}
        BY <2>6 DEF kthread_while, kthread_scan, kthread_loop
    <3> QED
        BY <1>0, <2>1, <3>1 DEF AtCtx
  <2> QED
    BY <1>3, <2>3, <2>4, <2>5, <2>6 DEF kthread_step, hama_handle_kthread
<1>4. CASE isr_step \/ UNCHANGED vars
  <2>1. UNCHANGED <<state, asleep, kpc, kpos, kirq, kextra, causes>>
    BY <1>4, Zenon DEF isr_step, dma_isr_handler, vars, irqVars, kthreadVars, historyVars
  <2>2. Coming(x)' = Coming(x)
    BY <2>1 DEF AtCtx, CtxAt, Wakes
  <2> QED
    BY <1>0, <2>1, <2>2
<1> QED
    BY <1>1, <1>2, <1>3, <1>4 DEF Next

-----------------------------------------------------------------------------
(* Completions.                                                            *)

\* While the kthread is between recording a completion and clearing its status,
\* the task that it was recorded for still waits, unless it is noted otherwise.
Waits(c, x) == pc[c] = "wait" /\ CurCtx(c) = x

WaiterStays ==
    \A x \in Ctx : AtCtx("clear", x) /\ causes[x] \subseteq {"abort"} =>
        state[x] = "COMPLETED" /\ \E c \in Callers : Waits(c, x)

\* A task waits until its own wait ends, and begins to wait at its doorbell.
LEMMA WaitsFrame ==
    ASSUME TypeOK, NEW c \in Callers, CallerStep(c) \/ signal_caller(c),
           NEW d \in Callers, NEW x \in Ctx
    PROVE  /\ Waits(d, x) /\ ~Waits(d, x)' => d = c /\ EndsWait(c)
           /\ ~Waits(d, x) /\ Waits(d, x)' =>
                d = c /\ hdma_start_transfer(c) /\ CurCtx(c) = x
<1>1. CASE d # c
    BY <1>1, CallerFrame DEF Waits
<1>2. CASE d = c
  <2> USE <1>2 DEF TypeOK, Goto
  <2>1. CASE hdma_start_transfer(c)
    BY <2>1 DEF hdma_start_transfer, Waits, CurCtx
  <2>2. CASE wait_sleep(c) \/ signal_caller(c)
    BY <2>2 DEF wait_sleep, signal_caller, callerVars, Waits, CurCtx
  <2>3. CASE eon_hdma(c) \/ spin_lock(c) \/ regs_refused(c) \/ teardown(c)
    BY <2>3 DEF eon_hdma, spin_lock, regs_refused, teardown, Waits
  <2>4. CASE EndsWait(c)
    <3>1. pc'[c] # "wait"
        BY <2>4, EndOfWait DEF end_phase
    <3> QED
        BY <2>4, <3>1 DEF Waits
  <2> QED
    BY <2>1, <2>2, <2>3, <2>4 DEF CallerStep, EndsWait
<1> QED
    BY <1>1, <1>2

\* A task that waits on a context is alone there: nobody takes its lock or is
\* at the doorbell.
LEMMA WaitsAlone ==
    ASSUME TypeOK, LockOwner, NEW c \in Callers, NEW x \in Ctx, Waits(c, x)
    PROVE  /\ lock[x] = c
           /\ \A d \in Callers : pc[d] \in Critical /\ CurCtx(d) = x => d = c
BY DEF LockOwner, Critical, Waits

\* A step of another caller leaves the context alone that a task waits on.
LEMMA WaitsUntouched ==
    ASSUME TypeOK, LockOwner, NEW c \in Callers, CallerStep(c) \/ signal_caller(c),
           NEW d \in Callers, NEW x \in Ctx, Waits(d, x), d # c
    PROVE  state'[x] = state[x] /\ engine'[x] = engine[x] /\ causes'[x] = causes[x]
<1>0. /\ lock[x] = d
      /\ \A e \in Callers : pc[e] \in Critical /\ CurCtx(e) = x => e = d
    BY WaitsAlone
<1>1. CurCtx(c) \in Ctx
    BY CurCtxType
<1> USE TransferAssumption DEF TypeOK, IrqTypeOK
<1>2. CASE spin_lock(c)
  <2>1. CurCtx(c) # x
    BY <1>0, <1>2 DEF spin_lock, MayAcquire
  <2> QED
    BY <1>1, <1>2, <2>1 DEF spin_lock, begin_wait, deviceVars
<1>3. CASE hdma_start_transfer(c)
  <2>1. CurCtx(c) # x
    BY <1>0, <1>3 DEF hdma_start_transfer, Critical
  <2> QED
    BY <1>1, <1>3, <2>1 DEF hdma_start_transfer, irqVars, historyVars
<1>4. CASE EndsWait(c)
  <2>1. CurCtx(c) # x
    BY <1>0, <1>4, EndOfWait DEF Critical
  <2> QED
    BY <1>1, <1>4, <2>1, EndOfWait DEF end_phase, leave_wait, deviceVars
<1>5. CASE eon_hdma(c) \/ regs_refused(c) \/ wait_sleep(c) \/ teardown(c) \/ signal_caller(c)
  <2>1. state' = state /\ engine' = engine /\ causes' = causes
    BY <1>5, Zenon
    DEF eon_hdma, regs_refused, wait_sleep, teardown, signal_caller, sleep_on,
        leave_wait, irqVars, deviceVars, historyVars
  <2> QED
    BY <2>1
<1> QED
    BY <1>2, <1>3, <1>4, <1>5 DEF CallerStep, EndsWait

\* The waiter of a recorded completion stays until the status is cleared.
LEMMA StepWaiterStays ==
    ASSUME TypeOK, TypeOK', LockOwner, InStep, WaiterStays, [Next]_vars
    PROVE  WaiterStays'
<1> SUFFICES ASSUME NEW x \in Ctx, AtCtx("clear", x)', causes'[x] \subseteq {"abort"}
             PROVE  state'[x] = "COMPLETED" /\ \E d \in Callers : Waits(d, x)'
    BY DEF WaiterStays
<1> USE DEF TypeOK, IrqTypeOK
<1>0. ASSUME AtCtx("clear", x), causes[x] \subseteq {"abort"}
      PROVE  state[x] = "COMPLETED" /\ \E d \in Callers : Waits(d, x)
    BY <1>0 DEF WaiterStays
<1>1. ASSUME NEW c \in Callers, CallerStep(c) \/ signal_caller(c)
      PROVE  state'[x] = "COMPLETED" /\ \E d \in Callers : Waits(d, x)'
  <2>1. AtCtx("clear", x)
    BY <1>1, CallerIrqFrame DEF AtCtx, CtxAt
  <2>2. causes[x] \subseteq causes'[x]
    BY <1>1, <2>1, CallerCauses DEF Quiet
  <2>3. PICK d \in Callers : state[x] = "COMPLETED" /\ Waits(d, x)
    BY <1>0, <2>1, <2>2
  <2>4. CASE d # c
    BY <1>1, <2>3, <2>4, WaitsFrame, WaitsUntouched
  <2>5. CASE d = c
    <3>1. ~EndsWait(c)
      <4>1. SUFFICES ASSUME NEW r, NEW cause,
                            cause \cap Early = {} => cause = Overtake(c),
                            end_phase(c, r, cause)
                     PROVE  FALSE
        BY EndOfWait
      <4>2. cause \subseteq causes'[x]
        BY <2>3, <2>5, <4>1 DEF Waits, end_phase
      <4>3. Overtake(c) = {"overtake"}
        BY <2>1, <2>3, <2>5 DEF Overtake, Waits
      <4> QED
        BY <4>1, <4>2, <4>3 DEF Early
    <3>2. Waits(c, x)'
        BY <1>1, <2>3, <2>5, <3>1, WaitsFrame
    <3>3. state'[x] = state[x]
      <4>1. ~spin_lock(c)
        BY <2>3, <2>5 DEF spin_lock, Waits
      <4>2. state' = state
        BY <1>1, <3>1, <4>1, Zenon
        DEF CallerStep, EndsWait, eon_hdma, regs_refused, hdma_start_transfer,
            wait_sleep, teardown, signal_caller, sleep_on, leave_wait, irqVars
      <4> QED
        BY <4>2
    <3> QED
        BY <2>3, <3>2, <3>3
  <2> QED
    BY <2>4, <2>5
<1>2. ASSUME UNCHANGED <<pc, req, phase, state>>, causes[x] \subseteq causes'[x],
             AtCtx("clear", x)
      PROVE  state'[x] = "COMPLETED" /\ \E d \in Callers : Waits(d, x)'
  <2>1. \A d \in Callers : Waits(d, x)' = Waits(d, x)
    BY <1>2 DEF Waits, CurCtx
  <2> QED
    BY <1>0, <1>2, <2>1
<1>3. ASSUME NEW y \in Ctx,
             engine_stop(y) \/ engine_watermark(y) \/ engine_abort(y) \/ device_start(y)
      PROVE  state'[x] = "COMPLETED" /\ \E d \in Callers : Waits(d, x)'
  <2>1. /\ UNCHANGED <<pc, req, phase, state, kpc, kpos>>
        /\ causes[x] \subseteq causes'[x]
    BY <1>3, DeviceFrame
  <2>2. AtCtx("clear", x)
    BY <2>1 DEF AtCtx, CtxAt
  <2> QED
    BY <1>2, <2>1, <2>2
<1>4. CASE kthread_step
  <2>1. kthread_set
    BY <1>4
    DEF AtCtx, kthread_step, hama_handle_kthread, kthread_while, kthread_scan,
        kthread_clear, kthread_wake, kthread_loop
  <2>2. AtCtx("set", x) /\ state'[x] = "COMPLETED"
    BY <2>1 DEF kthread_set, AtCtx, CtxAt, Completed
  <2>3. kirq # {"watermark"}
    BY <1>4, <2>2 DEF kthread_step, AtCtx
  <2>4. causes[x] \cap Early = {}
    BY <1>4, KthreadFrame DEF Early
  <2>5. Pending(x)
    BY <2>2, <2>3, <2>4 DEF InStep, InStepAt
  <2>6. \A d \in Callers : Waits(d, x)' = Waits(d, x)
    BY <1>4, KthreadFrame DEF Waits, CurCtx
  <2> QED
    BY <2>2, <2>5, <2>6 DEF Pending, Waits
<1>5. CASE isr_step \/ UNCHANGED vars
  <2>1. UNCHANGED <<pc, req, phase, state, causes, kpc, kpos>>
    BY <1>5, Zenon
    DEF isr_step, dma_isr_handler, vars, irqVars, kthreadVars, historyVars, callerVars
  <2>2. AtCtx("clear", x)
    BY <2>1 DEF AtCtx, CtxAt
  <2> QED
    BY <1>2, <2>1, <2>2
<1> QED
    BY <1>1, <1>3, <1>4, <1>5 DEF Next

\* An engine that has finished is not forgotten.
LEMMA StepNoLostCompletion ==
    ASSUME TypeOK, TypeOK', LockOwner, WaiterStays, NoLostCompletion, [Next]_vars
    PROVE  NoLostCompletion'
<1> DEFINE Kept(x) == Ends(x) # {} \/ AtCtx("set", x)
<1> SUFFICES ASSUME NEW d \in Callers, NEW x \in Ctx, Waits(d, x)',
                    state'[x] = "RUNNING", engine'[x].st = "idle",
                    causes'[x] \subseteq {"abort"}
             PROVE  Kept(x)'
  <2>1. \A d \in Callers : CurCtx(d)' \in Ctx
    BY IrqAssumption DEF TypeOK, CurCtx, Ctx, Requests
  <2> QED
    BY <2>1 DEF NoLostCompletion, Waits
<1>0. ASSUME Waits(d, x), state[x] = "RUNNING", engine[x].st = "idle",
             causes[x] \subseteq {"abort"}
      PROVE  Kept(x)
    BY <1>0 DEF NoLostCompletion, Waits
<1> USE DEF TypeOK, IrqTypeOK
<1>1. ASSUME NEW c \in Callers, CallerStep(c) \/ signal_caller(c)
      PROVE  Kept(x)'
  <2>1. Kept(x)' = Kept(x)
    BY <1>1, CallerIrqFrame DEF AtCtx, CtxAt, Ends
  <2>2. Waits(d, x)
    <3>1. SUFFICES ASSUME ~Waits(d, x) PROVE FALSE
        OBVIOUS
    <3>2. hdma_start_transfer(c) /\ CurCtx(c) = x
        BY <1>1, <3>1, WaitsFrame
    <3> QED
        BY <3>2 DEF hdma_start_transfer
  <2>3. CASE d # c
    BY <1>0, <1>1, <2>1, <2>2, <2>3, WaitsUntouched
  <2>4. CASE d = c
    <3>1. ~EndsWait(c) /\ ~spin_lock(c) /\ ~hdma_start_transfer(c)
        BY <2>2, <2>4, EndOfWait
        DEF Waits, end_phase, Goto, spin_lock, hdma_start_transfer
    <3>2. state' = state /\ engine' = engine /\ causes' = causes
        BY <1>1, <3>1, Zenon
        DEF CallerStep, EndsWait, eon_hdma, regs_refused, wait_sleep, teardown,
            signal_caller, sleep_on, leave_wait, irqVars, deviceVars, historyVars
    <3> QED
        BY <1>0, <2>1, <2>2, <3>2
  <2> QED
    BY <2>3, <2>4
<1>2. ASSUME NEW y \in Ctx,
             engine_stop(y) \/ engine_watermark(y) \/ engine_abort(y) \/ device_start(y)
      PROVE  Kept(x)'
  <2>1. UNCHANGED <<pc, req, phase, state, kpc, kpos>>
    BY <1>2, DeviceFrame
  <2>2. Waits(d, x)
    BY <2>1 DEF Waits, CurCtx
  <2>3. CASE x # y
    <3>1. engine'[x] = engine[x] /\ causes'[x] = causes[x] /\ intStatus'[x] = intStatus[x]
        BY <1>2, <2>3, DeviceFrame
    <3> QED
        BY <1>0, <2>1, <2>2, <3>1 DEF AtCtx, CtxAt, Ends
  <2>4. CASE x = y
    <3>1. ~engine_watermark(y) /\ ~device_start(y)
      <4>1. ASSUME NEW st, st # "idle", engine' = [engine EXCEPT ![x].st = st]
            PROVE  FALSE
        <5>1. engine[x] \in Jobs
            BY <1>2, <2>4, DeviceFrame, JobType
        <5> QED
            BY <4>1, <5>1 DEF Jobs
      <4> QED
        BY <2>4, <4>1, Zenon DEF engine_watermark, device_start
    <3>2. "stop" \in intStatus'[x] \/ "abort" \in intStatus'[x]
        BY <1>2, <2>4, <3>1 DEF engine_stop, engine_abort, raise_status
    <3> QED
        BY <3>2, Zenon DEF Ends
  <2> QED
    BY <2>3, <2>4
<1>3. CASE kthread_step
  <2>1. Waits(d, x) /\ engine' = engine /\ causes[x] \subseteq {"abort"}
    BY <1>3, KthreadFrame DEF Waits, CurCtx
  <2>2. CtxAt(kpos) \in Ctx
    BY CtxAtType
  <2>3. CASE kthread_set
    <3>1. CtxAt(kpos) # x /\ state'[x] = state[x] /\ intStatus' = intStatus
        BY <2>2, <2>3 DEF kthread_set, Completed
    <3> QED
        BY <1>0, <2>1, <3>1 DEF AtCtx, Ends
  <2>4. CASE kthread_clear
    <3>1. kpc = "clear" /\ state' = state
        BY <2>4 DEF kthread_clear
    <3>2. CtxAt(kpos) # x
        BY <2>1, <3>1 DEF AtCtx, WaiterStays
    <3>3. intStatus'[x] = intStatus[x]
        BY <2>2, <2>4, <3>2 DEF kthread_clear
    <3> QED
        BY <1>0, <2>1, <3>1, <3>3 DEF AtCtx, Ends
  <2>5. CASE kthread_while \/ kthread_scan \/ kthread_wake \/ kthread_loop
    <3>1. kpc # "set" /\ state' = state /\ intStatus' = intStatus
        BY <2>5 DEF kthread_while, kthread_scan, kthread_wake, kthread_loop
    <3> QED
        BY <1>0, <2>1, <3>1 DEF AtCtx, Ends
  <2> QED
    BY <1>3, <2>3, <2>4, <2>5 DEF kthread_step, hama_handle_kthread
<1>4. CASE isr_step \/ UNCHANGED vars
  <2>1. UNCHANGED <<pc, req, phase, state, causes, engine, intStatus, kpc, kpos>>
    BY <1>4, Zenon
    DEF isr_step, dma_isr_handler, vars, irqVars, kthreadVars, historyVars,
        callerVars, deviceVars
  <2> QED
    BY <1>0, <2>1 DEF Waits, CurCtx, AtCtx, CtxAt, Ends
<1> QED
    BY <1>1, <1>2, <1>3, <1>4 DEF Next

-----------------------------------------------------------------------------
(* Jobs and the callers they belong to.                                    *)

\* A caller's step leaves the records of the others alone.
LEMMA OtherCaller ==
    ASSUME TypeOK, NEW c \in Callers, CallerStep(c) \/ signal_caller(c),
           NEW d \in Callers, d # c
    PROVE  /\ phase'[d] = phase[d] /\ ret'[d] = ret[d]
           /\ misled'[d] = misled[d] /\ moved'[d] = moved[d]
<1> USE DEF TypeOK
<1>1. CASE EndsWait(c)
    BY <1>1, EndOfWait DEF end_phase
<1>2. CASE teardown(c)
    BY <1>2 DEF teardown
<1>3. CASE regs_refused(c)
    BY <1>3 DEF regs_refused, RefusedRet, historyVars
<1>4. CASE eon_hdma(c) \/ spin_lock(c) \/ hdma_start_transfer(c) \/ wait_sleep(c)
           \/ signal_caller(c)
  <2>1. UNCHANGED <<phase, ret, misled, moved>>
    BY <1>4, Zenon
    DEF eon_hdma, spin_lock, hdma_start_transfer, wait_sleep, signal_caller,
        callerVars, historyVars
  <2> QED
    BY <2>1
<1> QED
    BY <1>1, <1>2, <1>3, <1>4 DEF CallerStep, EndsWait

\* A caller that goes on waiting changes nothing but its sleep and its signal.
LEMMA StillWaits ==
    ASSUME TypeOK, NEW c \in Callers, CallerStep(c) \/ signal_caller(c),
           pc[c] = "wait", pc'[c] = "wait"
    PROVE  UNCHANGED <<phase, ret, engine, descOwner, causes, misled, moved>>
<1>1. ~EndsWait(c)
    BY EndOfWait DEF end_phase, Goto, TypeOK
<1>2. /\ ~eon_hdma(c) /\ ~spin_lock(c) /\ ~regs_refused(c)
      /\ ~hdma_start_transfer(c) /\ ~teardown(c)
    BY DEF eon_hdma, spin_lock, regs_refused, hdma_start_transfer, teardown
<1> QED
    BY <1>1, <1>2, Zenon
    DEF CallerStep, EndsWait, wait_sleep, signal_caller, callerVars, deviceVars,
        historyVars

\* The list in a descriptor area is lost to a caller only when its own
\* descriptor phase, or that of one who uses the same area, begins.
LEMMA ListFrame ==
    ASSUME TypeOK, NEW c \in Callers, CallerStep(c) \/ signal_caller(c),
           NEW d \in Callers, ~SharesDesc(d), descOwner[DescOf[d]] = d
    PROVE  descOwner'[DescOf[d]] = d \/ (d = c /\ pc[c] = "doorbell" /\ phase[c] = "desc")
<1>1. CASE hdma_start_transfer(c)
  <2>1. c # d => DescOf[c] # DescOf[d]
    BY DEF SharesDesc
  <2> QED
    BY <1>1, <2>1, TransferAssumption DEF hdma_start_transfer, TypeOK
<1>2. CASE ~hdma_start_transfer(c)
  <2>1. descOwner' = descOwner
    BY <1>2, Zenon
    DEF CallerStep, eon_hdma, spin_lock, regs_refused, wait_sleep, wait_done,
        wait_signal, wait_timeout, end_phase, teardown, signal_caller, deviceVars
  <2> QED
    BY <2>1
<1> QED
    BY <1>1, <1>2

\* What the steps of an engine do to a job.
LEMMA JobFrame ==
    ASSUME TypeOK, NEW y \in Ctx,
           engine_stop(y) \/ engine_watermark(y) \/ engine_abort(y) \/ device_start(y)
    PROVE  /\ engine[y] \in Jobs /\ engine[y].who \in Callers
           /\ engine_stop(y) \/ engine_abort(y) => engine'[y] = NoJob
           /\ engine_watermark(y) \/ device_start(y) =>
                /\ engine'[y].st # "idle"
                /\ engine'[y].who = engine[y].who /\ engine'[y].kind = engine[y].kind
<1>1. engine[y] \in Jobs /\ engine[y].who \in Callers
    BY DeviceFrame, JobType
<1>2. engine_stop(y) \/ engine_abort(y) => engine'[y] = NoJob
    BY DEF engine_stop, engine_abort, TypeOK
<1>3. ASSUME NEW st, st # "idle", engine' = [engine EXCEPT ![y].st = st]
      PROVE  /\ engine'[y].st # "idle"
             /\ engine'[y].who = engine[y].who /\ engine'[y].kind = engine[y].kind
    BY <1>1, <1>3 DEF Jobs, TypeOK
<1>4. engine_watermark(y) \/ device_start(y) =>
        /\ engine'[y].st # "idle"
        /\ engine'[y].who = engine[y].who /\ engine'[y].kind = engine[y].kind
    BY <1>3, Zenon DEF engine_watermark, device_start
<1> QED
    BY <1>1, <1>2, <1>4

\* The job of an undisturbed engine is of the phase that its caller is in.
KindOfPhase ==
    \A x \in Ctx :
        engine[x].st # "idle" /\ causes[x] \cap Early = {}
            => engine[x].kind = phase[engine[x].who]

\* A job is started for the phase of its caller, which waits while it runs.
LEMMA StepKindOfPhase ==
    ASSUME TypeOK, TypeOK', LockOwner, InStep, InStep', KindOfPhase, [Next]_vars
    PROVE  KindOfPhase'
<1> SUFFICES ASSUME NEW x \in Ctx, engine'[x].st # "idle", causes'[x] \cap Early = {}
             PROVE  engine'[x].kind = phase'[engine'[x].who]
    BY DEF KindOfPhase
<1>0. engine[x].st # "idle" /\ causes[x] \cap Early = {}
        => engine[x].kind = phase[engine[x].who]
    BY DEF KindOfPhase
<1>1. ASSUME NEW c \in Callers, CallerStep(c) \/ signal_caller(c)
      PROVE  engine'[x].kind = phase'[engine'[x].who]
  <2>1. PICK w \in Callers : w = engine'[x].who
    BY DEF TypeOK, Jobs, NoJob
  <2>2. Waits(w, x)'
    BY <2>1 DEF InStep, InStepAt, Waits
  <2>3. CASE ~Waits(w, x)
    <3>1. w = c /\ hdma_start_transfer(c) /\ CurCtx(c) = x
        BY <1>1, <2>2, <2>3, WaitsFrame
    <3>2. causes' = causes /\ phase' = phase /\ pc[c] = "doorbell"
        BY <3>1 DEF hdma_start_transfer, historyVars
    <3>3. lock[x] = c
        BY <3>1, <3>2 DEF LockOwner, Critical
    <3>4. engine[x].st = "idle"
        BY <3>2, <3>3, NobodyWaits, NobodyWaitsIdle DEF InStep
    <3>5. engine'[x].kind = phase[c]
        BY <3>1, <3>4 DEF hdma_start_transfer, TypeOK
    <3> QED
        BY <2>1, <3>1, <3>2, <3>5
  <2>4. CASE Waits(w, x) /\ w # c
    <3>1. engine'[x] = engine[x] /\ causes'[x] = causes[x]
        BY <1>1, <2>4, WaitsUntouched
    <3>2. phase'[w] = phase[w]
        BY <1>1, <2>4, OtherCaller
    <3> QED
        BY <1>0, <2>1, <3>1, <3>2
  <2>5. CASE Waits(w, x) /\ w = c
    <3>1. UNCHANGED <<phase, engine, causes>>
        BY <1>1, <2>2, <2>5, StillWaits DEF Waits
    <3> QED
        BY <1>0, <3>1
  <2> QED
    BY <2>3, <2>4, <2>5
<1>2. ASSUME NEW y \in Ctx,
             engine_stop(y) \/ engine_watermark(y) \/ engine_abort(y) \/ device_start(y)
      PROVE  engine'[x].kind = phase'[engine'[x].who]
  <2>1. phase' = phase /\ causes[x] \cap Early = {} /\ engine[y].st # "idle"
    BY <1>2, DeviceFrame
  <2>2. CASE x # y
    BY <1>0, <1>2, <2>1, <2>2, DeviceFrame
  <2>3. CASE x = y
    <3>1. ~engine_stop(y) /\ ~engine_abort(y)
        BY <1>2, <2>3, JobFrame DEF NoJob
    <3> QED
        BY <1>0, <1>2, <2>1, <2>3, <3>1, JobFrame
  <2> QED
    BY <2>2, <2>3
<1>3. CASE kthread_step
    BY <1>0, <1>3, KthreadFrame
<1>4. CASE isr_step \/ UNCHANGED vars
  <2>1. UNCHANGED <<phase, engine, causes>>
    BY <1>4, Zenon DEF isr_step, vars, callerVars, deviceVars, historyVars
  <2> QED
    BY <1>0, <2>1
<1> QED
    BY <1>1, <1>2, <1>3, <1>4 DEF Next

\* A job outlives the wait for it only if its caller was misled.
StaleMisled ==
    \A x \in Ctx, c \in Callers : engine[x].who = c => Waits(c, x) \/ misled[c]

\* A wait that ends while the job still runs misleads its caller.
LEMMA StepStaleMisled ==
    ASSUME TypeOK, TypeOK', InStep, StaleMisled, [Next]_vars
    PROVE  StaleMisled'
<1> SUFFICES ASSUME NEW x \in Ctx, NEW w \in Callers, engine'[x].who = w
             PROVE  Waits(w, x)' \/ misled'[w]
    BY DEF StaleMisled
<1>0. engine[x].who = w => Waits(w, x) \/ misled[w]
    BY DEF StaleMisled
<1>01. NoJob.who # w
    BY TransferAssumption DEF NoJob
<1>1. ASSUME NEW c \in Callers, CallerStep(c) \/ signal_caller(c)
      PROVE  Waits(w, x)' \/ misled'[w]
  <2>1. CASE hdma_start_transfer(c)
    <3>1. misled' = misled
        BY <2>1 DEF hdma_start_transfer, historyVars
    <3>2. CASE engine[x].who = w
        BY <1>0, <1>1, <2>1, <3>1, <3>2, WaitsFrame
        DEF EndsWait, wait_done, wait_signal, wait_timeout, hdma_start_transfer
    <3>3. CASE engine[x].who # w
      <4>1. CurCtx(c) = x /\ w = c
        BY <2>1, <3>3 DEF hdma_start_transfer, TypeOK
      <4>2. pc'[c] = "wait" /\ CurCtx(c)' = CurCtx(c)
        BY <2>1 DEF hdma_start_transfer, Goto, TypeOK, CurCtx
      <4> QED
        BY <4>1, <4>2 DEF Waits
    <3> QED
        BY <3>2, <3>3
  <2>2. CASE ~hdma_start_transfer(c)
    <3>1. engine' = engine
        BY <1>1, <2>2, Zenon
        DEF CallerStep, eon_hdma, spin_lock, regs_refused, wait_sleep, wait_done,
            wait_signal, wait_timeout, end_phase, teardown, signal_caller, deviceVars
    <3>2. CASE w # c
        BY <1>0, <1>1, <3>1, <3>2, WaitsFrame, OtherCaller
    <3>3. CASE w = c /\ EndsWait(c)
      <4>1. PICK r, cause : /\ end_phase(c, r, cause)
                            /\ cause \cap Early = {} => Condition(c)
        BY <3>3, EndOfWait
      <4>2. misled'[c] = (misled[c] \/ (causes[CurCtx(c)] \cup cause)
                                           \cap (Early \cup {"abort"}) # {})
        BY <4>1, Zenon DEF end_phase, TypeOK
      <4>3. CASE misled[c]
        BY <3>3, <4>2, <4>3
      <4>4. CASE Waits(c, x)
        <5>1. engine[x].st # "idle"
            BY <1>01, <3>1, <3>3 DEF TypeOK, Jobs, NoJob
        <5>2. causes[x] \cap Early # {} \/ state[x] = "RUNNING"
            BY <5>1 DEF InStep, InStepAt
        <5>3. causes[x] \cap Early # {} \/ cause \cap Early # {}
            BY <4>1, <4>4, <5>2 DEF Waits, Condition
        <5>4. CurCtx(c) = x
            BY <4>4 DEF Waits
        <5>5. (causes[x] \cup cause) \cap (Early \cup {"abort"}) # {}
            BY <5>3
        <5> QED
            BY <3>3, <4>2, <5>4, <5>5
      <4> QED
        BY <1>0, <3>1, <3>3, <4>3, <4>4
    <3>4. CASE w = c /\ teardown(c)
      <4> DEFINE Left == \E z \in Ctx : engine[z].who = c
      <4>1. misled' = [misled EXCEPT ![c] = Left] /\ DOMAIN misled = Callers
        BY <3>4 DEF teardown, TypeOK
      <4>2. Left
        BY <3>1, <3>4
      <4> HIDE DEF Left
      <4> QED
        BY <3>4, <4>1, <4>2, Zenon
    <3>5. CASE w = c /\ ~EndsWait(c) /\ ~teardown(c)
      <4>1. misled' = misled
        BY <1>1, <2>2, <3>5, Zenon
        DEF CallerStep, EndsWait, eon_hdma, spin_lock, regs_refused, wait_sleep,
            signal_caller, historyVars
      <4> QED
        BY <1>0, <1>1, <3>1, <3>5, <4>1, WaitsFrame
    <3> QED
        BY <3>2, <3>3, <3>4, <3>5
  <2> QED
    BY <2>1, <2>2
<1>2. ASSUME UNCHANGED <<pc, req, phase, misled>>, engine[x].who = w
      PROVE  Waits(w, x)' \/ misled'[w]
    BY <1>0, <1>2 DEF Waits, CurCtx
<1>3. ASSUME NEW y \in Ctx,
             engine_stop(y) \/ engine_watermark(y) \/ engine_abort(y) \/ device_start(y)
      PROVE  Waits(w, x)' \/ misled'[w]
  <2>1. UNCHANGED <<pc, req, phase, misled>>
    BY <1>3, DeviceFrame
  <2>2. engine[x].who = w
    <3>1. CASE x # y
        BY <1>3, <3>1, DeviceFrame
    <3>2. CASE x = y
        BY <1>01, <1>3, <3>2, JobFrame
    <3> QED
        BY <3>1, <3>2
  <2> QED
    BY <1>2, <2>1, <2>2
<1>4. CASE kthread_step \/ isr_step \/ UNCHANGED vars
  <2>1. UNCHANGED <<pc, req, phase, engine, misled>>
    BY <1>4, Zenon
    DEF kthread_step, isr_step, vars, callerVars, deviceVars, historyVars
  <2> QED
    BY <1>2, <2>1
<1> QED
    BY <1>1, <1>3, <1>4 DEF Next

-----------------------------------------------------------------------------
(* Lists and data.                                                         *)

\* A wait whose engine has come to rest by itself has got what it waits for: the
\* list is in its area, the data has been moved.
Undisturbed(x) == causes[x] \cap (Early \cup {"abort"}) = {}
Alone(c) == ~misled[c] /\ ~SharesDesc(c)
AtRest(c, x) == Waits(c, x) /\ engine[x].st = "idle" /\ Undisturbed(x)

DescDone ==
    \A c \in Callers, x \in Ctx :
        AtRest(c, x) /\ phase[c] = "desc" /\ ~SharesDesc(c) => descOwner[DescOf[c]] = c

DescReady ==
    \A c \in Callers : phase[c] = "data" /\ Alone(c) => descOwner[DescOf[c]] = c

DataAtRest ==
    \A c \in Callers, x \in Ctx :
        AtRest(c, x) /\ phase[c] = "data" /\ Alone(c) => moved[c]

DataDone ==
    \A c \in Callers :
        pc[c] = "teardown" /\ ret[c] = "ok" /\ Alone(c) => moved[c]

\* Rest comes to a waiting task by the end of its own job, and by nothing else.
LEMMA RestComes ==
    ASSUME TypeOK, LockOwner, InStep, KindOfPhase, [Next]_vars,
           NEW d \in Callers, NEW x \in Ctx, AtRest(d, x)'
    PROVE  /\ Waits(d, x) /\ phase'[d] = phase[d]
           /\ \/ AtRest(d, x)
              \/ engine_stop(x) /\ engine[x].who = d /\ engine[x].kind = phase[d]
<1>1. ASSUME NEW c \in Callers, CallerStep(c) \/ signal_caller(c)
      PROVE  AtRest(d, x) /\ phase'[d] = phase[d]
  <2>1. Waits(d, x)
    <3>1. SUFFICES ASSUME ~Waits(d, x) PROVE FALSE
        OBVIOUS
    <3>2. hdma_start_transfer(c) /\ CurCtx(c) = x
        BY <1>1, <3>1, WaitsFrame DEF AtRest
    <3>3. engine'[x].st # "idle"
        BY <3>2 DEF hdma_start_transfer, TypeOK
    <3> QED
        BY <3>3 DEF AtRest
  <2>2. CASE d # c
    BY <1>1, <2>1, <2>2, WaitsUntouched, OtherCaller DEF AtRest, Undisturbed
  <2>3. CASE d = c
    BY <1>1, <2>1, <2>3, StillWaits DEF AtRest, Undisturbed, Waits
  <2> QED
    BY <2>2, <2>3
<1>2. ASSUME UNCHANGED <<pc, req, phase>>
      PROVE  Waits(d, x) /\ phase'[d] = phase[d]
    BY <1>2 DEF AtRest, Waits, CurCtx
<1>3. ASSUME NEW y \in Ctx,
             engine_stop(y) \/ engine_watermark(y) \/ engine_abort(y) \/ device_start(y)
      PROVE  /\ Waits(d, x) /\ phase'[d] = phase[d]
             /\ \/ AtRest(d, x)
                \/ engine_stop(x) /\ engine[x].who = d /\ engine[x].kind = phase[d]
  <2>1. /\ UNCHANGED <<pc, req, phase>>
        /\ causes[x] \subseteq causes'[x]
    BY <1>3, DeviceFrame
  <2>2. Waits(d, x) /\ phase'[d] = phase[d]
    BY <1>2, <2>1
  <2>3. Undisturbed(x)
    BY <2>1 DEF AtRest, Undisturbed
  <2>4. CASE x # y
    BY <1>3, <2>2, <2>3, <2>4, DeviceFrame DEF AtRest
  <2>5. CASE x = y
    <3>1. ~engine_watermark(y) /\ ~device_start(y)
        BY <1>3, <2>5, JobFrame DEF AtRest
    <3>2. ~engine_abort(y)
        BY <2>5 DEF engine_abort, AtRest, Undisturbed, TypeOK
    <3>3. engine_stop(x) /\ engine[x].st # "idle" /\ engine[x].who \in Callers
        BY <1>3, <2>5, <3>1, <3>2, JobFrame, DeviceFrame
    <3>4. causes[x] \cap Early = {}
        BY <2>3 DEF Undisturbed
    <3>5. Waits(engine[x].who, x) /\ engine[x].kind = phase[engine[x].who]
        BY <3>3, <3>4 DEF InStep, InStepAt, KindOfPhase, Waits
    <3>6. engine[x].who = d
        BY <2>2, <3>3, <3>5, WaitsAlone
    <3> QED
        BY <2>2, <3>3, <3>5, <3>6
  <2> QED
    BY <2>4, <2>5
<1>4. CASE kthread_step
  <2>1. UNCHANGED <<pc, req, phase, engine>> /\ causes[x] \subseteq causes'[x]
    BY <1>4, KthreadFrame
  <2> QED
    BY <1>2, <2>1 DEF AtRest, Undisturbed
<1>5. CASE isr_step \/ UNCHANGED vars
  <2>1. UNCHANGED <<pc, req, phase, engine, causes>>
    BY <1>5, Zenon DEF isr_step, vars, callerVars, deviceVars, historyVars
  <2> QED
    BY <1>2, <2>1 DEF AtRest, Undisturbed
<1> QED
    BY <1>1, <1>3, <1>4, <1>5 DEF Next, AtRest

\* A list in an area that only its caller uses stays there until that caller
\* writes the next one.
LEMMA ListStays ==
    ASSUME TypeOK, [Next]_vars,
           NEW d \in Callers, ~SharesDesc(d), descOwner[DescOf[d]] = d,
           ~(pc[d] = "doorbell" /\ phase[d] = "desc")
    PROVE  descOwner'[DescOf[d]] = d
<1>1. ASSUME NEW c \in Callers, CallerStep(c) \/ signal_caller(c)
      PROVE  descOwner'[DescOf[d]] = d
    BY <1>1, ListFrame
<1>2. ASSUME NEW y \in Ctx, engine_stop(y)
      PROVE  descOwner'[DescOf[d]] = d
  <2>1. engine[y].who \in Callers
    BY <1>2, JobFrame
  <2>2. engine[y].who # d => DescOf[engine[y].who] # DescOf[d]
    BY <2>1 DEF SharesDesc
  <2> QED
    BY <1>2, <2>1, <2>2, TransferAssumption DEF engine_stop, TypeOK
<1>3. ASSUME NEW y \in Ctx, engine_watermark(y) \/ engine_abort(y) \/ device_start(y)
      PROVE  descOwner'[DescOf[d]] = d
    BY <1>3 DEF engine_watermark, engine_abort, device_start
<1>4. CASE kthread_step \/ isr_step \/ UNCHANGED vars
    BY <1>4 DEF kthread_step, isr_step, vars, deviceVars
<1> QED
    BY <1>1, <1>2, <1>3, <1>4 DEF Next

\* The descriptor phase leaves its list in the area.
LEMMA StepDescDone ==
    ASSUME TypeOK, LockOwner, InStep, KindOfPhase, DescDone, [Next]_vars
    PROVE  DescDone'
<1> SUFFICES ASSUME NEW d \in Callers, NEW x \in Ctx, AtRest(d, x)',
                    phase'[d] = "desc", ~SharesDesc(d)
             PROVE  descOwner'[DescOf[d]] = d
    BY DEF DescDone, SharesDesc
<1>1. /\ Waits(d, x) /\ phase[d] = "desc"
      /\ \/ AtRest(d, x)
         \/ engine_stop(x) /\ engine[x].who = d /\ engine[x].kind = "desc"
    BY RestComes
<1>2. CASE AtRest(d, x)
    BY <1>1, <1>2, ListStays DEF DescDone, Waits
<1>3. CASE engine_stop(x) /\ engine[x].who = d /\ engine[x].kind = "desc"
    BY <1>3, TransferAssumption DEF engine_stop, TypeOK
<1> QED
    BY <1>1, <1>2, <1>3

\* A wait that misleads nobody ends when the engine is at rest.
LEMMA EndAtRest ==
    ASSUME TypeOK, InStep, NEW c \in Callers, EndsWait(c), ~misled'[c]
    PROVE  /\ ~misled[c] /\ AtRest(c, CurCtx(c))
           /\ ret'[c] = "ok"
           /\ phase[c] = "desc" => pc'[c] = "spin"
           /\ UNCHANGED <<descOwner, moved>>
<1>1. PICK r, cause : /\ pc[c] = "wait" /\ end_phase(c, r, cause)
                      /\ cause \cap Early = {} => Condition(c) /\ r = "ok"
    BY EndOfWait
<1> DEFINE x == CurCtx(c)
           Bad == (causes[x] \cup cause) \cap (Early \cup {"abort"}) # {}
<1>2. x \in Ctx
    BY CurCtxType
<1>3. misled' = [misled EXCEPT ![c] = @ \/ Bad] /\ DOMAIN misled = Callers
    BY <1>1 DEF end_phase, TypeOK
<1>4. ~misled[c] /\ ~Bad
  <2> HIDE DEF Bad
  <2> QED
    BY <1>3, Zenon
<1>5. causes[x] \cap Early = {} /\ Undisturbed(x) /\ cause \cap Early = {}
    BY <1>4 DEF Undisturbed
<1>6. state[x] # "RUNNING" /\ r = "ok"
    BY <1>1, <1>5 DEF Condition
<1>7. engine[x].st = "idle"
    BY <1>2, <1>5, <1>6 DEF InStep, InStepAt
<1>8. AtRest(c, x)
    BY <1>1, <1>5, <1>7 DEF AtRest, Waits
<1>9. /\ ret'[c] = "ok" /\ UNCHANGED <<descOwner, moved>>
      /\ phase[c] = "desc" => pc'[c] = "spin"
    BY <1>1, <1>6 DEF end_phase, Goto, TypeOK, deviceVars
<1> QED
    BY <1>4, <1>8, <1>9

\* A data phase that nobody disturbed finds its list in the area.
LEMMA StepDescReady ==
    ASSUME TypeOK, LockOwner, InStep, DescDone, DescReady, [Next]_vars
    PROVE  DescReady'
<1> SUFFICES ASSUME NEW d \in Callers, phase'[d] = "data", ~misled'[d], ~SharesDesc(d)
             PROVE  descOwner'[DescOf[d]] = d
    BY DEF DescReady, Alone, SharesDesc
<1>0. ASSUME phase[d] = "data", ~misled[d]
      PROVE  descOwner'[DescOf[d]] = d
    BY <1>0, ListStays DEF DescReady, Alone
<1>1. ASSUME NEW c \in Callers, CallerStep(c) \/ signal_caller(c)
      PROVE  descOwner'[DescOf[d]] = d
  <2>1. CASE d # c
    BY <1>0, <1>1, <2>1, OtherCaller
  <2>2. CASE d = c /\ EndsWait(c)
    <3>1. ~misled[d] /\ AtRest(d, CurCtx(d)) /\ descOwner' = descOwner
        BY <2>2, EndAtRest
    <3>2. CASE phase[d] = "data"
        BY <1>0, <3>1, <3>2
    <3>3. CASE phase[d] = "desc"
        BY <3>1, <3>3, CurCtxType DEF DescDone
    <3> QED
        BY <3>2, <3>3 DEF TypeOK
  <2>3. CASE d = c /\ ~EndsWait(c)
    <3>1. ~teardown(c)
        BY <2>3 DEF teardown, TypeOK
    <3>2. phase' = phase /\ misled' = misled
        BY <1>1, <2>3, <3>1, Zenon
        DEF CallerStep, EndsWait, eon_hdma, spin_lock, regs_refused,
            hdma_start_transfer, wait_sleep, signal_caller, callerVars, historyVars
    <3> QED
        BY <1>0, <3>2
  <2> QED
    BY <2>1, <2>2, <2>3
<1>2. ASSUME NEW y \in Ctx,
             engine_stop(y) \/ engine_watermark(y) \/ engine_abort(y) \/ device_start(y)
      PROVE  descOwner'[DescOf[d]] = d
    BY <1>0, <1>2, DeviceFrame
<1>3. CASE kthread_step \/ isr_step \/ UNCHANGED vars
  <2>1. phase' = phase /\ misled' = misled
    BY <1>3, Zenon DEF kthread_step, isr_step, vars, callerVars, historyVars
  <2> QED
    BY <1>0, <2>1
<1> QED
    BY <1>1, <1>2, <1>3 DEF Next

\* Data that has been moved stays moved until the ioctl returns; only the end of
\* the job that the caller waits for decides anew.
LEMMA MovedStays ==
    ASSUME TypeOK, StaleMisled, [Next]_vars,
           NEW d \in Callers, moved[d], ~misled[d], ~(pc[d] = "teardown" /\ pc'[d] = "user")
    PROVE  moved'[d] \/ \E x \in Ctx : engine_stop(x) /\ Waits(d, x)
<1>1. ASSUME NEW c \in Callers, CallerStep(c) \/ signal_caller(c)
      PROVE  moved'[d]
  <2>1. CASE d # c
    BY <1>1, <2>1, OtherCaller
  <2>2. CASE d = c
    <3>1. ~teardown(c)
        BY <2>2 DEF teardown, Goto, TypeOK
    <3>2. moved' = moved
        BY <1>1, <3>1, Zenon
        DEF CallerStep, eon_hdma, spin_lock, regs_refused, hdma_start_transfer,
            wait_sleep, wait_done, wait_signal, wait_timeout, end_phase,
            signal_caller, historyVars
    <3> QED
        BY <3>2
  <2> QED
    BY <2>1, <2>2
<1>2. ASSUME NEW y \in Ctx, engine_stop(y)
      PROVE  moved'[d] \/ Waits(d, y)
  <2>1. CASE engine[y].who = d
    BY <2>1 DEF StaleMisled
  <2>2. CASE engine[y].who # d
    <3>1. moved'[d] = moved[d]
        BY <1>2, <2>2 DEF engine_stop, TypeOK
    <3> QED
        BY <3>1
  <2> QED
    BY <2>1, <2>2
<1>3. ASSUME NEW y \in Ctx, engine_watermark(y) \/ engine_abort(y) \/ device_start(y)
      PROVE  moved'[d]
  <2>1. moved' = moved
    BY <1>3, Zenon DEF engine_watermark, engine_abort, device_start, historyVars
  <2> QED
    BY <2>1
<1>4. CASE kthread_step \/ isr_step \/ UNCHANGED vars
  <2>1. moved' = moved
    BY <1>4, Zenon DEF kthread_step, isr_step, vars, historyVars
  <2> QED
    BY <2>1
<1> QED
    BY <1>1, <1>2, <1>3, <1>4, Zenon DEF Next

\* The data phase has moved the data when its engine is at rest.
LEMMA StepDataAtRest ==
    ASSUME TypeOK, LockOwner, InStep, KindOfPhase, StaleMisled, DescReady, DataAtRest,
           [Next]_vars
    PROVE  DataAtRest'
<1> SUFFICES ASSUME NEW d \in Callers, NEW x \in Ctx, AtRest(d, x)',
                    phase'[d] = "data", ~misled'[d], ~SharesDesc(d)
             PROVE  moved'[d]
    BY DEF DataAtRest, Alone, SharesDesc
<1>1. /\ Waits(d, x) /\ phase[d] = "data"
      /\ \/ AtRest(d, x)
         \/ engine_stop(x) /\ engine[x].who = d /\ engine[x].kind = "data"
    BY RestComes
<1>2. pc[d] = "wait" /\ pc'[d] = "wait"
    BY <1>1 DEF Waits, AtRest
<1>3. misled'[d] = misled[d]
  <2>1. ASSUME NEW c \in Callers, CallerStep(c) \/ signal_caller(c)
        PROVE  misled'[d] = misled[d]
    BY <1>2, <2>1, StillWaits, OtherCaller
  <2>2. ASSUME NEW y \in Ctx,
               engine_stop(y) \/ engine_watermark(y) \/ engine_abort(y) \/ device_start(y)
        PROVE  misled'[d] = misled[d]
    BY <2>2, DeviceFrame
  <2>3. CASE kthread_step \/ isr_step \/ UNCHANGED vars
    BY <2>3 DEF kthread_step, isr_step, vars, historyVars
  <2> QED
    BY <2>1, <2>2, <2>3 DEF Next
<1>4. Alone(d)
    BY <1>3 DEF Alone
<1>5. CASE engine_stop(x) /\ engine[x].who = d /\ engine[x].kind = "data"
  <2>1. moved'[d] = (pc[d] = "wait" /\ CurCtx(d) = x /\ descOwner[DescOf[d]] = d)
    BY <1>5, Zenon DEF engine_stop, TypeOK
  <2>2. descOwner[DescOf[d]] = d
    BY <1>1, <1>4 DEF DescReady
  <2> QED
    BY <1>1, <2>1, <2>2 DEF Waits
<1>6. CASE AtRest(d, x)
  <2>1. moved[d]
    BY <1>1, <1>4, <1>6 DEF DataAtRest
  <2>2. ASSUME NEW y \in Ctx, engine_stop(y), Waits(d, y)
        PROVE  FALSE
    BY <1>6, <2>2 DEF engine_stop, AtRest, Waits
  <2> QED
    BY <1>2, <1>4, <2>1, <2>2, MovedStays DEF Alone
<1> QED
    BY <1>1, <1>5, <1>6

\* An ioctl on its way out with success has moved its data.
LEMMA StepDataDone ==
    ASSUME TypeOK, TypeOK', InStep, StaleMisled, DataAtRest, DataDone, [Next]_vars
    PROVE  DataDone'
<1> SUFFICES ASSUME NEW d \in Callers, pc'[d] = "teardown", ret'[d] = "ok",
                    ~misled'[d], ~SharesDesc(d)
             PROVE  moved'[d]
    BY DEF DataDone, Alone, SharesDesc
<1>0. ASSUME pc[d] = "teardown", ret[d] = "ok", ~misled[d]
      PROVE  moved'[d]
  <2>1. moved[d]
    BY <1>0 DEF DataDone, Alone
  <2>2. \A x \in Ctx : ~Waits(d, x)
    BY <1>0 DEF Waits
  <2> QED
    BY <1>0, <2>1, <2>2, MovedStays
<1>1. ASSUME NEW c \in Callers, CallerStep(c) \/ signal_caller(c)
      PROVE  moved'[d]
  <2>1. CASE d # c
    BY <1>0, <1>1, <2>1, OtherCaller, CallerFrame
  <2>2. CASE d = c /\ EndsWait(c)
    <3>1. ~misled[d] /\ AtRest(d, CurCtx(d)) /\ moved' = moved /\ phase[d] # "desc"
        BY <2>2, EndAtRest
    <3>2. moved[d]
        BY <3>1, CurCtxType DEF DataAtRest, Alone, TypeOK
    <3> QED
        BY <3>1, <3>2
  <2>3. CASE d = c /\ ~EndsWait(c)
    <3>1. /\ ~eon_hdma(c) /\ ~spin_lock(c) /\ ~hdma_start_transfer(c) /\ ~teardown(c)
        BY <2>3 DEF eon_hdma, spin_lock, hdma_start_transfer, teardown, Goto, TypeOK
    <3>2. ~regs_refused(c)
        BY <2>3 DEF regs_refused, RefusedRet, TypeOK
    <3>3. UNCHANGED <<pc, ret, misled>>
        BY <1>1, <2>3, <3>1, <3>2, Zenon
        DEF CallerStep, EndsWait, wait_sleep, signal_caller, callerVars, historyVars
    <3> QED
        BY <1>0, <3>3
  <2> QED
    BY <2>1, <2>2, <2>3
<1>2. ASSUME NEW y \in Ctx,
             engine_stop(y) \/ engine_watermark(y) \/ engine_abort(y) \/ device_start(y)
      PROVE  moved'[d]
    BY <1>0, <1>2, DeviceFrame
<1>3. CASE kthread_step \/ isr_step \/ UNCHANGED vars
  <2>1. UNCHANGED <<pc, ret, misled>>
    BY <1>3, Zenon DEF kthread_step, isr_step, vars, callerVars, historyVars
  <2> QED
    BY <1>0, <2>1
<1> QED
    BY <1>1, <1>2, <1>3 DEF Next

-----------------------------------------------------------------------------
(* The inductive invariant and what follows from it.                       *)

DeliveryInv ==
    /\ TransferInv
    /\ AbortNoted /\ NoMissedWakeup
    /\ WaiterStays /\ NoLostCompletion
    /\ KindOfPhase /\ StaleMisled
    /\ DescDone /\ DescReady
    /\ DataAtRest /\ DataDone

\* The initial state satisfies it: nobody waits and every engine is idle.
LEMMA InitDelivery == Init => DeliveryInv
<1> SUFFICES ASSUME Init PROVE DeliveryInv
    OBVIOUS
<1>1. TransferInv
    BY InitInv
<1>2. AbortNoted /\ NoMissedWakeup /\ WaiterStays
    BY DEF Init, IrqInit, AbortNoted, AbortAt, NoMissedWakeup, WaiterStays, AtCtx
<1>3. NoLostCompletion /\ DescDone /\ DataAtRest
    BY DEF Init, NoLostCompletion, DescDone, DataAtRest, AtRest, Waits
<1>4. KindOfPhase /\ StaleMisled
    BY TransferAssumption DEF Init, KindOfPhase, StaleMisled, NoJob
<1>5. DescReady /\ DataDone
    BY DEF Init, DescReady, DataDone
<1> QED
    BY <1>1, <1>2, <1>3, <1>4, <1>5 DEF DeliveryInv

\* Every step preserves it.
LEMMA StepDelivery == DeliveryInv /\ [Next]_vars => DeliveryInv'
<1> SUFFICES ASSUME DeliveryInv, [Next]_vars PROVE DeliveryInv'
    OBVIOUS
<1>1. TransferInv'
    BY StepInv DEF DeliveryInv
<1>2. TypeOK /\ LockOwner /\ InStep /\ TypeOK' /\ InStep'
    BY <1>1 DEF DeliveryInv, TransferInv
<1>3. AbortNoted' /\ NoMissedWakeup'
    BY <1>2, StepAbortNoted, StepNoMissedWakeup DEF DeliveryInv
<1>4. WaiterStays' /\ NoLostCompletion'
    BY <1>2, StepWaiterStays, StepNoLostCompletion DEF DeliveryInv
<1>5. KindOfPhase' /\ StaleMisled'
    BY <1>2, StepKindOfPhase, StepStaleMisled DEF DeliveryInv
<1>6. DescDone' /\ DescReady'
    BY <1>2, StepDescDone, StepDescReady DEF DeliveryInv
<1>7. DataAtRest' /\ DataDone'
    BY <1>2, StepDataAtRest, StepDataDone DEF DeliveryInv
<1> QED
    BY <1>1, <1>3, <1>4, <1>5, <1>6, <1>7 DEF DeliveryInv

\* The inductive invariant holds in every behaviour.
LEMMA DeliveryInvariance == Spec => []DeliveryInv
BY InitDelivery, StepDelivery, PTL DEF Spec

\* A completion that the kthread has recorded never leaves its task asleep: the
\* wake-up is still to come, unless an abort or a lone watermark was recorded.
THEOREM WakeupSafety == Spec => []NoMissedWakeup
<1>1. DeliveryInv => NoMissedWakeup
    BY DEF DeliveryInv
<1> QED
    BY <1>1, DeliveryInvariance, PTL

\* While a task waits for an engine that has finished, the news is in the status
\* register or in the hands of the kthread, unless an earlier wait ended early
\* or was overtaken.
THEOREM CompletionKept == Spec => []NoLostCompletion
<1>1. DeliveryInv => NoLostCompletion
    BY DEF DeliveryInv
<1> QED
    BY <1>1, DeliveryInvariance, PTL

\* An engine runs the linked list of the caller who started it, although the
\* lock is free between the two phases, if no other caller uses the same
\* desc_addr and no wait was disturbed.
THEOREM ListSafety == Spec => []DescriptorsIntact
<1>1. DeliveryInv => DescriptorsIntact
  <2> SUFFICES ASSUME DeliveryInv, NEW x \in Ctx, engine[x].kind = "data",
                      causes[x] \cap Early = {}, ~misled[engine[x].who],
                      ~SharesDesc(engine[x].who)
               PROVE  descOwner[DescOf[engine[x].who]] = engine[x].who
    BY DEF DescriptorsIntact
  <2>1. TypeOK
    BY DEF DeliveryInv, TransferInv
  <2>2. engine[x].st # "idle"
    BY <2>1 DEF TypeOK, Jobs, NoJob
  <2>3. engine[x].who \in Callers /\ phase[engine[x].who] = "data"
    BY <2>1, <2>2, JobType DEF DeliveryInv, KindOfPhase
  <2> QED
    BY <2>3 DEF DeliveryInv, DescReady, Alone
<1> QED
    BY <1>1, DeliveryInvariance, PTL

\* An inbound ioctl that returns 0 has moved the data of its own list, if none
\* of its waits was disturbed and no other caller uses the same desc_addr.
THEOREM MovedOnSuccess == Spec => SuccessMeansMoved
<1> DEFINE A == \A c \in Callers :
                  /\ pc[c] = "teardown" /\ pc'[c] = "user" /\ req[c].op = "in"
                  /\ Result(c) = "ok" /\ ~misled[c] /\ ~SharesDesc(c)
                  => moved[c]
<1>1. DeliveryInv => A
    BY DEF DeliveryInv, DataDone, Alone, Result
<1>2. DeliveryInv /\ [Next]_vars => [A]_vars
    BY <1>1
<1> QED
    BY <1>2, DeliveryInvariance, PTL DEF Spec, SuccessMeansMoved

=============================================================================
