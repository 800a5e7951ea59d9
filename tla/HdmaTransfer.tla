----------------------------- MODULE HdmaTransfer -----------------------------
(***************************************************************************)
(* The life of an EON_IOCTL_HDMA transfer: the ioctl callers, the channel  *)
(* contexts they share and the DMA engine behind each context, composed    *)
(* with the interrupt path of HdmaIrq.                                     *)
(*                                                                         *)
(* A transfer has two phases.  tranfer_desc() moves the descriptor list to *)
(* the device (always on the read channel), dma_llmode_transmit() then     *)
(* runs that list (on the read channel for inbound, on the write channel   *)
(* for outbound).  Each phase takes the channel's spinlock, programs the   *)
(* channel, rings the doorbell and SLEEPS with the spinlock held.          *)
(***************************************************************************)
EXTENDS HdmaIrq

CONSTANTS
    Callers,    \* tasks that issue the ioctl
    NumCpus,    \* processors of the host
    DescAddrs,  \* device areas for descriptor lists
    DescOf,     \* the desc_addr argument that each caller passes
    Ops,        \* the operations that callers ask for
    Env,        \* the events of the environment that may happen in a run
    None

\* A wait lasts longer than HDMA_TIMEOUT_LENGTH; a signal is sent; a caller
\* leaves the start of the data phase to the device.
EnvEvents == {"timeout", "signal", "deferred"}

ASSUME TransferAssumption ==
    /\ IsFiniteSet(Callers)
    /\ None \notin Callers
    /\ NumCpus \in Nat \ {0}
    /\ DescOf \in [Callers -> DescAddrs]
    /\ Ops \subseteq {"in", "out"}
    /\ Env \subseteq EnvEvents

VARIABLES
    \* the callers: program counter, arguments, phase, pending signal, result,
    \* and whether their pages are pinned and the descriptor buffer is mapped
    pc, req, phase, sig, ret, pinned,
    lock,       \* the owner of the spinlock of each struct hdma_context
    \* the device: the job of each engine, the owner of the list that each
    \* descriptor area holds
    engine, descOwner,
    \* history: why the driver may have lost track of a context, the callers
    \* who relied on a wait on such a context, and those whose data has been
    \* moved by their own list
    causes, misled, moved

callerVars == <<pc, req, phase, sig, ret, pinned>>
deviceVars == <<engine, descOwner>>
historyVars == <<causes, misled, moved>>
vars == <<irqVars, callerVars, lock, deviceVars, historyVars>>

\* The program counter of a caller, and the part where it owns a spinlock.
Locations == {"user", "spin", "doorbell", "wait", "teardown"}
Critical == {"doorbell", "wait"}
Requests == [id : 0 .. NumHdma - 1, op : {"in", "out"}]
FirstReq == [id |-> 0, op |-> "in"]

\* The ways a wait can end, or be made to end, before the engine stops; and
\* a completion seen before the kthread has acknowledged its interrupt.
Early == {"timeout", "signal", "watermark"}
Causes == Early \cup {"abort", "overtake"}

NoJob == [st |-> "idle", who |-> None, kind |-> "none"]
Jobs == [st : {"armed", "busy", "tail"}, who : Callers, kind : {"desc", "data"}]

\* The descriptor phase and inbound data use hdmar[id], outbound data hdmaw[id].
CurCtx(c) == <<req[c].id,
               IF phase[c] = "data" /\ req[c].op = "out" THEN "w" ELSE "r">>

Spinners == {c \in Callers : pc[c] = "spin"}
\* A spinning task never leaves its processor: all the others share the rest.
CpuFree == Cardinality(Spinners) < NumCpus

Init ==
    /\ IrqInit
    /\ pc = [c \in Callers |-> "user"]
    /\ req = [c \in Callers |-> FirstReq]
    /\ phase = [c \in Callers |-> "desc"]
    /\ sig = [c \in Callers |-> FALSE]
    /\ ret = [c \in Callers |-> "ok"]
    /\ pinned = [c \in Callers |-> FALSE]
    /\ lock = [x \in Ctx |-> None]
    /\ engine = [x \in Ctx |-> NoJob]
    /\ descOwner = [d \in DescAddrs |-> None]
    /\ causes = [x \in Ctx |-> {}]
    /\ misled = [c \in Callers |-> FALSE]
    /\ moved = [c \in Callers |-> FALSE]

-----------------------------------------------------------------------------
(* The caller.                                                             *)

Goto(c, l) == pc' = [pc EXCEPT ![c] = l]

\* eon_hdma() up to the first transfer: arguments, dpu_setup_sg(),
\* set_hdma_desc(), and the start to spin for the lock of the first phase.  A
\* call that fails before has not touched the state that callers share.
eon_hdma(c) ==
    /\ pc[c] = "user" /\ CpuFree
    /\ \E i \in 0 .. NumHdma - 1, op \in Ops :
        req' = [req EXCEPT ![c] = [id |-> i, op |-> op]]
    /\ pinned' = [pinned EXCEPT ![c] = TRUE]
    /\ Goto(c, "spin")
    /\ UNCHANGED <<irqVars, phase, sig, ret, lock, deviceVars, historyVars>>

\* spin_lock() succeeds when the lock is free.  Then hdma_set_attr(),
\* hdma_enable_intr(), set_xfer_data() or hdma_set_desc_pointer(), and state =
\* TRANSFER_STATE_RUNNING.  History: a context that has come to rest is in
\* step with its driver again.
AcquireAlways(x) == TRUE
MayAcquire(x) == lock[x] = None

Quiet(x) ==
    /\ engine[x] = NoJob /\ intStatus[x] = {}
    /\ ~AtCtx("set", x) /\ ~AtCtx("clear", x)

spin_lock(c) ==
    /\ pc[c] = "spin"
    /\ LET x == CurCtx(c) IN
        /\ MayAcquire(x)
        /\ lock' = [lock EXCEPT ![x] = c]
        /\ begin_wait(x)
        /\ causes' = [causes EXCEPT ![x] = IF Quiet(x) THEN {} ELSE @]
    /\ Goto(c, "doorbell")
    /\ UNCHANGED <<req, phase, sig, ret, pinned, deviceVars, misled, moved>>

\* The register writes that dma_llmode_transmit() does for the caller before
\* the doorbell (the registers themselves are the subject of ConfigWindow).  A
\* write that is refused ends the phase, with the lock released on the way out.
RefusedKeepsLock(c) == lock
RefusedLock(c) == [lock EXCEPT ![CurCtx(c)] = None]
RefusedReturnsZero(c) == ret
RefusedRet(c) == [ret EXCEPT ![c] = "err"]

regs_refused(c) ==
    /\ pc[c] = "doorbell" /\ phase[c] = "data" /\ CpuFree
    /\ Goto(c, "teardown")
    /\ ret' = RefusedRet(c)
    /\ lock' = RefusedLock(c)
    /\ UNCHANGED <<irqVars, req, phase, sig, pinned, deviceVars, historyVars>>

\* hdma_start_transfer(): the doorbell.  A data phase whose enable argument
\* is not dma_enable leaves the start to the device.  What a doorbell does to
\* an engine that still runs an abandoned job is left open: that job goes on,
\* or the new one replaces it.
hdma_start_transfer(c) ==
    /\ pc[c] = "doorbell" /\ CpuFree
    /\ LET x == CurCtx(c)
           Job(st) == [st |-> st, who |-> c, kind |-> phase[c]]
       IN
        /\ \/ engine' = [engine EXCEPT ![x] = Job("busy")]
           \/ /\ "deferred" \in Env /\ phase[c] = "data"
              /\ engine[x].st \in {"idle", "armed"}
              /\ engine' = [engine EXCEPT ![x] = Job("armed")]
           \/ /\ engine[x].st # "idle"
              /\ UNCHANGED engine
        /\ descOwner' = IF phase[c] = "desc"
                          THEN [descOwner EXCEPT ![DescOf[c]] = None]
                          ELSE descOwner
    /\ Goto(c, "wait")
    /\ UNCHANGED <<irqVars, req, phase, sig, ret, pinned, lock, historyVars>>

\* wait_event_interruptible_timeout() with the condition state != RUNNING.
ConditionUnlessArmed(c) ==
    state[CurCtx(c)] # "RUNNING" \/ engine[CurCtx(c)].st = "armed"
ConditionOfDataPhase(c) == state[CurCtx(c)] # "RUNNING" \/ phase[c] = "desc"
Condition(c) == state[CurCtx(c)] # "RUNNING"

wait_sleep(c) ==
    /\ pc[c] = "wait" /\ ~sig[c] /\ CpuFree
    /\ ~Condition(c)
    /\ sleep_on(CurCtx(c))
    /\ UNCHANGED <<callerVars, lock, deviceVars, historyVars>>

\* The end of a phase: spin_unlock() and the caller's choice of what follows.
\* cause says, for the history, why the context may now be out of step.
end_phase(c, result, cause) ==
    LET x == CurCtx(c) IN
    /\ leave_wait(x)
    /\ lock' = [lock EXCEPT ![x] = None]
    /\ causes' = [causes EXCEPT ![x] = @ \cup cause]
    /\ misled' = [misled EXCEPT ![c] =
                    @ \/ (causes[x] \cup cause) \cap (Early \cup {"abort"}) # {}]
    /\ ret' = [ret EXCEPT ![c] = result]
    /\ IF result = "ok" /\ phase[c] = "desc"
         THEN /\ Goto(c, "spin")
              /\ phase' = [phase EXCEPT ![c] = "data"]
         ELSE /\ Goto(c, "teardown")
              /\ UNCHANGED phase
    /\ UNCHANGED <<req, sig, pinned, deviceVars, moved>>

\* The wait ends with the condition true.  History: it may do so while the
\* kthread has yet to clear the interrupt.
Overtake(c) == IF AtCtx("clear", CurCtx(c)) THEN {"overtake"} ELSE {}

wait_done(c) ==
    /\ pc[c] = "wait" /\ ~asleep[CurCtx(c)] /\ CpuFree
    /\ Condition(c)
    /\ end_phase(c, "ok", Overtake(c))

\* A pending signal ends the wait with -ERESTARTSYS.  The code only compares
\* the result with 0, so the phase counts as done.
wait_signal(c) ==
    /\ pc[c] = "wait" /\ ~asleep[CurCtx(c)] /\ CpuFree
    /\ ~Condition(c) /\ sig[c]
    /\ end_phase(c, "ok", {"signal"})

\* HDMA_TIMEOUT_LENGTH has passed: 0 is returned, and the phase fails, only
\* if the condition is still false.
NoTimeout(c) == FALSE
TimesOut(c) == "timeout" \in Env /\ asleep[CurCtx(c)]

wait_timeout(c) ==
    /\ pc[c] = "wait" /\ TimesOut(c) /\ CpuFree
    /\ \/ ~Condition(c) /\ end_phase(c, "err", {"timeout"})
       \/ Condition(c) /\ end_phase(c, "ok", Overtake(c))

\* The result of the ioctl: eon_hdma_outbound() returns tc, which is always 0,
\* on its error paths.
Result(c) == IF req[c].op = "out" THEN "ok" ELSE ret[c]

\* teardown_dma_desc(), dpu_teardown_sg() and the way back to user space, where
\* the locals are gone and pending signals are delivered.
teardown(c) ==
    /\ pc[c] = "teardown" /\ CpuFree
    /\ Goto(c, "user")
    /\ pinned' = [pinned EXCEPT ![c] = FALSE]
    /\ req' = [req EXCEPT ![c] = FirstReq]
    /\ phase' = [phase EXCEPT ![c] = "desc"]
    /\ ret' = [ret EXCEPT ![c] = "ok"]
    /\ sig' = [sig EXCEPT ![c] = FALSE]
    /\ misled' = [misled EXCEPT ![c] = \E x \in Ctx : engine[x].who = c]
    /\ moved' = [moved EXCEPT ![c] = FALSE]
    /\ UNCHANGED <<irqVars, lock, deviceVars, causes>>

\* Environment: a signal for a task that is inside the ioctl wakes it.
signal_caller(c) ==
    /\ "signal" \in Env
    /\ pc[c] # "user" /\ ~sig[c]
    /\ sig' = [sig EXCEPT ![c] = TRUE]
    /\ IF pc[c] = "wait" THEN leave_wait(CurCtx(c)) ELSE UNCHANGED irqVars
    /\ UNCHANGED <<pc, req, phase, ret, pinned, lock, deviceVars, historyVars>>

CallerStep(c) ==
    \/ eon_hdma(c) \/ spin_lock(c) \/ regs_refused(c) \/ hdma_start_transfer(c)
    \/ wait_sleep(c) \/ wait_done(c) \/ wait_signal(c) \/ wait_timeout(c)
    \/ teardown(c)

-----------------------------------------------------------------------------
(* The device, external to the driver.                                     *)

\* The engine finishes its job: stop bit and MSI.  A descriptor job has then
\* filled its area; a data job has run whatever list the area held.
engine_stop(x) ==
    /\ engine[x].st \in {"busy", "tail"}
    /\ engine' = [engine EXCEPT ![x] = NoJob]
    /\ raise_status(x, "stop", TRUE)
    /\ LET c == engine[x].who IN
        IF engine[x].kind = "desc"
          THEN /\ descOwner' = [descOwner EXCEPT ![DescOf[c]] = c]
               /\ UNCHANGED moved
          ELSE /\ moved' = [moved EXCEPT ![c] = /\ pc[c] = "wait" /\ CurCtx(c) = x
                                                /\ descOwner[DescOf[c]] = c]
               /\ UNCHANGED descOwner
    /\ UNCHANGED <<callerVars, lock, causes, misled>>

\* The last data element of a list has LIE and RIE set: when it is done, the
\* engine raises the watermark bit and goes on to the link element.
engine_watermark(x) ==
    /\ engine[x].st = "busy" /\ engine[x].kind = "data"
    /\ engine' = [engine EXCEPT ![x].st = "tail"]
    /\ raise_status(x, "watermark", TRUE)
    /\ UNCHANGED <<callerVars, lock, descOwner, historyVars>>

\* The engine gives up.  The remote abort interrupt is enabled by the mask of
\* tranfer_desc() (0x3d) and not by that of dma_llmode_transmit() (0x18).
engine_abort(x) ==
    /\ engine[x].st \in {"busy", "tail"}
    /\ engine' = [engine EXCEPT ![x] = NoJob]
    /\ raise_status(x, "abort", engine[x].kind = "desc")
    /\ causes' = [causes EXCEPT ![x] = @ \cup {"abort"}]
    /\ UNCHANGED <<callerVars, lock, descOwner, misled, moved>>

\* The device starts a channel that was programmed with enable = 0.
device_start(x) ==
    /\ engine[x].st = "armed"
    /\ engine' = [engine EXCEPT ![x].st = "busy"]
    /\ UNCHANGED <<irqVars, callerVars, lock, descOwner, historyVars>>

-----------------------------------------------------------------------------
(* The interrupt path.  The handler interrupts any processor, one with a   *)
(* spinning task too; the kthread needs a processor of its own.            *)

isr_step ==
    /\ dma_isr_handler
    /\ UNCHANGED <<callerVars, lock, deviceVars, historyVars>>

\* History: a lone watermark is about to be taken for the completion.
kthread_step ==
    /\ CpuFree
    /\ hama_handle_kthread
    /\ causes' = IF kpc = "set" /\ kirq = {"watermark"}
                   THEN [causes EXCEPT ![CtxAt(kpos)] = @ \cup {"watermark"}]
                   ELSE causes
    /\ UNCHANGED <<callerVars, lock, deviceVars, misled, moved>>

-----------------------------------------------------------------------------
Next ==
    \/ \E c \in Callers : CallerStep(c) \/ signal_caller(c)
    \/ \E x \in Ctx : \/ engine_stop(x) \/ engine_watermark(x)
                      \/ engine_abort(x) \/ device_start(x)
    \/ isr_step
    \/ kthread_step

Spec == Init /\ [][Next]_vars

\* A task inside the ioctl, the kthread and a pending interrupt always go on.
\* The queued spinlock serves its waiters in turn, and a runnable task gets a
\* processor if one comes free again and again: hence strong fairness.
\* Nothing is assumed of the engines, of user space or of signals.
InsideIoctl(c) == CallerStep(c) /\ pc[c] # "user"

Fairness ==
    /\ \A c \in Callers : SF_vars(InsideIoctl(c))
    /\ SF_vars(kthread_step)
    /\ WF_vars(isr_step)

FairSpec == Spec /\ Fairness

-----------------------------------------------------------------------------
(* Properties.                                                             *)

TypeOK ==
    /\ IrqTypeOK
    /\ pc \in [Callers -> Locations]
    /\ req \in [Callers -> Requests]
    /\ phase \in [Callers -> {"desc", "data"}]
    /\ sig \in [Callers -> BOOLEAN]
    /\ ret \in [Callers -> {"ok", "err"}]
    /\ pinned \in [Callers -> BOOLEAN]
    /\ lock \in [Ctx -> Callers \cup {None}]
    /\ engine \in [Ctx -> Jobs \cup {NoJob}]
    /\ descOwner \in [DescAddrs -> Callers \cup {None}]
    /\ causes \in [Ctx -> SUBSET Causes]
    /\ misled \in [Callers -> BOOLEAN]
    /\ moved \in [Callers -> BOOLEAN]

\* Every path of tranfer_desc() and dma_llmode_transmit() that takes the
\* spinlock of a context gives it back, and only its owner is between the two.
LockOwner ==
    \A x \in Ctx, c \in Callers :
        lock[x] = c <=> (pc[c] \in Critical /\ CurCtx(c) = x)

\* A task sleeps with the spinlock held while others spin for it.  With no
\* more tasks than processors that never becomes a lockup: when spinning tasks
\* occupy every processor, one of the locks they spin for is free.
NoLockup ==
    Cardinality(Callers) <= NumCpus /\ ~CpuFree =>
        \E c \in Spinners : lock[CurCtx(c)] = None

\* Unless a wait ended early (timeout, signal, a lone watermark taken for the
\* completion), an engine runs only between the lock and the unlock of a
\* phase: whoever takes the lock finds it idle, and programs an idle engine.
IdleWhenTaken ==
    \A x \in Ctx :
        /\ causes[x] \cap Early = {}
        /\ lock[x] = None \/ \E c \in Callers : lock[x] = c /\ pc[c] = "doorbell"
        => engine[x].st = "idle"

\* Unless a wait ended early, the pages and the descriptor buffer of a job
\* stay pinned and mapped for as long as an engine may touch them.
PinnedWhileBusy ==
    \A x \in Ctx :
        engine[x].st # "idle" /\ causes[x] \cap Early = {}
            => pinned[engine[x].who]

\* What the driver knows of a context none of whose waits ended early, in the
\* form that every step preserves.  A job belongs to the task that waits on the
\* context; a stop or abort bit is the news that this task waits for, or is
\* just being cleared; the kthread records only such news; and none of it is
\* recorded between the programming of a channel and its doorbell.
Ends(x) == intStatus[x] \cap {"stop", "abort"}
Pending(x) ==
    /\ engine[x].st = "idle" /\ state[x] = "RUNNING"
    /\ \E c \in Callers : pc[c] = "wait" /\ CurCtx(c) = x

InStepAt(x) ==
    /\ engine[x].st # "idle" =>
          /\ pc[engine[x].who] = "wait" /\ CurCtx(engine[x].who) = x
          /\ state[x] = "RUNNING"
    /\ Ends(x) # {} =>
          Pending(x) \/ (AtCtx("clear", x) /\ Ends(x) \subseteq kirq)
    /\ AtCtx("set", x) /\ kirq # {"watermark"} =>
          Pending(x) /\ Ends(x) \subseteq kirq
    /\ \A c \in Callers :
          pc[c] = "doorbell" /\ CurCtx(c) = x => state[x] = "RUNNING"

InStep == \A x \in Ctx : causes[x] \cap Early = {} => InStepAt(x)

\* An engine that has finished is never forgotten: the status bit is still
\* there for a scan, or the kthread is about to record the completion.  The
\* exceptions are a previous transfer that ended early or whose status the
\* kthread clears only after the next one has begun.
NoLostCompletion ==
    \A c \in Callers :
        LET x == CurCtx(c) IN
        /\ pc[c] = "wait" /\ state[x] = "RUNNING" /\ engine[x].st = "idle"
        /\ causes[x] \subseteq {"abort"}
        => Ends(x) # {} \/ AtCtx("set", x)

\* A task is never left asleep by a completion that has been recorded: the
\* kthread is on its way to wake it.  The exceptions are the bits for which
\* the first scan does not wake anyone: an abort, a lone watermark.
NoMissedWakeup ==
    \A x \in Ctx :
        asleep[x] /\ state[x] # "RUNNING" /\ causes[x] \cap {"watermark", "abort"} = {}
            => (AtCtx("clear", x) \/ AtCtx("wake", x)) /\ Wakes

SharesDesc(c) == \E d \in Callers \ {c} : DescOf[d] = DescOf[c]

\* The lock is free between the two phases, yet an engine that runs a linked
\* list runs the list of the caller who started it, if no other caller uses
\* the same desc_addr and no wait was disturbed.
DescriptorsIntact ==
    \A x \in Ctx :
        LET c == engine[x].who IN
        /\ engine[x].kind = "data" /\ causes[x] \cap Early = {}
        /\ ~misled[c] /\ ~SharesDesc(c)
        => descOwner[DescOf[c]] = c

\* An inbound ioctl that returns 0 has moved the caller's data, if none of its
\* waits was disturbed.  (An outbound one returns 0 in any case.)
SuccessMeansMoved ==
    [][\A c \in Callers :
        /\ pc[c] = "teardown" /\ pc'[c] = "user" /\ req[c].op = "in"
        /\ Result(c) = "ok" /\ ~misled[c] /\ ~SharesDesc(c)
        => moved[c]]_vars

\* A completion is recorded only for an engine that has finished, unless a
\* wait ended early or a lone watermark is taken for the completion.
CompletedWhenIdle ==
    [][\A x \in Ctx :
        state[x] = "RUNNING" /\ state'[x] = "COMPLETED"
            => engine[x].st = "idle" \/ causes'[x] \cap Early # {}]_vars

\* Spinning tasks occupy every processor, each for a lock whose owner is inside
\* its phase: asleep in the wait or on conbar_lock, or on the way there.  Nobody
\* is left to run the owner, or the kthread that would wake it.
LockedUp ==
    /\ ~CpuFree
    /\ \A s \in Spinners : \E c \in Callers : lock[CurCtx(s)] = c /\ pc[c] \in Critical

\* Whatever the device does, every ioctl returns: each wait is bounded by
\* HDMA_TIMEOUT_LENGTH and each lock is given back.  The exception is a lock-up
\* for good, which takes more tasks than processors (NoLockup): nothing in the
\* driver limits the number of tasks.
IoctlReturns ==
    \/ \A c \in Callers : []<>(pc[c] = "user")
    \/ <>[]LockedUp

=============================================================================
