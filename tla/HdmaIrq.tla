------------------------------- MODULE HdmaIrq -------------------------------
(***************************************************************************)
(* The interrupt path of the driver: HDMA_INT_STATUS of every channel, the *)
(* MSI that all channels share, dma_isr_handler() with its kfifo, and      *)
(* hama_handle_kthread(), which scans the channels, records completions in *)
(* the contexts and wakes the tasks that sleep on their wait queues.       *)
(*                                                                         *)
(* The tasks and the engines are represented by what they do to these      *)
(* variables (begin_wait, sleep_on, leave_wait, raise_status); the module  *)
(* HdmaTransfer says when they do it.                                      *)
(***************************************************************************)
EXTENDS Naturals, FiniteSets

CONSTANTS
    NumHdma,    \* MAX_HDMA_NUMBER: 16 in the code
    FifoSize,   \* bytes of hdma_kfifo: 4096 in the code
    LoopLimit,  \* empty scans before a stale kfifo byte is dropped: 32
    Reported    \* the status bits that engines report

StatusBits == {"stop", "watermark", "abort"}

ASSUME IrqAssumption ==
    /\ NumHdma \in Nat \ {0}
    /\ FifoSize \in Nat \ {0}
    /\ LoopLimit \in Nat \ {0}
    /\ Reported \subseteq StatusBits

\* The contexts hdmar[i] and hdmaw[i], and the order the kthread scans them.
Ctx == (0 .. NumHdma - 1) \X {"r", "w"}
LastPos == 2 * NumHdma - 1
CtxAt(k) == <<k \div 2, IF k % 2 = 0 THEN "r" ELSE "w">>

VARIABLES
    state,      \* enum hdma_state of each context
    asleep,     \* a task sleeps on the wait queue wq of the context
    intStatus,  \* HDMA_INT_STATUS of each channel
    msi,        \* an MSI is on its way to the host
    kfifo,      \* number of bytes in hdma_kfifo
    \* the kthread: location, position of the scan, irq_status, loop, and
    \* whether the scan is the "extra loop"
    kpc, kpos, kirq, kloop, kextra

kthreadVars == <<kpc, kpos, kirq, kloop, kextra>>
irqVars == <<state, asleep, intStatus, msi, kfifo, kthreadVars>>

AtCtx(loc, x) == kpc = loc /\ CtxAt(kpos) = x

IrqInit ==
    /\ state = [x \in Ctx |-> "IDLE"]
    /\ asleep = [x \in Ctx |-> FALSE]
    /\ intStatus = [x \in Ctx |-> {}]
    /\ msi = FALSE
    /\ kfifo = 0
    /\ kpc = "while" /\ kpos = 0 /\ kirq = {} /\ kloop = 0 /\ kextra = FALSE

-----------------------------------------------------------------------------
(* What tasks and engines do to the shared state.                          *)

\* state = TRANSFER_STATE_RUNNING, before the transfer is started.
begin_wait(x) ==
    /\ state' = [state EXCEPT ![x] = "RUNNING"]
    /\ UNCHANGED <<asleep, intStatus, msi, kfifo, kthreadVars>>

\* wait_event_interruptible_timeout(): the condition state != RUNNING is
\* tested, and the task goes to sleep, in one step.  The wait queue guarantees
\* that no wake-up falls between the two.
sleep_on(x) ==
    /\ ~asleep[x] /\ state[x] = "RUNNING"
    /\ asleep' = [asleep EXCEPT ![x] = TRUE]
    /\ UNCHANGED <<state, intStatus, msi, kfifo, kthreadVars>>

\* The wait ends on the task's side: by timeout, by a signal, or because the
\* task, awake again, finds the condition true.
leave_wait(x) ==
    /\ asleep' = [asleep EXCEPT ![x] = FALSE]
    /\ UNCHANGED <<state, intStatus, msi, kfifo, kthreadVars>>

\* The engine sets a status bit and sends an MSI, if that is enabled.
raise_status(x, b, enabled) ==
    /\ b \in Reported
    /\ intStatus' = [intStatus EXCEPT ![x] = @ \cup {b}]
    /\ msi' = (msi \/ enabled)
    /\ UNCHANGED <<state, asleep, kfifo, kthreadVars>>

-----------------------------------------------------------------------------
(* Interrupt handler and kthread.                                          *)

\* kfifo_in() drops the byte when the kfifo is full.
KfifoInUnbounded == kfifo + 1
kfifo_in == IF kfifo < FifoSize THEN kfifo + 1 ELSE kfifo
kfifo_out(n) == IF kfifo > n THEN kfifo - n ELSE 0

dma_isr_handler ==
    /\ msi
    /\ msi' = FALSE
    /\ kfifo' = kfifo_in
    /\ UNCHANGED <<state, asleep, intStatus, kthreadVars>>

\* hama_handle_kthread(), step by step.  The wait on thread_wq ends at the
\* latest after 200 ms, so it may end at any time.  While the kfifo holds a
\* byte the channels are scanned; when it is empty the "extra loop" scans them
\* once more, and the thread waits again.
NoExtraScan == FALSE
ExtraScan == kfifo = 0

kthread_while ==
    /\ kpc = "while"
    /\ \/ /\ kfifo > 0
          /\ kloop' = kloop + 1
          /\ UNCHANGED kextra
       \/ /\ ExtraScan
          /\ kextra' = TRUE
          /\ UNCHANGED kloop
    /\ kpc' = "scan"
    /\ UNCHANGED <<state, asleep, intStatus, msi, kfifo, kpos, kirq>>

\* Both scans read HDMA_INT_STATUS of one context after the other and stop at
\* the first that has a bit set.
kthread_scan ==
    /\ kpc = "scan"
    /\ LET s == intStatus[CtxAt(kpos)] IN
        \/ /\ s # {}
           /\ kirq' = s
           /\ kpc' = "set"
           /\ UNCHANGED <<kpos, kextra>>
        \/ /\ s = {} /\ kpos < LastPos
           /\ kpos' = kpos + 1
           /\ UNCHANGED <<kpc, kirq, kextra>>
        \/ /\ s = {} /\ kpos = LastPos
           /\ kpc' = IF kextra THEN "while" ELSE "loop"
           /\ kpos' = 0 /\ kextra' = FALSE
           /\ UNCHANGED kirq
    /\ UNCHANGED <<state, asleep, intStatus, msi, kfifo, kloop>>

\* state = TRANSFER_STATE_COMPLETED, whichever bit was found.
CompletedByBytesOnly(x) == IF kextra THEN state ELSE [state EXCEPT ![x] = "COMPLETED"]
Completed(x) == [state EXCEPT ![x] = "COMPLETED"]

kthread_set ==
    /\ kpc = "set"
    /\ state' = Completed(CtxAt(kpos))
    /\ kpc' = "clear"
    /\ UNCHANGED <<asleep, intStatus, msi, kfifo, kpos, kirq, kloop, kextra>>

\* hdma_clear_intr_status() writes the bits that were read.
AckedWatermark == kirq \cap {"watermark"}
Acked == kirq

kthread_clear ==
    /\ kpc = "clear"
    /\ intStatus' = [intStatus EXCEPT ![CtxAt(kpos)] = @ \ Acked]
    /\ kpc' = "wake"
    /\ UNCHANGED <<state, asleep, msi, kfifo, kpos, kirq, kloop, kextra>>

\* The first scan wakes the task only for a stop, the extra scan always.
WakesInFirstScanOnly == ~kextra /\ "stop" \in kirq
Wakes == kextra \/ "stop" \in kirq

\* The first scan takes one kfifo byte per stop and per watermark, none for an
\* abort alone; the extra scan takes none.
Taken == IF kextra THEN 0 ELSE Cardinality(kirq \cap {"stop", "watermark"})

kthread_wake ==
    /\ kpc = "wake"
    /\ asleep' = IF Wakes THEN [asleep EXCEPT ![CtxAt(kpos)] = FALSE] ELSE asleep
    /\ kfifo' = kfifo_out(Taken)
    /\ kloop' = IF kextra THEN kloop ELSE 0
    /\ kpc' = "while" /\ kpos' = 0 /\ kirq' = {} /\ kextra' = FALSE
    /\ UNCHANGED <<state, intStatus, msi>>

\* After LoopLimit scans that found nothing the byte is stale: it is dropped,
\* and the extra loop runs if it was the last.
Stale == kloop >= LoopLimit
StaleKept == kfifo
StaleDropped == kfifo_out(1)

kthread_loop ==
    /\ kpc = "loop"
    /\ kfifo' = IF Stale THEN StaleDropped ELSE kfifo
    /\ kloop' = IF Stale THEN 0 ELSE kloop
    /\ kpc' = "while"
    /\ UNCHANGED <<state, asleep, intStatus, msi, kpos, kirq, kextra>>

hama_handle_kthread ==
    \/ kthread_while \/ kthread_scan \/ kthread_set \/ kthread_clear
    \/ kthread_wake \/ kthread_loop

-----------------------------------------------------------------------------
IrqNext ==
    \/ \E x \in Ctx :
        \/ begin_wait(x) \/ sleep_on(x) \/ leave_wait(x)
        \/ \E b \in StatusBits, enabled \in BOOLEAN : raise_status(x, b, enabled)
    \/ dma_isr_handler
    \/ hama_handle_kthread

IrqSpec == IrqInit /\ [][IrqNext]_irqVars

\* The kthread is scheduled and a pending interrupt is served.  Nothing is
\* assumed of tasks and engines.
IrqFairness == WF_irqVars(dma_isr_handler) /\ WF_irqVars(hama_handle_kthread)
IrqFairSpec == IrqSpec /\ IrqFairness

-----------------------------------------------------------------------------
(* Properties.                                                             *)

\* The kthread's locals and the kfifo stay in range: loop never passes its
\* limit and the kfifo never holds more than it can, whatever the device sends.
IrqTypeOK ==
    /\ state \in [Ctx -> {"IDLE", "RUNNING", "COMPLETED"}]
    /\ asleep \in [Ctx -> BOOLEAN]
    /\ intStatus \in [Ctx -> SUBSET StatusBits]
    /\ msi \in BOOLEAN
    /\ kfifo \in 0 .. FifoSize
    /\ kpc \in {"while", "scan", "set", "clear", "wake", "loop"}
    /\ kpos \in 0 .. LastPos
    /\ kirq \in SUBSET StatusBits
    /\ kloop \in 0 .. LoopLimit
    /\ kextra \in BOOLEAN

\* Contexts scanned earlier always win: what follows holds for a context once
\* those before it have fallen silent.
Before(y, x) == \E j, k \in 0 .. LastPos : j < k /\ CtxAt(j) = y /\ CtxAt(k) = x
EarlierSilent(x) == \A y \in Ctx : Before(y, x) => intStatus[y] = {}

\* Each status bit is found and cleared although one kfifo byte may stand for
\* several interrupts, a byte is lost when the kfifo is full, and an abort may
\* come without an MSI: the extra scan looks at the registers every 200 ms.
StatusDrained ==
    \A x \in Ctx, b \in StatusBits :
        <>[]EarlierSilent(x) => (b \in intStatus[x] ~> b \notin intStatus[x])

\* A task that sleeps on a channel that reports a stop is woken.
StopWakes ==
    \A x \in Ctx :
        <>[]EarlierSilent(x) =>
            ("stop" \in intStatus[x] /\ asleep[x] ~> ~asleep[x])

\* Bytes without a cause do not keep the kthread busy for ever: when the
\* channels fall silent the kfifo becomes empty.
KfifoEmpties ==
    <>[](~msi /\ \A x \in Ctx : intStatus[x] = {}) => <>[](kfifo = 0)

=============================================================================
