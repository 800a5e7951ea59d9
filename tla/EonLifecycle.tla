----------------------------- MODULE EonLifecycle -----------------------------
(***************************************************************************)
(* Loading, binding and unbinding of the driver, while its interrupt       *)
(* handler, its kthread and the users of /dev/dpuN are already, or still,  *)
(* at work.  eon_probe() and eon_remove() are sequences of steps; a step   *)
(* of eon_probe() that fails jumps into the ladder of labels at its end.   *)
(***************************************************************************)
EXTENDS Naturals

CONSTANTS
    Users,      \* the tasks that open /dev/dpuN
    NumCtx,     \* contexts: 2 * MAX_HDMA_NUMBER
    FifoSize,   \* bytes of hdma_kfifo
    Failing,    \* the steps of eon_probe() that may fail
    Ways,       \* how the driver is unbound: "rmmod", "hotplug"
    MaxProbes   \* bound on the calls of eon_probe() while the module is loaded

\* "dma_mask", "vectors", "device_create" and "kthread" are failures that
\* eon_probe() does not see.
FailingSteps == {"set_dma_mask", "dma_mask", "irq_init", "vectors", "cdev_add",
                 "device_create", "kfifo_alloc", "kthread_run", "kthread",
                 "hdma_init"}

ASSUME LifecycleAssumption ==
    /\ NumCtx \in Nat \ {0} /\ FifoSize \in Nat \ {0} /\ MaxProbes \in Nat
    /\ Failing \subseteq FailingSteps
    /\ Ways \subseteq {"rmmod", "hotplug"}

VARIABLES
    dpc,        \* where the driver core is in eon_init() .. eon_exit()
    going,      \* the module is being unloaded
    dpu_id,     \* number of calls of get_dpu_id()
    \* what the eon_device owns.  irq: dma_isr_handler() is registered; vectors:
    \* MSI vectors; cdev: "none", "added" (the device number can be opened) or
    \* "ready" (and ctx->dpu_dev and eon->char_ctx are set); node: /dev/dpuN
    \* exists; fifo: hdma_kfifo has a buffer; contexts: how many of hdmar[] and
    \* hdmaw[] are not NULL
    dev,
    char_ctx,   \* char_dev_ctx structures allocated since the module was loaded:
                \* no code frees one
    bytes,      \* bytes in hdma_kfifo
    kthread,    \* "none", "wait", "scan" or "exited"
    stop,       \* why the kthread is to stop: "flag" (should_stop_flag),
                \* "kthread_stop" (kthread_should_stop())
    file,       \* of each user: "closed"; or what its private_data is: "null",
                \* "dev" (the device, opened when it was bound), "transient"
                \* (opened during eon_probe() or eon_remove()), "stale" (freed)
    lost,       \* history: the errors that eon_probe() did not see or report
    crash       \* what has brought a task down

vars == <<dpc, going, dpu_id, dev, char_ctx, bytes, kthread, stop, file, lost, crash>>

Probing == {"irq_init", "cdev_add", "device_create", "set_dpu_dev", "kfifo_alloc",
            "kthread_run", "hdma_init", "exit", "exit_stop", "exit_stopping",
            "err_kthread_run", "err_kfifo", "err_char_dev", "err_irq_init"}
Removing == {"kthread_stop", "stopping", "irq_fini", "hdma_exit", "kfifo_free",
             "cdev_fini"}
Locations == Probing \cup Removing \cup {"out", "loaded", "bound", "oops"}

Nothing == [irq |-> FALSE, vectors |-> FALSE, cdev |-> "none", node |-> FALSE,
            fifo |-> FALSE, contexts |-> 0]
Everything == [irq |-> TRUE, vectors |-> TRUE, cdev |-> "ready", node |-> TRUE,
               fifo |-> TRUE, contexts |-> NumCtx]

Init ==
    /\ dpc = "out" /\ going = FALSE /\ dpu_id = 0
    /\ dev = Nothing /\ char_ctx = 0 /\ bytes = 0
    /\ kthread = "none" /\ stop = {}
    /\ file = [u \in Users |-> "closed"]
    /\ lost = {} /\ crash = {}

-----------------------------------------------------------------------------
(* eon_init(), eon_probe(), eon_remove(), eon_exit().                      *)

\* A step of the driver core that changes what the eon_device owns.
Core(from, to, d) ==
    /\ dpc = from /\ dpc' = to /\ dev' = d
    /\ UNCHANGED <<going, dpu_id, char_ctx, bytes, kthread, stop, file, lost, crash>>

\* A step that does the same, and frees the eon_device: files that are still
\* open keep a pointer to it.
CoreLast(from, to, d) ==
    /\ dpc = from /\ dpc' = to /\ dev' = d
    /\ file' = [u \in Users |->
                  IF file[u] \in {"transient", "dev"} THEN "stale" ELSE file[u]]
    /\ UNCHANGED <<going, dpu_id, char_ctx, bytes, kthread, stop, lost, crash>>

\* A step that has allocated a char_dev_ctx.
CoreAlloc(from, to, d) ==
    /\ dpc = from /\ dpc' = to /\ dev' = d /\ char_ctx' = char_ctx + 1
    /\ UNCHANGED <<going, dpu_id, bytes, kthread, stop, file, lost, crash>>

CoreLost(from, to, what, d) ==
    /\ dpc = from /\ dpc' = to /\ dev' = d /\ lost' = lost \cup {what}
    /\ UNCHANGED <<going, dpu_id, char_ctx, bytes, kthread, stop, file, crash>>

CoreOops(from, why) ==
    /\ dpc = from /\ dpc' = "oops" /\ crash' = crash \cup {why}
    /\ UNCHANGED <<going, dpu_id, dev, char_ctx, bytes, kthread, stop, file, lost>>

\* eon_init() succeeds.  (When it fails it undoes what it did, and nobody has
\* seen it.)  The static counter of get_dpu_id() starts again.
eon_init ==
    /\ dpc = "out" /\ dpc' = "loaded"
    /\ going' = FALSE /\ dpu_id' = 0 /\ char_ctx' = 0
    /\ UNCHANGED <<dev, bytes, kthread, stop, file, lost, crash>>

\* The error that set_dma_mask() does not report: neither mask was accepted.
set_dma_mask == {{}, {"dma_mask"} \cap Failing}

\* eon_probe() up to eon_irq_init(): a zeroed eon_device with a new dpu_id.  A
\* failure of set_dma_mask() jumps to exit with eon_dev uninitialised.
probe_start ==
    \/ /\ dpc = "loaded" /\ ~going /\ dpu_id < MaxProbes
       /\ dpc' = "irq_init"
       /\ dpu_id' = dpu_id + 1
       /\ kthread' = "none" /\ stop' = {} /\ bytes' = 0 /\ lost' \in set_dma_mask
       /\ UNCHANGED <<going, dev, char_ctx, file, crash>>
    \/ /\ "set_dma_mask" \in Failing /\ ~going /\ dpu_id < MaxProbes
       /\ CoreOops("loaded", "uninitialised")

\* The number of vectors is kept in a uint8_t, where an error code is not
\* negative: the handler is then registered for an interrupt without MSI.
eon_irq_init ==
    \/ Core("irq_init", "cdev_add", [dev EXCEPT !.irq = TRUE, !.vectors = TRUE])
    \/ "irq_init" \in Failing /\ Core("irq_init", "err_irq_init", dev)
    \/ "vectors" \in Failing /\ CoreLost("irq_init", "cdev_add", "vectors",
                                         [dev EXCEPT !.irq = TRUE])

\* char_dev_init(): kzalloc() of the char_dev_ctx, and cdev_add(), which makes
\* the device number visible.  When cdev_add() fails the char_dev_ctx stays.
cdev_add ==
    \/ CoreAlloc("cdev_add", "device_create", [dev EXCEPT !.cdev = "added"])
    \/ /\ "cdev_add" \in Failing
       /\ \/ Core("cdev_add", "err_char_dev", dev)
          \/ CoreAlloc("cdev_add", "err_char_dev", dev)

\* device_create() makes /dev/dpuN.  If it returned NULL, char_dev_init() would
\* take cdev_add() back and return 0, with eon->char_ctx NULL.  An error code,
\* which is what it returns (or a node of another name, when kasprintf() fails),
\* goes unnoticed.
device_create ==
    \/ Core("device_create", "set_dpu_dev", [dev EXCEPT !.node = TRUE])
    \/ /\ "device_create" \in Failing
       /\ \/ CoreLost("device_create", "kfifo_alloc", "device_create",
                      [dev EXCEPT !.cdev = "none"])
          \/ CoreLost("device_create", "set_dpu_dev", "device_create", dev)

\* Only now do ctx->dpu_dev and eon->char_ctx get their values.
set_dpu_dev == Core("set_dpu_dev", "kfifo_alloc", [dev EXCEPT !.cdev = "ready"])

\* A failure of kfifo_alloc() leaves ret at 0: eon_probe() undoes its work and
\* reports success.
kfifo_alloc ==
    \/ Core("kfifo_alloc", "kthread_run", [dev EXCEPT !.fifo = TRUE])
    \/ /\ "kfifo_alloc" \in Failing
       /\ CoreLost("kfifo_alloc", "err_kfifo", "kfifo", dev)

\* kthread_run(): only -ENOMEM counts as a failure; after any other error
\* eon_probe() goes on without a thread.
RunFailedSkipsKfifo == "err_char_dev"
RunFailed == "err_kthread_run"

kthread_run ==
    \/ /\ dpc = "kthread_run" /\ dpc' = "hdma_init" /\ kthread' = "wait"
       /\ UNCHANGED <<going, dpu_id, dev, char_ctx, bytes, stop, file, lost, crash>>
    \/ "kthread_run" \in Failing /\ Core("kthread_run", RunFailed, dev)
    \/ "kthread" \in Failing /\ CoreLost("kthread_run", "hdma_init", "kthread", dev)

\* hdma_init(), hdma_enable() and hdma_msi_interrupt() for one context.
OneTooFew == NumCtx - 2
LastCtx == NumCtx - 1
hdma_init ==
    \/ /\ dev.contexts < LastCtx
       /\ Core("hdma_init", "hdma_init", [dev EXCEPT !.contexts = @ + 1])
    \/ /\ dev.contexts = LastCtx
       /\ Core("hdma_init", "bound", [dev EXCEPT !.contexts = @ + 1])
    \/ "hdma_init" \in Failing /\ Core("hdma_init", "exit", dev)

NotAwaited == TRUE
Exited == kthread = "exited"

\* kthread_stop(), in eon_probe() and in eon_remove(): ask, and wait for the
\* exit.  Without a thread the pointer is NULL or an error code, and the task
\* of a thread that has ended on its own may have been freed already.
kthread_stop(from, waiting, to) ==
    \/ /\ dpc = from /\ kthread # "none"
       /\ dpc' = waiting /\ stop' = stop \cup {"kthread_stop"}
       /\ UNCHANGED <<going, dpu_id, dev, char_ctx, bytes, kthread, file, lost, crash>>
    \/ kthread \in {"none", "exited"} /\ CoreOops(from, "kthread_stop")
    \/ Exited /\ Core(waiting, to, dev)

\* char_dev_fini(): device_destroy() and cdev_del(), which follows
\* eon->char_ctx even if it is NULL.
CdevFreed(d) == [d EXCEPT !.cdev = "none", !.node = FALSE]
char_dev_lost(from) == dev.cdev = "none" /\ CoreOops(from, "cdev_del")

\* The labels.  The handler, which is device managed, goes with the eon_device
\* when eon_probe() has returned an error: err_char_dev frees the MSI vectors
\* while it is still registered.  There the kernel's MSI code has a BUG_ON() in
\* older versions, and a warning in newer ones.
probe_error ==
    \/ Core("exit", "exit_stop", [dev EXCEPT !.contexts = 0])
    \/ kthread_stop("exit_stop", "exit_stopping", "err_kthread_run")
    \/ Core("err_kthread_run", "err_kfifo", [dev EXCEPT !.fifo = FALSE])
    \/ dev.cdev # "none" /\ Core("err_kfifo", "err_char_dev", CdevFreed(dev))
    \/ char_dev_lost("err_kfifo")
    \/ dev.vectors /\ dev.irq /\ CoreOops("err_char_dev", "free_irq_vectors")
    \/ Core("err_char_dev", IF "kfifo" \in lost THEN "bound" ELSE "err_irq_init",
            [dev EXCEPT !.vectors = FALSE])
    \/ CoreLast("err_irq_init", "loaded", [dev EXCEPT !.irq = FALSE])

\* The driver is unbound.  rmmod is refused while a file is open, as the
\* device_ops have an owner; echo 1 > remove, as in hotreset.sh, is not.
UnloadAnyway == TRUE
MayUnload == \A u \in Users : file[u] = "closed"

remove_start ==
    /\ dpc = "bound" /\ dpc' = "kthread_stop"
    /\ \/ "rmmod" \in Ways /\ MayUnload /\ going' = TRUE
       \/ "hotplug" \in Ways /\ UNCHANGED going
    /\ stop' = stop \cup {"flag"}
    /\ UNCHANGED <<dpu_id, dev, char_ctx, bytes, kthread, file, lost, crash>>

\* eon_remove() stops the kthread, then the interrupts, and frees the rest.
VectorsFreed(d) == [d EXCEPT !.vectors = FALSE]
IrqFreed(d) == [d EXCEPT !.irq = FALSE, !.vectors = FALSE]

eon_remove ==
    \/ kthread_stop("kthread_stop", "stopping", "irq_fini")
    \/ Core("irq_fini", "hdma_exit", IrqFreed(dev))
    \/ Core("hdma_exit", "kfifo_free", [dev EXCEPT !.contexts = 0])
    \/ Core("kfifo_free", "cdev_fini", [dev EXCEPT !.fifo = FALSE])
    \/ dev.cdev # "none" /\ CoreLast("cdev_fini", "loaded", CdevFreed(dev))
    \/ char_dev_lost("cdev_fini")

eon_exit ==
    /\ going \/ ("rmmod" \in Ways /\ MayUnload)
    /\ Core("loaded", "out", dev)

-----------------------------------------------------------------------------
(* The interrupt handler and the kthread, as far as they depend on what the *)
(* eon_device owns; HdmaIrq has the rest.                                   *)

Crashed(why) == crash' = crash \cup {why}

\* kfifo_in() needs the buffer, and drops the byte when it is full.
KfifoInUnbounded == bytes + 1
kfifo_in == IF bytes < FifoSize THEN bytes + 1 ELSE bytes

dma_isr_handler ==
    /\ dev.irq
    /\ \/ dev.fifo /\ bytes' = kfifo_in /\ UNCHANGED crash
       \/ ~dev.fifo /\ Crashed("isr") /\ UNCHANGED bytes
    /\ UNCHANGED <<dpc, going, dpu_id, dev, char_ctx, kthread, stop, file, lost>>

\* The wait on thread_wq ends, after 200 ms at the latest.
StopSeen == "kthread_stop" \in stop

kthread_wait ==
    /\ kthread = "wait"
    /\ kthread' = IF StopSeen THEN "exited" ELSE "scan"
    /\ UNCHANGED <<dpc, going, dpu_id, dev, char_ctx, bytes, stop, file, lost, crash>>

\* The scans read the registers of the contexts through their pointers, up to
\* the first that has something to report.  The
\* loop is left when the kfifo is empty, when should_stop_flag is set, or when
\* scans find nothing for too long; should_stop_flag also ends the thread.
FlagUnseen == FALSE
FlagSeen == "flag" \in stop

kthread_scan ==
    /\ kthread = "scan"
    /\ \/ /\ dev.contexts < NumCtx
          /\ Crashed("kthread") /\ kthread' = "exited"
          /\ UNCHANGED bytes
       \/ /\ dev.contexts > 0 /\ bytes > 0
          /\ bytes' = bytes - 1
          /\ kthread' \in IF FlagSeen THEN {"exited"} ELSE {"scan", "wait"}
          /\ UNCHANGED crash
       \/ /\ dev.contexts > 0 /\ bytes = 0
          /\ kthread' = IF FlagSeen THEN "exited" ELSE "wait"
          /\ UNCHANGED <<bytes, crash>>
    /\ UNCHANGED <<dpc, going, dpu_id, dev, char_ctx, stop, file, lost>>

hama_handle_kthread == kthread_wait \/ kthread_scan

-----------------------------------------------------------------------------
(* The users.                                                              *)

\* The inode (of /dev/dpuN, or of a node that an administrator has made for the
\* device number) leads to the char_dev_ctx, and that to the device.
device_open(u) ==
    /\ file[u] = "closed" /\ dev.cdev # "none" /\ ~going
    /\ file' = [file EXCEPT ![u] = CASE dev.cdev = "added" -> "null"
                                     [] dpc = "bound" -> "dev"
                                     [] OTHER -> "transient"]
    /\ UNCHANGED <<dpc, going, dpu_id, dev, char_ctx, bytes, kthread, stop, lost, crash>>

\* An ioctl follows private_data to the contexts (HdmaTransfer has the rest).
device_ioctl(u) ==
    /\ file[u] \in {"null", "stale"} \/ (file[u] # "closed" /\ dev.contexts < NumCtx)
    /\ Crashed("ioctl")
    /\ UNCHANGED <<dpc, going, dpu_id, dev, char_ctx, bytes, kthread, stop, file, lost>>

\* BUG_ON(!dpu_dev).
device_release(u) ==
    /\ file[u] # "closed"
    /\ file' = [file EXCEPT ![u] = "closed"]
    /\ IF file[u] = "null" THEN Crashed("BUG_ON") ELSE UNCHANGED crash
    /\ UNCHANGED <<dpc, going, dpu_id, dev, char_ctx, bytes, kthread, stop, lost>>

-----------------------------------------------------------------------------
ProbeStep ==
    \/ eon_irq_init \/ cdev_add \/ device_create \/ set_dpu_dev \/ kfifo_alloc
    \/ kthread_run \/ hdma_init \/ probe_error

Next ==
    \/ eon_init \/ probe_start \/ ProbeStep
    \/ remove_start \/ eon_remove \/ eon_exit
    \/ dma_isr_handler \/ hama_handle_kthread
    \/ \E u \in Users : device_open(u) \/ device_ioctl(u) \/ device_release(u)

Spec == Init /\ [][Next]_vars

\* eon_probe(), eon_remove() and the kthread go on once started.  Interrupts,
\* users and administrators do what they like.
Fairness == WF_vars(ProbeStep) /\ WF_vars(eon_remove) /\ WF_vars(hama_handle_kthread)
FairSpec == Spec /\ Fairness

-----------------------------------------------------------------------------
(* Properties.                                                             *)

TypeOK ==
    /\ dpc \in Locations
    /\ going \in BOOLEAN
    /\ dpu_id \in 0 .. MaxProbes
    /\ dev \in [irq : BOOLEAN, vectors : BOOLEAN, cdev : {"none", "added", "ready"},
                node : BOOLEAN, fifo : BOOLEAN, contexts : 0 .. NumCtx]
    /\ char_ctx \in 0 .. MaxProbes
    /\ bytes \in 0 .. FifoSize
    /\ kthread \in {"none", "wait", "scan", "exited"}
    /\ stop \in SUBSET {"flag", "kthread_stop"}
    /\ file \in [Users -> {"closed", "null", "transient", "dev", "stale"}]
    /\ lost \in SUBSET {"dma_mask", "vectors", "device_create", "kfifo", "kthread"}
    /\ crash \in SUBSET {"uninitialised", "kthread_stop", "cdev_del",
                         "free_irq_vectors", "isr", "kthread", "ioctl", "BUG_ON"}

\* The kthread never outlives what it uses: the kfifo at any time, the
\* contexts except during eon_probe(), which starts it before they exist and,
\* on its error path, frees them before it stops it.
KthreadSafe ==
    /\ kthread \in {"wait", "scan"} => dev.fifo
    /\ kthread = "scan" /\ dpc \notin Probing => dev.contexts = NumCtx

\* The interrupt handler never outlives the kfifo, except during eon_probe(),
\* which registers it first (and may end in the BUG_ON() of its error path), and
\* after an eon_probe() that lost its error.
IsrSafe ==
    /\ dev.irq /\ dpc \notin Probing
    /\ lost = {} /\ "free_irq_vectors" \notin crash
    => dev.fifo

\* Whether eon_probe() fails half way or eon_remove() has run, what is left of an
\* unbound device is its char_dev_ctx, at most one for each call of eon_probe():
\* it owns nothing else, and has no thread.
UnboundClean ==
    dpc \in {"loaded", "out"} =>
        dev = Nothing /\ kthread \in {"none", "exited"} /\ char_ctx <= dpu_id

\* A device that is bound has everything that its users need, unless eon_probe()
\* lost an error: of set_dma_mask(), pci_alloc_irq_vectors(), device_create(),
\* kfifo_alloc() or kthread_run().  The kthread may have died of the contexts
\* it did not find.
BoundReady ==
    dpc = "bound" /\ lost = {} =>
        /\ dev = Everything
        /\ kthread \in {"wait", "scan"} \/ "kthread" \in crash

\* The module never goes while a file is open, and a file that was opened on a
\* bound device leads to all the contexts an ioctl may follow, until the card
\* is removed from the bus.
DeviceOutlivesFile ==
    /\ going \/ dpc = "out" => \A u \in Users : file[u] = "closed"
    /\ \A u \in Users :
          file[u] = "dev" => dev.contexts = NumCtx \/ (dpc \in Removing /\ ~going)

\* BUG_ON(!dpu_dev) in device_release() says that private_data is never NULL.
ReleaseAssertion == "BUG_ON" \notin crash

\* eon_remove() ends even if the device keeps sending interrupts until the
\* handler is freed: should_stop_flag takes the kthread out of its loop.
RemoveEnds == dpc \in Removing ~> dpc \notin Removing

=============================================================================
