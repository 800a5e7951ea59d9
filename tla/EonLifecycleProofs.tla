-------------------------- MODULE EonLifecycleProofs --------------------------
(***************************************************************************)
(* The safety of binding and unbinding, for every number of contexts and   *)
(* users, every size of the kfifo and every choice of failing steps.       *)
(* LifecycleInv says, location by location of eon_probe() and              *)
(* eon_remove(), what the eon_device owns.                                 *)
(***************************************************************************)
EXTENDS EonLifecycle, TLAPS

\* Locations where the kthread may run, and where every context exists.
Threaded == {"hdma_init", "exit", "exit_stop", "exit_stopping", "bound",
             "kthread_stop", "stopping"}
Complete == {"bound", "kthread_stop", "stopping", "irq_fini", "hdma_exit"}

\* eon_probe() has undone its work after a failure of kfifo_alloc() and reports
\* success all the same.
Hollow == "kfifo" \in lost

\* The kthread runs only while the locations above say so, and is told to stop only
\* by the error path and by eon_remove().
ThreadInv ==
    /\ kthread \in {"wait", "scan"} => dpc \in Threaded /\ ~Hollow
    /\ kthread = "none" \/ dpc \notin {"irq_init", "cdev_add", "device_create",
                                       "set_dpu_dev", "kfifo_alloc", "kthread_run"}
    /\ dpc \in {"hdma_init", "exit", "exit_stop", "bound"} => stop = {}
    /\ dpc \in {"irq_init", "cdev_add", "device_create", "set_dpu_dev", "kfifo_alloc",
                "kthread_run"} => stop = {}
    /\ dpc \in {"err_kfifo", "err_char_dev"} /\ Hollow => stop = {}
    /\ dpc \in {"hdma_init", "bound"} /\ lost \cap {"kfifo", "kthread"} = {}
          => kthread \in {"wait", "scan"} \/ "kthread" \in crash

\* Where the kfifo exists.
FifoInv ==
    /\ dpc \in {"kthread_run", "hdma_init", "exit", "exit_stop", "exit_stopping",
                "err_kthread_run"} => dev.fifo
    /\ dpc \in Complete \cup {"kfifo_free"} => (dev.fifo <=> ~Hollow)
    /\ dpc \in {"out", "loaded", "irq_init", "cdev_add", "device_create", "set_dpu_dev",
                "kfifo_alloc", "err_kfifo", "err_char_dev", "err_irq_init", "cdev_fini"}
          => ~dev.fifo

\* Where the handler and the vectors are.
IrqInv ==
    /\ dpc \in {"out", "loaded", "irq_init", "hdma_exit", "kfifo_free", "cdev_fini"}
          => ~dev.irq /\ ~dev.vectors
    /\ dpc = "err_irq_init" => ~dev.vectors
    /\ dpc \in {"cdev_add", "device_create", "set_dpu_dev", "kfifo_alloc",
                "kthread_run", "hdma_init"}
          => dev.irq /\ ("vectors" \notin lost => dev.vectors)
    /\ dpc = "bound" /\ lost = {} => dev.irq /\ dev.vectors
    /\ dpc = "oops" /\ dev.irq /\ lost = {} /\ "free_irq_vectors" \notin crash
          => dev.fifo

\* Where the character device and its node are, unless device_create() failed,
\* and whether dpu_dev is set.
CdevInv ==
    /\ dpc \in {"out", "loaded", "irq_init", "cdev_add", "err_char_dev", "err_irq_init"}
          => dev.cdev = "none" /\ ~dev.node
    /\ dpc = "device_create" => ~dev.node
    /\ dpc = "set_dpu_dev" /\ "device_create" \notin lost => dev.node
    /\ dpc \in {"kfifo_alloc", "kthread_run", "hdma_init", "exit", "exit_stop",
                "exit_stopping", "err_kthread_run", "err_kfifo"}
       /\ "device_create" \notin lost => dev.cdev = "ready" /\ dev.node
    /\ dpc = "bound" /\ lost = {} => dev.cdev = "ready" /\ dev.node
    /\ dpc \in Complete /\ Hollow => dev.cdev = "none"

\* Every call of eon_probe() allocates one char_dev_ctx at most.
LeftInv ==
    /\ char_ctx <= dpu_id
    /\ dpc \in {"irq_init", "cdev_add"} => char_ctx < dpu_id

\* How many contexts hdma_init() has made.
ContextInv ==
    /\ dpc = "hdma_init" => dev.contexts < NumCtx
    /\ dpc \notin Complete \cup {"hdma_init", "exit", "oops"} => dev.contexts = 0
    /\ dpc \in Complete => dev.contexts = IF Hollow THEN 0 ELSE NumCtx
    /\ Hollow => dpc \notin {"irq_init", "cdev_add", "device_create", "set_dpu_dev",
                             "kfifo_alloc", "kthread_run", "hdma_init", "exit",
                             "exit_stop", "exit_stopping", "err_kthread_run",
                             "err_irq_init"}

\* Which files there can be: none while the module goes away.
FileInv ==
    /\ going => dpc \in Removing \cup {"loaded", "out", "oops"}
    /\ going \/ dpc = "out" => \A u \in Users : file[u] = "closed"
    /\ \A u \in Users : file[u] = "dev" =>
          /\ dpc \in {"bound", "oops"} \cup Removing /\ ~Hollow /\ dev.cdev # "none"
          /\ dpc = "oops" => dev.contexts = NumCtx

\* The inductive invariant.
LifecycleInv ==
    /\ TypeOK /\ ThreadInv /\ FifoInv /\ IrqInv /\ CdevInv /\ LeftInv /\ ContextInv
    /\ FileInv

\* The sets of TypeOK.
Devices == [irq : BOOLEAN, vectors : BOOLEAN, cdev : {"none", "added", "ready"},
            node : BOOLEAN, fifo : BOOLEAN, contexts : 0 .. NumCtx]
Files == [Users -> {"closed", "null", "transient", "dev", "stale"}]
Crashes == {"uninitialised", "kthread_stop", "cdev_del", "free_irq_vectors", "isr",
            "kthread", "ioctl", "BUG_ON"}
Errors == {"dma_mask", "vectors", "device_create", "kfifo", "kthread"}

-----------------------------------------------------------------------------
(* The steps.                                                              *)

\* eon_init() starts from an unloaded module, which has no files.
LEMMA InitStep == LifecycleInv /\ eon_init => LifecycleInv'
<1> SUFFICES ASSUME LifecycleInv, eon_init PROVE LifecycleInv'
  OBVIOUS
<1> USE LifecycleAssumption DEF LifecycleInv
<1>1. dpc' \in Locations
  BY DEF Locations, Probing, Removing, TypeOK, eon_init
<1>2. going' \in BOOLEAN
  BY DEF TypeOK, eon_init
<1>3. dpu_id' \in 0 .. MaxProbes /\ char_ctx' \in 0 .. MaxProbes
  BY DEF TypeOK, eon_init
<1>4. TypeOK'
  BY <1>1, <1>2, <1>3 DEF TypeOK, eon_init
<1>5. ThreadInv'
  BY DEF ThreadInv, Threaded, Hollow, eon_init
<1>6. FifoInv'
  BY DEF FifoInv, Complete, Hollow, eon_init
<1>7. IrqInv'
  BY DEF IrqInv, eon_init
<1>8. CdevInv'
  BY DEF CdevInv, Complete, Hollow, eon_init
<1>9. ContextInv'
  BY DEF ContextInv, Complete, Hollow, eon_init
<1>10. LeftInv' /\ FileInv'
  BY DEF LeftInv, FileInv, Removing, Hollow, eon_init
<1> QED BY <1>4, <1>5, <1>6, <1>7, <1>8, <1>9, <1>10

\* eon_probe() begins with a zeroed device, or fails before there is one.
LEMMA ProbeStarts == LifecycleInv /\ probe_start => LifecycleInv'
<1> SUFFICES ASSUME LifecycleInv, probe_start PROVE LifecycleInv'
  OBVIOUS
<1> USE LifecycleAssumption DEF LifecycleInv
<1>1. dpc' \in Locations
  BY DEF Locations, Probing, Removing, TypeOK, probe_start, CoreOops,
      set_dma_mask
<1>2. dpu_id' \in 0 .. MaxProbes
  BY DEF TypeOK, probe_start, CoreOops, set_dma_mask
<1>3. lost' \in SUBSET Errors
  BY DEF TypeOK, Errors, probe_start, CoreOops, set_dma_mask
<1>4. crash' \in SUBSET Crashes
  BY DEF TypeOK, Crashes, probe_start, CoreOops, set_dma_mask
<1>5. bytes' \in 0 .. FifoSize
  BY DEF TypeOK, probe_start, CoreOops, set_dma_mask
<1>6. kthread' \in {"none", "wait", "scan", "exited"}
  BY DEF TypeOK, probe_start, CoreOops, set_dma_mask
<1>7. stop' \in SUBSET {"flag", "kthread_stop"}
  BY DEF TypeOK, probe_start, CoreOops, set_dma_mask
<1>8. TypeOK'
  BY <1>1, <1>2, <1>3, <1>4, <1>5, <1>6, <1>7 DEF TypeOK, Crashes, Errors,
      probe_start, CoreOops, set_dma_mask
<1>9. ThreadInv'
  BY DEF ThreadInv, Threaded, Hollow, probe_start, CoreOops, set_dma_mask
<1>10. FifoInv'
  BY DEF FifoInv, Complete, Hollow, probe_start, CoreOops, set_dma_mask
<1>11. IrqInv'
  BY DEF IrqInv, probe_start, CoreOops, set_dma_mask
<1>12. CdevInv'
  BY DEF CdevInv, Complete, Hollow, probe_start, CoreOops, set_dma_mask
<1>13. ContextInv'
  BY DEF ContextInv, Complete, Hollow, probe_start, CoreOops, set_dma_mask
<1>14. LeftInv' /\ FileInv'
  BY DEF LeftInv, FileInv, TypeOK, Removing, Hollow, probe_start, CoreOops, set_dma_mask
<1> QED BY <1>8, <1>9, <1>10, <1>11, <1>12, <1>13, <1>14

\* The handler is registered, with or without vectors.
LEMMA IrqInitStep == LifecycleInv /\ eon_irq_init => LifecycleInv'
<1> SUFFICES ASSUME LifecycleInv, eon_irq_init PROVE LifecycleInv'
  OBVIOUS
<1> USE LifecycleAssumption DEF LifecycleInv
<1>1. dpc' \in Locations
  BY DEF Locations, Probing, Removing, TypeOK, eon_irq_init, Core, CoreLost
<1>2. dev' \in Devices
  BY DEF TypeOK, Devices, eon_irq_init, Core, CoreLost
<1>3. lost' \in SUBSET Errors
  BY DEF TypeOK, Errors, eon_irq_init, Core, CoreLost
<1>4. TypeOK'
  BY <1>1, <1>2, <1>3 DEF TypeOK, Devices, Errors, eon_irq_init, Core,
      CoreLost
<1>5. ThreadInv'
  BY DEF ThreadInv, Threaded, Hollow, eon_irq_init, Core, CoreLost
<1>6. FifoInv'
  BY DEF FifoInv, TypeOK, Complete, Hollow, eon_irq_init, Core, CoreLost
<1>7. IrqInv'
  BY DEF IrqInv, TypeOK, eon_irq_init, Core, CoreLost
<1>8. CdevInv'
  BY DEF CdevInv, TypeOK, Complete, Hollow, eon_irq_init, Core, CoreLost
<1>9. ContextInv'
  BY DEF ContextInv, TypeOK, Complete, Hollow, eon_irq_init, Core, CoreLost
<1>10. LeftInv' /\ FileInv'
  BY DEF LeftInv, FileInv, Removing, Hollow, eon_irq_init, Core, CoreLost
<1> QED BY <1>4, <1>5, <1>6, <1>7, <1>8, <1>9, <1>10

\* The device becomes visible.
LEMMA CdevAddStep == LifecycleInv /\ cdev_add => LifecycleInv'
<1> SUFFICES ASSUME LifecycleInv, cdev_add PROVE LifecycleInv'
  OBVIOUS
<1> USE LifecycleAssumption DEF LifecycleInv
<1>1. dpc' \in Locations
  BY DEF Locations, Probing, Removing, TypeOK, cdev_add, Core, CoreAlloc
<1>2. dev' \in Devices
  BY DEF TypeOK, Devices, cdev_add, Core, CoreAlloc
<1>3. LeftInv' /\ char_ctx' \in 0 .. MaxProbes
  BY DEF LeftInv, TypeOK, cdev_add, Core, CoreAlloc
<1>4. TypeOK'
  BY <1>1, <1>2, <1>3 DEF TypeOK, Devices, cdev_add, Core, CoreAlloc
<1>5. ThreadInv'
  BY DEF ThreadInv, Threaded, Hollow, cdev_add, Core, CoreAlloc
<1>6. FifoInv'
  BY DEF FifoInv, TypeOK, Complete, Hollow, cdev_add, Core, CoreAlloc
<1>7. IrqInv'
  BY DEF IrqInv, TypeOK, cdev_add, Core, CoreAlloc
<1>8. CdevInv'
  BY DEF CdevInv, TypeOK, Complete, Hollow, cdev_add, Core, CoreAlloc
<1>9. ContextInv'
  BY DEF ContextInv, TypeOK, Complete, Hollow, cdev_add, Core, CoreAlloc
<1>10. FileInv'
  BY DEF FileInv, Removing, Hollow, cdev_add, Core, CoreAlloc
<1> QED BY <1>3, <1>4, <1>5, <1>6, <1>7, <1>8, <1>9, <1>10

\* Its node appears, or the error goes unnoticed.
LEMMA DeviceCreateStep == LifecycleInv /\ device_create => LifecycleInv'
<1> SUFFICES ASSUME LifecycleInv, device_create PROVE LifecycleInv'
  OBVIOUS
<1> USE LifecycleAssumption DEF LifecycleInv
<1>1. dpc' \in Locations
  BY DEF Locations, Probing, Removing, TypeOK, device_create, Core, CoreLost
<1>2. dev' \in Devices
  BY DEF TypeOK, Devices, device_create, Core, CoreLost
<1>3. lost' \in SUBSET Errors
  BY DEF TypeOK, Errors, device_create, Core, CoreLost
<1>4. TypeOK'
  BY <1>1, <1>2, <1>3 DEF TypeOK, Devices, Errors, device_create, Core, CoreLost
<1>5. ThreadInv'
  BY DEF ThreadInv, Threaded, Hollow, device_create, Core, CoreLost
<1>6. FifoInv'
  BY DEF FifoInv, TypeOK, Complete, Hollow, device_create, Core, CoreLost
<1>7. IrqInv'
  BY DEF IrqInv, TypeOK, device_create, Core, CoreLost
<1>8. CdevInv'
  BY DEF CdevInv, TypeOK, Complete, Hollow, device_create, Core, CoreLost
<1>9. ContextInv'
  BY DEF ContextInv, TypeOK, Complete, Hollow, device_create, Core, CoreLost
<1>10. LeftInv' /\ FileInv'
  BY DEF LeftInv, FileInv, Removing, Hollow, device_create, Core, CoreLost
<1> QED BY <1>4, <1>5, <1>6, <1>7, <1>8, <1>9, <1>10

\* Its context points to the device.
LEMMA SetDpuDevStep == LifecycleInv /\ set_dpu_dev => LifecycleInv'
<1> SUFFICES ASSUME LifecycleInv, set_dpu_dev PROVE LifecycleInv'
  OBVIOUS
<1> USE LifecycleAssumption DEF LifecycleInv
<1>1. dpc' \in Locations
  BY DEF Locations, Probing, Removing, TypeOK, set_dpu_dev, Core
<1>2. dev' \in Devices
  BY DEF TypeOK, Devices, set_dpu_dev, Core
<1>3. TypeOK'
  BY <1>1, <1>2 DEF TypeOK, Devices, set_dpu_dev, Core
<1>4. ThreadInv'
  BY DEF ThreadInv, Threaded, Hollow, set_dpu_dev, Core
<1>5. FifoInv'
  BY DEF FifoInv, Complete, Hollow, set_dpu_dev, Core
<1>6. IrqInv'
  BY DEF IrqInv, set_dpu_dev, Core
<1>7. CdevInv'
  BY DEF CdevInv, Complete, Hollow, set_dpu_dev, Core
<1>8. ContextInv'
  BY DEF ContextInv, Complete, Hollow, set_dpu_dev, Core
<1>9. LeftInv' /\ FileInv'
  BY DEF LeftInv, FileInv, Removing, Hollow, set_dpu_dev, Core
<1> QED BY <1>3, <1>4, <1>5, <1>6, <1>7, <1>8, <1>9

\* The kfifo gets a buffer, or the error is lost.
LEMMA KfifoAllocStep == LifecycleInv /\ kfifo_alloc => LifecycleInv'
<1> SUFFICES ASSUME LifecycleInv, kfifo_alloc PROVE LifecycleInv'
  OBVIOUS
<1> USE LifecycleAssumption DEF LifecycleInv
<1>1. dpc' \in Locations
  BY DEF Locations, Probing, Removing, TypeOK, kfifo_alloc, Core, CoreLost
<1>2. dev' \in Devices
  BY DEF TypeOK, Devices, kfifo_alloc, Core, CoreLost
<1>3. lost' \in SUBSET Errors
  BY DEF TypeOK, Errors, kfifo_alloc, Core, CoreLost
<1>4. TypeOK'
  BY <1>1, <1>2, <1>3 DEF TypeOK, Devices, Errors, kfifo_alloc, Core, CoreLost
<1>5. ThreadInv'
  BY DEF ThreadInv, Threaded, Hollow, kfifo_alloc, Core, CoreLost
<1>6. FifoInv'
  BY DEF FifoInv, TypeOK, Complete, Hollow, kfifo_alloc, Core, CoreLost
<1>7. IrqInv'
  BY DEF IrqInv, TypeOK, kfifo_alloc, Core, CoreLost
<1>8. CdevInv'
  BY DEF CdevInv, TypeOK, Complete, Hollow, kfifo_alloc, Core, CoreLost
<1>9. ContextInv'
  BY DEF ContextInv, TypeOK, Complete, Hollow, kfifo_alloc, Core, CoreLost
<1>10. LeftInv' /\ FileInv'
  BY DEF LeftInv, FileInv, Removing, Hollow, kfifo_alloc, Core, CoreLost
<1> QED BY <1>4, <1>5, <1>6, <1>7, <1>8, <1>9, <1>10

\* The kthread starts, or not.
LEMMA KthreadRunStep == LifecycleInv /\ kthread_run => LifecycleInv'
<1> SUFFICES ASSUME LifecycleInv, kthread_run PROVE LifecycleInv'
  OBVIOUS
<1> USE LifecycleAssumption DEF LifecycleInv
<1>1. dpc' \in Locations
  BY DEF Locations, Probing, Removing, TypeOK, kthread_run, Core, CoreLost,
      RunFailed
<1>2. dev' \in Devices
  BY DEF TypeOK, Devices, kthread_run, Core, CoreLost, RunFailed
<1>3. lost' \in SUBSET Errors
  BY DEF TypeOK, Errors, kthread_run, Core, CoreLost, RunFailed
<1>4. kthread' \in {"none", "wait", "scan", "exited"}
  BY DEF TypeOK, kthread_run, Core, CoreLost, RunFailed
<1>5. TypeOK'
  BY <1>1, <1>2, <1>3, <1>4 DEF TypeOK, Devices, Errors, kthread_run, Core,
      CoreLost, RunFailed
<1>6. ThreadInv'
  BY DEF ThreadInv, ContextInv, Threaded, Complete, Hollow, kthread_run, Core,
      CoreLost, RunFailed
<1>7. FifoInv'
  BY DEF FifoInv, Complete, Hollow, kthread_run, Core, CoreLost, RunFailed
<1>8. IrqInv'
  BY DEF IrqInv, kthread_run, Core, CoreLost, RunFailed
<1>9. CdevInv'
  BY DEF CdevInv, Complete, Hollow, kthread_run, Core, CoreLost, RunFailed
<1>10. ContextInv'
  BY DEF ContextInv, Complete, Hollow, kthread_run, Core, CoreLost, RunFailed
<1>11. LeftInv' /\ FileInv'
  BY DEF LeftInv, FileInv, Removing, Hollow, kthread_run, Core, CoreLost, RunFailed
<1> QED BY <1>5, <1>6, <1>7, <1>8, <1>9, <1>10, <1>11

\* One more context, the last one, or a failure.
LEMMA HdmaInitStep == LifecycleInv /\ hdma_init => LifecycleInv'
<1> SUFFICES ASSUME LifecycleInv, hdma_init PROVE LifecycleInv'
  OBVIOUS
<1> USE LifecycleAssumption DEF LifecycleInv
<1>1. dpc' \in Locations
  BY DEF Locations, Probing, Removing, TypeOK, hdma_init, Core, LastCtx
<1>2. dev' \in Devices
  BY DEF TypeOK, Devices, hdma_init, Core, LastCtx
<1>3. TypeOK'
  BY <1>1, <1>2 DEF TypeOK, Devices, hdma_init, Core, LastCtx
<1>4. ThreadInv'
  BY DEF ThreadInv, Threaded, Hollow, hdma_init, Core, LastCtx
<1>5. FifoInv'
  BY DEF FifoInv, TypeOK, ContextInv, Complete, Hollow, hdma_init, Core,
      LastCtx
<1>6. IrqInv'
  BY DEF IrqInv, TypeOK, hdma_init, Core, LastCtx
<1>7. CdevInv'
  BY DEF CdevInv, TypeOK, ContextInv, Complete, Hollow, hdma_init, Core,
      LastCtx
<1>8. ContextInv'
  BY DEF ContextInv, TypeOK, Complete, Hollow, hdma_init, Core, LastCtx
<1>9. LeftInv' /\ FileInv'
  BY DEF LeftInv, FileInv, Removing, Hollow, hdma_init, Core, LastCtx
<1> QED BY <1>3, <1>4, <1>5, <1>6, <1>7, <1>8, <1>9

\* The labels at the end of eon_probe().
LEMMA ProbeErrorStep == LifecycleInv /\ probe_error => LifecycleInv'
<1> SUFFICES ASSUME LifecycleInv, probe_error PROVE LifecycleInv'
  OBVIOUS
<1> USE LifecycleAssumption DEF LifecycleInv
<1>1. CASE Core("exit", "exit_stop", [dev EXCEPT !.contexts = 0])
  <2>1. dpc' \in Locations
    BY <1>1 DEF Locations, Probing, Removing, TypeOK, Core
  <2>2. dev' \in Devices
    BY <1>1 DEF TypeOK, Devices, Core
  <2>3. TypeOK'
    BY <1>1, <2>1, <2>2 DEF TypeOK, Devices, Core
  <2>4. ThreadInv'
    BY <1>1 DEF ThreadInv, Threaded, Hollow, Core
  <2>5. FifoInv'
    BY <1>1 DEF FifoInv, Complete, Hollow, Core
  <2>6. IrqInv'
    BY <1>1 DEF IrqInv, Core
  <2>7. CdevInv'
    BY <1>1 DEF CdevInv, Complete, Hollow, Core
  <2>8. ContextInv'
    BY <1>1 DEF ContextInv, Complete, Hollow, Core
  <2>9. LeftInv' /\ FileInv'
    BY <1>1 DEF LeftInv, FileInv, Removing, Hollow, Core
  <2> QED BY <2>3, <2>4, <2>5, <2>6, <2>7, <2>8, <2>9
<1>2. CASE kthread_stop("exit_stop", "exit_stopping", "err_kthread_run")
  <2>1. dpc' \in Locations
    BY <1>2 DEF Locations, Probing, Removing, TypeOK, kthread_stop, Core, CoreOops,
        Exited
  <2>2. dev' \in Devices
    BY <1>2 DEF TypeOK, Devices, kthread_stop, Core, CoreOops, Exited
  <2>3. stop' \in SUBSET {"flag", "kthread_stop"}
    BY <1>2 DEF TypeOK, kthread_stop, Core, CoreOops, Exited
  <2>4. crash' \in SUBSET Crashes
    BY <1>2 DEF TypeOK, Crashes, kthread_stop, Core, CoreOops, Exited
  <2>5. TypeOK'
    BY <1>2, <2>1, <2>2, <2>3, <2>4 DEF TypeOK, Devices, Crashes, kthread_stop,
        Core, CoreOops, Exited
  <2>6. ThreadInv'
    BY <1>2 DEF ThreadInv, Threaded, Hollow, kthread_stop, Core, CoreOops, Exited
  <2>7. FifoInv'
    BY <1>2 DEF FifoInv, Complete, Hollow, kthread_stop, Core, CoreOops, Exited
  <2>8. IrqInv'
    BY <1>2 DEF IrqInv, TypeOK, FifoInv, Complete, Hollow, kthread_stop, Core,
        CoreOops, Exited
  <2>9. CdevInv'
    BY <1>2 DEF CdevInv, Complete, Hollow, kthread_stop, Core, CoreOops, Exited
  <2>10. ContextInv'
    BY <1>2 DEF ContextInv, Complete, Hollow, kthread_stop, Core, CoreOops, Exited
  <2>11. LeftInv' /\ FileInv'
    BY <1>2 DEF LeftInv, FileInv, Removing, Hollow, kthread_stop, Core, CoreOops, Exited
  <2> QED BY <2>5, <2>6, <2>7, <2>8, <2>9, <2>10, <2>11
<1>3. CASE Core("err_kthread_run", "err_kfifo", [dev EXCEPT !.fifo = FALSE])
  <2>1. dpc' \in Locations
    BY <1>3 DEF Locations, Probing, Removing, TypeOK, Core
  <2>2. dev' \in Devices
    BY <1>3 DEF TypeOK, Devices, Core
  <2>3. TypeOK'
    BY <1>3, <2>1, <2>2 DEF TypeOK, Devices, Core
  <2>4. ThreadInv'
    BY <1>3 DEF ThreadInv, ContextInv, Threaded, Complete, Hollow, Core
  <2>5. FifoInv'
    BY <1>3 DEF FifoInv, Complete, Hollow, Core
  <2>6. IrqInv'
    BY <1>3 DEF IrqInv, Core
  <2>7. CdevInv'
    BY <1>3 DEF CdevInv, Complete, Hollow, Core
  <2>8. ContextInv'
    BY <1>3 DEF ContextInv, Complete, Hollow, Core
  <2>9. LeftInv' /\ FileInv'
    BY <1>3 DEF LeftInv, FileInv, Removing, Hollow, Core
  <2> QED BY <2>3, <2>4, <2>5, <2>6, <2>7, <2>8, <2>9
<1>4. CASE dev.cdev # "none" /\ Core("err_kfifo", "err_char_dev", CdevFreed(dev))
  <2>1. dpc' \in Locations
    BY <1>4 DEF Locations, Probing, Removing, TypeOK, Core,
        CdevFreed
  <2>2. dev' \in Devices
    BY <1>4 DEF TypeOK, Devices, Core,
        CdevFreed
  <2>3. TypeOK'
    BY <1>4, <2>1, <2>2 DEF TypeOK, Devices, Core,
        CdevFreed
  <2>4. ThreadInv'
    BY <1>4 DEF ThreadInv, Threaded, Hollow, Core,
        CdevFreed
  <2>5. FifoInv'
    BY <1>4 DEF FifoInv, Complete, Hollow, Core,
        CdevFreed
  <2>6. IrqInv'
    BY <1>4 DEF IrqInv, Core,
        CdevFreed
  <2>7. CdevInv'
    BY <1>4 DEF CdevInv, Complete, Hollow, Core,
        CdevFreed
  <2>8. ContextInv'
    BY <1>4 DEF ContextInv, Complete, Hollow, Core,
        CdevFreed
  <2>9. LeftInv' /\ FileInv'
    BY <1>4 DEF LeftInv, FileInv, Removing, Hollow, Core,
        CdevFreed
  <2> QED BY <2>3, <2>4, <2>5, <2>6, <2>7, <2>8, <2>9
<1>5. CASE Core("err_char_dev",
               IF "kfifo" \in lost THEN "bound" ELSE "err_irq_init",
               [dev EXCEPT !.vectors = FALSE])
  <2>1. dpc' \in Locations
    BY <1>5 DEF Locations, Probing, Removing, TypeOK, Core
  <2>2. dev' \in Devices
    BY <1>5 DEF TypeOK, Devices, Core
  <2>3. TypeOK'
    BY <1>5, <2>1, <2>2 DEF TypeOK, Devices, Core
  <2>4. ThreadInv'
    BY <1>5 DEF ThreadInv, Threaded, Hollow, Core
  <2>5. FifoInv'
    BY <1>5 DEF FifoInv, Complete, Hollow, Core
  <2>6. IrqInv'
    BY <1>5 DEF IrqInv, Core
  <2>7. CdevInv'
    BY <1>5 DEF CdevInv, Complete, Hollow, Core
  <2>8. ContextInv'
    BY <1>5 DEF ContextInv, Complete, Hollow, Core
  <2>9. LeftInv' /\ FileInv'
    BY <1>5 DEF LeftInv, FileInv, Removing, Hollow, Core
  <2> QED BY <2>3, <2>4, <2>5, <2>6, <2>7, <2>8, <2>9
<1>6. CASE CoreLast("err_irq_init", "loaded", [dev EXCEPT !.irq = FALSE])
  <2>1. dpc' \in Locations
    BY <1>6 DEF Locations, Probing, Removing, TypeOK, CoreLast
  <2>2. dev' \in Devices
    BY <1>6 DEF TypeOK, Devices, CoreLast
  <2>3. file' \in Files
    BY <1>6 DEF TypeOK, Files, CoreLast
  <2>4. TypeOK'
    BY <1>6, <2>1, <2>2, <2>3 DEF TypeOK, Devices, Files, CoreLast
  <2>5. ThreadInv'
    BY <1>6 DEF ThreadInv, Threaded, Hollow, CoreLast
  <2>6. FifoInv'
    BY <1>6 DEF FifoInv, Complete, Hollow, CoreLast
  <2>7. IrqInv'
    BY <1>6 DEF IrqInv, CoreLast
  <2>8. CdevInv'
    BY <1>6 DEF CdevInv, Complete, Hollow, CoreLast
  <2>9. ContextInv'
    BY <1>6 DEF ContextInv, Complete, Hollow, CoreLast
  <2>10. LeftInv' /\ FileInv'
    BY <1>6 DEF LeftInv, FileInv, Removing, Hollow, CoreLast
  <2> QED BY <2>4, <2>5, <2>6, <2>7, <2>8, <2>9, <2>10
<1>7. CASE char_dev_lost("err_kfifo")
  <2>1. dpc' \in Locations
    BY <1>7 DEF Locations, CoreOops, char_dev_lost
  <2>2. crash' \in SUBSET Crashes
    BY <1>7 DEF TypeOK, Crashes, CoreOops, char_dev_lost
  <2>3. TypeOK'
    BY <1>7, <2>1, <2>2 DEF TypeOK, Crashes, CoreOops, char_dev_lost
  <2>4. ThreadInv' /\ FifoInv' /\ CdevInv' /\ LeftInv' /\ ContextInv'
    BY <1>7 DEF ThreadInv, FifoInv, CdevInv, LeftInv, ContextInv, Threaded,
        Complete, Hollow, CoreOops, char_dev_lost
  <2>5. IrqInv'
    BY <1>7 DEF IrqInv, CdevInv, CoreOops, char_dev_lost
  <2>6. FileInv'
    BY <1>7 DEF FileInv, Removing, Hollow, CoreOops, char_dev_lost
  <2> QED BY <2>3, <2>4, <2>5, <2>6
<1>8. CASE dev.vectors /\ dev.irq /\ CoreOops("err_char_dev", "free_irq_vectors")
  <2>1. dpc' \in Locations
    BY <1>8 DEF Locations, CoreOops
  <2>2. crash' \in SUBSET Crashes
    BY <1>8 DEF TypeOK, Crashes, CoreOops
  <2>3. TypeOK'
    BY <1>8, <2>1, <2>2 DEF TypeOK, Crashes, CoreOops
  <2>4. ThreadInv' /\ FifoInv' /\ CdevInv' /\ LeftInv' /\ ContextInv'
    BY <1>8 DEF ThreadInv, FifoInv, CdevInv, LeftInv, ContextInv, Threaded,
        Complete, Hollow, CoreOops
  <2>5. IrqInv'
    BY <1>8 DEF IrqInv, CdevInv, CoreOops
  <2>6. FileInv'
    BY <1>8 DEF FileInv, Removing, Hollow, CoreOops
  <2> QED BY <2>3, <2>4, <2>5, <2>6
<1> QED BY <1>1, <1>2, <1>3, <1>4, <1>5, <1>6, <1>7, <1>8 DEF probe_error

\* Unbinding begins: with the module going, no file is open.
LEMMA RemoveStarts == LifecycleInv /\ remove_start => LifecycleInv'
<1> SUFFICES ASSUME LifecycleInv, remove_start PROVE LifecycleInv'
  OBVIOUS
<1> USE LifecycleAssumption DEF LifecycleInv
<1>1. dpc' \in Locations
  BY DEF Locations, Probing, Removing, TypeOK, remove_start, MayUnload
<1>2. going' \in BOOLEAN
  BY DEF TypeOK, remove_start, MayUnload
<1>3. stop' \in SUBSET {"flag", "kthread_stop"}
  BY DEF TypeOK, remove_start, MayUnload
<1>4. TypeOK'
  BY <1>1, <1>2, <1>3 DEF TypeOK, remove_start, MayUnload
<1>5. ThreadInv'
  BY DEF ThreadInv, Threaded, Hollow, remove_start, MayUnload
<1>6. FifoInv'
  BY DEF FifoInv, Complete, Hollow, remove_start, MayUnload
<1>7. IrqInv'
  BY DEF IrqInv, remove_start, MayUnload
<1>8. CdevInv'
  BY DEF CdevInv, Complete, Hollow, remove_start, MayUnload
<1>9. ContextInv'
  BY DEF ContextInv, Complete, Hollow, remove_start, MayUnload
<1>10. LeftInv' /\ FileInv'
  BY DEF LeftInv, FileInv, Removing, Hollow, remove_start, MayUnload
<1> QED BY <1>4, <1>5, <1>6, <1>7, <1>8, <1>9, <1>10

\* eon_remove() stops the kthread before it frees what the thread uses, and the
\* interrupts before the kfifo.
LEMMA RemoveStep == LifecycleInv /\ eon_remove => LifecycleInv'
<1> SUFFICES ASSUME LifecycleInv, eon_remove PROVE LifecycleInv'
  OBVIOUS
<1> USE LifecycleAssumption DEF LifecycleInv
<1>1. CASE kthread_stop("kthread_stop", "stopping", "irq_fini")
  <2>1. dpc' \in Locations
    BY <1>1 DEF Locations, Probing, Removing, TypeOK, kthread_stop, Core, CoreOops,
        Exited
  <2>2. dev' \in Devices
    BY <1>1 DEF TypeOK, Devices, kthread_stop, Core, CoreOops, Exited
  <2>3. stop' \in SUBSET {"flag", "kthread_stop"}
    BY <1>1 DEF TypeOK, kthread_stop, Core, CoreOops, Exited
  <2>4. crash' \in SUBSET Crashes
    BY <1>1 DEF TypeOK, Crashes, kthread_stop, Core, CoreOops, Exited
  <2>5. TypeOK'
    BY <1>1, <2>1, <2>2, <2>3, <2>4 DEF TypeOK, Devices, Crashes, kthread_stop,
        Core, CoreOops, Exited
  <2>6. ThreadInv'
    BY <1>1 DEF ThreadInv, Threaded, Hollow, kthread_stop, Core, CoreOops, Exited
  <2>7. FifoInv'
    BY <1>1 DEF FifoInv, Complete, Hollow, kthread_stop, Core, CoreOops, Exited
  <2>8. IrqInv'
    BY <1>1 DEF IrqInv, TypeOK, FifoInv, Complete, Hollow, kthread_stop, Core,
        CoreOops, Exited
  <2>9. CdevInv'
    BY <1>1 DEF CdevInv, Complete, Hollow, kthread_stop, Core, CoreOops, Exited
  <2>10. ContextInv'
    BY <1>1 DEF ContextInv, Complete, Hollow, kthread_stop, Core, CoreOops, Exited
  <2>11. LeftInv' /\ FileInv'
    BY <1>1 DEF LeftInv, FileInv, ContextInv, Complete, Removing, Hollow, kthread_stop,
        Core, CoreOops, Exited
  <2> QED BY <2>5, <2>6, <2>7, <2>8, <2>9, <2>10, <2>11
<1>2. CASE Core("irq_fini", "hdma_exit", IrqFreed(dev))
  <2>1. dpc' \in Locations
    BY <1>2 DEF Locations, Probing, Removing, TypeOK, Core, IrqFreed
  <2>2. dev' \in Devices
    BY <1>2 DEF TypeOK, Devices, Core, IrqFreed
  <2>3. TypeOK'
    BY <1>2, <2>1, <2>2 DEF TypeOK, Devices, Core, IrqFreed
  <2>4. ThreadInv'
    BY <1>2 DEF ThreadInv, Threaded, Hollow, Core, IrqFreed
  <2>5. FifoInv'
    BY <1>2 DEF FifoInv, Complete, Hollow, Core, IrqFreed
  <2>6. IrqInv'
    BY <1>2 DEF IrqInv, Core, IrqFreed
  <2>7. CdevInv'
    BY <1>2 DEF CdevInv, Complete, Hollow, Core, IrqFreed
  <2>8. ContextInv'
    BY <1>2 DEF ContextInv, Complete, Hollow, Core, IrqFreed
  <2>9. LeftInv' /\ FileInv'
    BY <1>2 DEF LeftInv, FileInv, Removing, Hollow, Core, IrqFreed
  <2> QED BY <2>3, <2>4, <2>5, <2>6, <2>7, <2>8, <2>9
<1>3. CASE Core("hdma_exit", "kfifo_free", [dev EXCEPT !.contexts = 0])
  <2>1. dpc' \in Locations
    BY <1>3 DEF Locations, Probing, Removing, TypeOK, Core
  <2>2. dev' \in Devices
    BY <1>3 DEF TypeOK, Devices, Core
  <2>3. TypeOK'
    BY <1>3, <2>1, <2>2 DEF TypeOK, Devices, Core
  <2>4. ThreadInv'
    BY <1>3 DEF ThreadInv, Threaded, Hollow, Core
  <2>5. FifoInv'
    BY <1>3 DEF FifoInv, Complete, Hollow, Core
  <2>6. IrqInv'
    BY <1>3 DEF IrqInv, Core
  <2>7. CdevInv'
    BY <1>3 DEF CdevInv, Complete, Hollow, Core
  <2>8. ContextInv'
    BY <1>3 DEF ContextInv, Complete, Hollow, Core
  <2>9. LeftInv' /\ FileInv'
    BY <1>3 DEF LeftInv, FileInv, Removing, Hollow, Core
  <2> QED BY <2>3, <2>4, <2>5, <2>6, <2>7, <2>8, <2>9
<1>4. CASE Core("kfifo_free", "cdev_fini", [dev EXCEPT !.fifo = FALSE])
  <2>1. dpc' \in Locations
    BY <1>4 DEF Locations, Probing, Removing, TypeOK, Core
  <2>2. dev' \in Devices
    BY <1>4 DEF TypeOK, Devices, Core
  <2>3. TypeOK'
    BY <1>4, <2>1, <2>2 DEF TypeOK, Devices, Core
  <2>4. ThreadInv'
    BY <1>4 DEF ThreadInv, Threaded, Hollow, Core
  <2>5. FifoInv'
    BY <1>4 DEF FifoInv, Complete, Hollow, Core
  <2>6. IrqInv'
    BY <1>4 DEF IrqInv, Core
  <2>7. CdevInv'
    BY <1>4 DEF CdevInv, Complete, Hollow, Core
  <2>8. ContextInv'
    BY <1>4 DEF ContextInv, Complete, Hollow, Core
  <2>9. LeftInv' /\ FileInv'
    BY <1>4 DEF LeftInv, FileInv, Removing, Hollow, Core
  <2> QED BY <2>3, <2>4, <2>5, <2>6, <2>7, <2>8, <2>9
<1>5. CASE dev.cdev # "none" /\ CoreLast("cdev_fini", "loaded", CdevFreed(dev))
  <2>1. dpc' \in Locations
    BY <1>5 DEF Locations, Probing, Removing, TypeOK, CoreLast,
        CdevFreed
  <2>2. dev' \in Devices
    BY <1>5 DEF TypeOK, Devices, CoreLast,
        CdevFreed
  <2>3. file' \in Files
    BY <1>5 DEF TypeOK, Files, CoreLast,
        CdevFreed
  <2>4. TypeOK'
    BY <1>5, <2>1, <2>2, <2>3 DEF TypeOK, Devices, Files, CoreLast,
        CdevFreed
  <2>5. ThreadInv'
    BY <1>5 DEF ThreadInv, Threaded, Hollow, CoreLast,
        CdevFreed
  <2>6. FifoInv'
    BY <1>5 DEF FifoInv, Complete, Hollow, CoreLast,
        CdevFreed
  <2>7. IrqInv'
    BY <1>5 DEF IrqInv, CoreLast,
        CdevFreed
  <2>8. CdevInv'
    BY <1>5 DEF CdevInv, Complete, Hollow, CoreLast,
        CdevFreed
  <2>9. ContextInv'
    BY <1>5 DEF ContextInv, Complete, Hollow, CoreLast,
        CdevFreed
  <2>10. LeftInv' /\ FileInv'
    BY <1>5 DEF LeftInv, FileInv, Removing, Hollow, CoreLast,
        CdevFreed
  <2> QED BY <2>4, <2>5, <2>6, <2>7, <2>8, <2>9, <2>10
<1>6. CASE char_dev_lost("cdev_fini")
  <2>1. dpc' \in Locations
    BY <1>6 DEF Locations, CoreOops, char_dev_lost
  <2>2. crash' \in SUBSET Crashes
    BY <1>6 DEF TypeOK, Crashes, CoreOops, char_dev_lost
  <2>3. TypeOK'
    BY <1>6, <2>1, <2>2 DEF TypeOK, Crashes, CoreOops, char_dev_lost
  <2>4. ThreadInv' /\ FifoInv' /\ CdevInv' /\ LeftInv' /\ ContextInv'
    BY <1>6 DEF ThreadInv, FifoInv, CdevInv, LeftInv, ContextInv, Threaded,
        Complete, Hollow, CoreOops, char_dev_lost
  <2>5. IrqInv'
    BY <1>6 DEF IrqInv, CdevInv, CoreOops, char_dev_lost
  <2>6. FileInv'
    BY <1>6 DEF FileInv, Removing, Hollow, CoreOops, char_dev_lost
  <2> QED BY <2>3, <2>4, <2>5, <2>6
<1> QED BY <1>1, <1>2, <1>3, <1>4, <1>5, <1>6 DEF eon_remove

\* eon_exit() runs when no file is open.
LEMMA ExitStep == LifecycleInv /\ eon_exit => LifecycleInv'
<1> SUFFICES ASSUME LifecycleInv, eon_exit PROVE LifecycleInv'
  OBVIOUS
<1> USE LifecycleAssumption DEF LifecycleInv
<1>1. dpc' \in Locations
  BY DEF Locations, Probing, Removing, TypeOK, eon_exit, Core, MayUnload
<1>2. TypeOK'
  BY <1>1 DEF TypeOK, eon_exit, Core, MayUnload
<1>3. ThreadInv' /\ FifoInv' /\ IrqInv' /\ CdevInv' /\ LeftInv' /\ ContextInv'
      /\ FileInv'
  BY DEF ThreadInv, FifoInv, IrqInv, CdevInv, LeftInv, ContextInv, FileInv, Threaded,
      Complete, Removing, Hollow, eon_exit, Core, MayUnload
<1> QED BY <1>2, <1>3

\* An interrupt changes the kfifo only.
LEMMA IsrStep == LifecycleInv /\ dma_isr_handler => LifecycleInv'
<1> SUFFICES ASSUME LifecycleInv, dma_isr_handler PROVE LifecycleInv'
  OBVIOUS
<1> USE LifecycleAssumption DEF LifecycleInv
<1>1. bytes' \in 0 .. FifoSize
  BY DEF TypeOK, dma_isr_handler, kfifo_in, Crashed
<1>2. crash' \in SUBSET Crashes
  BY DEF TypeOK, Crashes, dma_isr_handler, kfifo_in, Crashed
<1>3. TypeOK'
  BY <1>1, <1>2 DEF TypeOK, Crashes, dma_isr_handler, kfifo_in, Crashed
<1>4. ThreadInv' /\ FifoInv' /\ IrqInv' /\ CdevInv' /\ LeftInv' /\ ContextInv'
      /\ FileInv'
  BY DEF ThreadInv, FifoInv, IrqInv, CdevInv, LeftInv, ContextInv, FileInv, Threaded,
      Complete, Removing, Hollow, dma_isr_handler, kfifo_in, Crashed
<1> QED BY <1>3, <1>4

\* The kthread exits when it is told to, or scans.
LEMMA KthreadWaitStep == LifecycleInv /\ kthread_wait => LifecycleInv'
<1> SUFFICES ASSUME LifecycleInv, kthread_wait PROVE LifecycleInv'
  OBVIOUS
<1> USE LifecycleAssumption DEF LifecycleInv
<1>1. kthread' \in {"none", "wait", "scan", "exited"}
  BY DEF TypeOK, kthread_wait, StopSeen
<1>2. TypeOK'
  BY <1>1 DEF TypeOK, kthread_wait, StopSeen
<1>3. ThreadInv' /\ FifoInv' /\ IrqInv' /\ CdevInv' /\ LeftInv' /\ ContextInv'
      /\ FileInv'
  BY DEF ThreadInv, FifoInv, IrqInv, CdevInv, LeftInv, ContextInv, FileInv, Threaded,
      Complete, Removing, Hollow, kthread_wait, StopSeen
<1> QED BY <1>2, <1>3

\* The kthread scans, and may die of a missing context.
LEMMA KthreadScanStep == LifecycleInv /\ kthread_scan => LifecycleInv'
<1> SUFFICES ASSUME LifecycleInv, kthread_scan PROVE LifecycleInv'
  OBVIOUS
<1> USE LifecycleAssumption DEF LifecycleInv
<1>1. bytes' \in 0 .. FifoSize
  BY DEF TypeOK, kthread_scan, Crashed, FlagSeen
<1>2. crash' \in SUBSET Crashes
  BY DEF TypeOK, Crashes, kthread_scan, Crashed, FlagSeen
<1>3. kthread' \in {"none", "wait", "scan", "exited"}
  BY DEF TypeOK, kthread_scan, Crashed, FlagSeen
<1>4. TypeOK'
  BY <1>1, <1>2, <1>3 DEF TypeOK, Crashes, kthread_scan, Crashed, FlagSeen
<1>5. ThreadInv' /\ FifoInv' /\ IrqInv' /\ CdevInv' /\ LeftInv' /\ ContextInv'
      /\ FileInv'
  BY DEF ThreadInv, FifoInv, IrqInv, CdevInv, LeftInv, ContextInv, FileInv, Threaded,
      Complete, Removing, Hollow, kthread_scan, Crashed, FlagSeen
<1> QED BY <1>4, <1>5

\* A file opened on a bound device is one of a complete device.
LEMMA OpenStep ==
    ASSUME LifecycleInv, NEW u \in Users, device_open(u) PROVE LifecycleInv'
<1> USE LifecycleAssumption DEF LifecycleInv
<1>1. file' \in Files
  BY DEF TypeOK, Files, device_open
<1>2. TypeOK'
  BY <1>1 DEF TypeOK, Files, device_open
<1>3. ThreadInv' /\ FifoInv' /\ IrqInv' /\ CdevInv' /\ LeftInv' /\ ContextInv'
  BY DEF ThreadInv, FifoInv, IrqInv, CdevInv, LeftInv, ContextInv, Threaded, Complete,
      Hollow, device_open
<1>4. FileInv'
  BY DEF FileInv, TypeOK, CdevInv, Complete, Removing, Hollow, device_open
<1> QED BY <1>2, <1>3, <1>4

\* An ioctl may crash its caller.
LEMMA IoctlStep ==
    ASSUME LifecycleInv, NEW u \in Users, device_ioctl(u) PROVE LifecycleInv'
<1> USE LifecycleAssumption DEF LifecycleInv
<1>1. crash' \in SUBSET Crashes
  BY DEF TypeOK, Crashes, device_ioctl, Crashed
<1>2. TypeOK'
  BY <1>1 DEF TypeOK, Crashes, device_ioctl, Crashed
<1>3. ThreadInv' /\ FifoInv' /\ IrqInv' /\ CdevInv' /\ LeftInv' /\ ContextInv'
      /\ FileInv'
  BY DEF ThreadInv, FifoInv, IrqInv, CdevInv, LeftInv, ContextInv, FileInv, Threaded,
      Complete, Removing, Hollow, device_ioctl, Crashed
<1> QED BY <1>2, <1>3

\* A close.
LEMMA ReleaseStep ==
    ASSUME LifecycleInv, NEW u \in Users, device_release(u) PROVE LifecycleInv'
<1> USE LifecycleAssumption DEF LifecycleInv
<1>1. file' \in Files
  BY DEF TypeOK, Files, device_release, Crashed
<1>2. crash' \in SUBSET Crashes
  BY DEF TypeOK, Crashes, device_release, Crashed
<1>3. TypeOK'
  BY <1>1, <1>2 DEF TypeOK, Files, Crashes, device_release, Crashed
<1>4. ThreadInv' /\ FifoInv' /\ IrqInv' /\ CdevInv' /\ LeftInv' /\ ContextInv'
      /\ FileInv'
  BY DEF ThreadInv, FifoInv, IrqInv, CdevInv, LeftInv, ContextInv, FileInv, Threaded,
      Complete, Removing, Hollow, device_release, Crashed
<1> QED BY <1>3, <1>4

-----------------------------------------------------------------------------
(* The invariant and what follows from it.                                 *)

\* Before the module is loaded there is nothing.
LEMMA InitHolds == Init => LifecycleInv
<1> SUFFICES ASSUME Init PROVE LifecycleInv
  OBVIOUS
<1> USE LifecycleAssumption DEF Init, Nothing
<1>1. TypeOK
  <2>1. dpc \in Locations
    BY DEF Locations
  <2>2. /\ dpu_id \in 0 .. MaxProbes /\ char_ctx \in 0 .. MaxProbes
        /\ bytes \in 0 .. FifoSize /\ dev \in Devices
    BY DEF Devices
  <2>3. going \in BOOLEAN
    OBVIOUS
  <2> QED BY <2>1, <2>2, <2>3 DEF TypeOK, Devices
<1>2. ThreadInv /\ FifoInv /\ IrqInv /\ CdevInv /\ LeftInv /\ ContextInv
      /\ FileInv
  BY DEF ThreadInv, FifoInv, IrqInv, CdevInv, LeftInv, ContextInv, FileInv, Threaded,
      Complete, Removing, Hollow
<1> QED BY <1>1, <1>2 DEF LifecycleInv

\* A stuttering step keeps it.
LEMMA StutterStep == LifecycleInv /\ UNCHANGED vars => LifecycleInv'
  BY DEF LifecycleInv, TypeOK, ThreadInv, FifoInv, IrqInv, CdevInv, LeftInv,
      ContextInv, FileInv, Hollow, vars

\* LifecycleInv is inductive.
THEOREM LifecycleInvariant == Spec => []LifecycleInv
<1>1. LifecycleInv /\ [Next]_vars => LifecycleInv'
  <2> SUFFICES ASSUME LifecycleInv, [Next]_vars PROVE LifecycleInv'
    OBVIOUS
  <2>1. CASE eon_init \/ probe_start
    BY <2>1, InitStep, ProbeStarts
  <2>2. CASE ProbeStep
    BY <2>2, IrqInitStep, CdevAddStep, DeviceCreateStep, SetDpuDevStep, KfifoAllocStep,
       KthreadRunStep, HdmaInitStep, ProbeErrorStep DEF ProbeStep
  <2>3. CASE remove_start \/ eon_remove \/ eon_exit
    BY <2>3, RemoveStarts, RemoveStep, ExitStep
  <2>4. CASE dma_isr_handler \/ hama_handle_kthread
    BY <2>4, IsrStep, KthreadWaitStep, KthreadScanStep DEF hama_handle_kthread
  <2>5. CASE \E u \in Users : device_open(u) \/ device_ioctl(u) \/ device_release(u)
    BY <2>5, OpenStep, IoctlStep, ReleaseStep
  <2>6. CASE UNCHANGED vars
    BY <2>6, StutterStep
  <2> QED BY <2>1, <2>2, <2>3, <2>4, <2>5, <2>6 DEF Next
<1> QED BY <1>1, InitHolds, PTL DEF Spec

\* Everything keeps its type: the kfifo never holds more bytes than it has
\* room for, and there are never more contexts than the arrays have.
THEOREM LifecycleTyped == Spec => []TypeOK
<1>1. LifecycleInv => TypeOK
  BY DEF LifecycleInv
<1> QED BY <1>1, LifecycleInvariant, PTL

\* The kthread never outlives the kfifo nor, outside of eon_probe(), a context.
THEOREM KthreadSafety == Spec => []KthreadSafe
<1>1. LifecycleInv => KthreadSafe
  BY DEF LifecycleInv, TypeOK, Locations, ThreadInv, FifoInv, ContextInv, Threaded,
      Complete, Hollow, Probing, KthreadSafe
<1> QED BY <1>1, LifecycleInvariant, PTL

\* The interrupt handler never outlives the kfifo, unless an error was lost.
THEOREM IsrSafety == Spec => []IsrSafe
<1>1. LifecycleInv => IsrSafe
  BY DEF LifecycleInv, TypeOK, Locations, FifoInv, IrqInv, Complete, Hollow, Probing,
      Removing, IsrSafe
<1> QED BY <1>1, LifecycleInvariant, PTL

\* After a failed eon_probe() and after eon_remove() nothing is left but a
\* char_dev_ctx for each call of eon_probe(), which no code frees.
THEOREM UnbindSafety == Spec => []UnboundClean
<1>1. LifecycleInv => UnboundClean
  BY DEF LifecycleInv, TypeOK, ThreadInv, FifoInv, IrqInv, CdevInv, LeftInv,
      ContextInv, Threaded, Complete, Nothing, UnboundClean
<1> QED BY <1>1, LifecycleInvariant, PTL

\* A bound device is complete, unless an error was lost.
THEOREM BindSafety == Spec => []BoundReady
<1>1. LifecycleInv => BoundReady
  BY DEF LifecycleInv, TypeOK, ThreadInv, FifoInv, IrqInv, CdevInv, ContextInv,
      Complete, Hollow, Everything, BoundReady
<1> QED BY <1>1, LifecycleInvariant, PTL

\* No file outlives the module, and the contexts of a file that was opened on a
\* bound device go only when the card is removed from the bus.
THEOREM FileSafety == Spec => []DeviceOutlivesFile
<1>1. LifecycleInv => DeviceOutlivesFile
  BY DEF LifecycleInv, FileInv, ContextInv, Complete, Hollow, Removing,
      DeviceOutlivesFile
<1> QED BY <1>1, LifecycleInvariant, PTL

=============================================================================
