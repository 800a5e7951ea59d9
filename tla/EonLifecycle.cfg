SPECIFICATION FairSpec
CONSTANTS
    Users = {u1, u2}
    NumCtx = 3
    FifoSize = 2
    Failing = {"irq_init", "cdev_add", "device_create", "kthread_run", "hdma_init", "set_dma_mask", "dma_mask", "kfifo_alloc", "kthread", "vectors"}
    Ways = {"rmmod", "hotplug"}
    MaxProbes = 2
INVARIANTS
    TypeOK
    DeviceOutlivesFile
    UnboundClean
    KthreadSafe
    IsrSafe
    BoundReady
PROPERTIES
    RemoveEnds
CHECK_DEADLOCK FALSE
