# TLA+ models of the EON driver

The repository is a Linux PCIe driver (`eon.ko`, built from `eon_drv.c`,
`test_dev.c`, `hdma.c` and `iatu.c`) for an accelerator card with a DesignWare
PCIe controller: 16 HDMA read channels, 16 HDMA write channels, and an iATU that
maps a BAR onto the card's address space. User space reaches it through
`/dev/dpuN` and two ioctls.

## 1. Inventory

| Component | State it keeps | Operations | Model |
|---|---|---|---|
| HDMA transfers, `test_dev.c` 327–695, `hdma.c` | `struct hdma_context` per channel: spinlock, wait queue, `state`; the caller's pinned pages and descriptor buffer | `eon_hdma()`, `eon_hdma_inbound()`, `eon_hdma_outbound()`, `tranfer_desc()`, `dma_llmode_transmit()` | `HdmaTransfer` |
| Interrupt handler and kthread, `eon_drv.c` 126–175, 215–355 | `hdma_kfifo`, the kthread's locals, `HDMA_INT_STATUS` of the channels | `dma_isr_handler()`, `hama_handle_kthread()`, `hdma_get_intr_status()`, `hdma_clear_intr_status()` | `HdmaIrq` |
| Register window, `test_dev.c` 383–428, 697–789, `iatu.c` | `conbar_lock`, `config_bar_base`, iATU region 1 | `eon_rw_reg()`, `regs_operations()`, `iatu_map_inbound_bar()`, `iatu_map_outbound_bar()` | `ConfigWindow`, `RegFile`, `RegOps` |
| Module, probe, remove, character device, `eon_drv.c` 177–213, 356–604, `test_dev.c` 14–40, 791–878 | what the `eon_device` owns, the kthread, `should_stop_flag`, `private_data` of open files | `eon_init()`, `eon_probe()`, `eon_remove()`, `eon_exit()`, `device_open()`, `device_release()` | `EonLifecycle` |
| Channel and iATU registers, `hdma.h`, `hdma.c` 63–338, `iatu.h`, `eon_drv.c` 93–123, 457–486 | BAR 0; the addresses of the registers; the MSI message | `hdma_init()`, `hdma_enable()`, `hdma_msi_interrupt()`, `hdma_set_attr()`, `hdma_enable_intr()`, `set_xfer_data()`, `hdma_set_desc_pointer()`, `hdma_start_transfer()`, `hdma_clear_intr_status()`, `iatu_config()`, `pci_msi_setup()` | `HdmaRegs` |
| Pages, scatter list, descriptors, `test_dev.c` 56–325, `hdma.c` 5–34 | `struct page *[]`, `sg_table`, descriptor array, and what of them the call must give back | `dpu_get_pages()`, `dpu_put_pages()`, `dpu_setup_sg()`, `dpu_teardown_sg()`, `set_hdma_desc()`, `teardown_dma_desc()` | `SgTable` |

How they interact:

- An ioctl caller locks a context with its **spinlock**, programs the channel and
  **sleeps on the wait queue with the spinlock held**, for up to five seconds.
- The engine sets a bit in `HDMA_INT_STATUS` and sends an MSI, one vector for all
  channels. The handler puts a byte into the kfifo and wakes the kthread.
- The kthread scans the status registers (always from channel 0, stopping at the
  first that has a bit set), sets `state` to `COMPLETED`, clears the status and
  wakes the caller. It takes no lock; it shares `state` with the callers.
- A data phase may carry a list of register writes, which go through the same
  register window as `EON_IOCTL_IATU`; the mutex `conbar_lock` is between them.
- `eon_probe()` registers the handler, publishes the device node and starts the
  kthread before all contexts exist; `eon_remove()` takes them down while
  interrupts may still arrive and files may still be open.
- All of them write to BAR 0 at addresses that macros compute: `eon_probe()` under
  no lock, callers under the spinlock of a context, the register window under
  `conbar_lock`, the kthread under none.

What is hard here: completions, timeouts and signals racing on `state`; one MSI
standing for several completions; spinlocks held across sleeps; the lock being
free between the two phases of one transfer; a cached window position; start-up
and tear-down against a running thread and handler; registers that keep what the
last transfer left; lengths in integers of three widths; many steps that fail
one by one. `PROJECT.json` lists each
such place with its line, under `hazards`.

## 2. Modules and their correspondence to the code

`PROJECT.json`, under `map`, gives the source lines of every definition.

**`HdmaIrq`** is the interrupt path. `state`, `asleep` (a sleeper on `wq`) and
`intStatus` exist per context; `msi` is one flag, since MSIs coalesce; `kfifo` is
the number of bytes (their values are not used). The kthread runs one register
access at a time: `kthread_while` (the loop on the kfifo, or the "extra loop"),
`kthread_scan` (one status register per step), `kthread_set`, `kthread_clear`,
`kthread_wake` (the wake-up and `kfifo_out()`), `kthread_loop` (the limit of 32
empty scans). The order *state, then clear, then wake* is the order of the code.
What tasks and engines do to these variables is left arbitrary here.

**`HdmaTransfer`** extends it with the callers, the spinlocks and the engines. A
caller is in user space, spins, holds the lock before the doorbell, waits, or
tears down; `phase` tells the descriptor from the data phase. The doorbell, the
test of the wait condition, and the three ends of a wait (`wait_done`,
`wait_signal`, `wait_timeout`) are actions of their own. `-ERESTARTSYS` counts as
success, because the code tests `!ret` only; `eon_hdma_outbound()` returns 0 on its
error paths. A spinning caller occupies a processor (`CpuFree`). The engines
(`engine_stop`, `engine_watermark`, `engine_abort`, `device_start`) are external.
Three variables are history only: `causes` says why the driver may have lost
track of a context since it last came to rest, `misled` which callers relied on
such a context, `moved` whose data really was moved. No guard reads them.

**`RegOps`**, **`RegFile`**, **`ConfigWindow`**. `RegFile` is what a caller of a
register access expects: its requests are carried out one by one, each in one
step at its own address. `ConfigWindow` is what the driver does: range check,
mutex, test of `config_bar_base`, the two iATU regions one after the other, the
access through whatever the region then translates to, the copy out, the
unlock. `rebind` is a new `eon_probe()`, with or without a reset of the card.
Cells are 16 bits wide; 32-bit accesses take two, and an address is programmed
as two words, so that a truncation is visible.

**`EonLifecycle`** has one location per step of `eon_probe()` and `eon_remove()`,
the error labels in their order, what the `eon_device` owns (`dev`), the thread,
the handler and the open files. `char_ctx` counts the `char_dev_ctx` structures that
`char_dev_init()` has allocated: nothing decrements it. A failure that `eon_probe()`
does not see, or does not report, is recorded in `lost`; following a pointer that is
NULL or freed, and a `BUG_ON()`, in `crash`. `pci_free_irq_vectors()` with the handler
still registered (`err_char_dev`) has two outcomes, since kernels differ: a `BUG_ON()`
or a warning. The kthread's loop is reduced to what it needs of the
device; `HdmaIrq` has the rest.

**`HdmaRegs`** is BAR 0 (`mem`) and its writers. A function of `hdma.c` that writes
registers is an operator from a memory to a memory; an action is one writer's
run of them between two points where others can be seen. `dpc` and `pos` are
where `eon_probe()` is in its two loops, `live` the contexts that exist, `msi_cap`
the message the host expects (forgotten once the host changes it, `set_affinity`),
`base_addr` what `pci_msi_setup()` read. Because there is one memory, a writer
whose address meets another's disturbs it. How waits end and what
the kthread concludes is in `HdmaTransfer` and `HdmaIrq`.

**`SgTable`** is the memory of an `EON_IOCTL_HDMA`, one call after the other: an
action per allocation, pinning, mapping and loop iteration, each with its
failure and the label the failure jumps to. Addresses are positions in the
buffer, so that what a descriptor moves can be compared with what was asked
for. `held` and `pinned` are what the call has to give back; `wild` says that the
array of pages was never filled in. That IOMMUs join adjacent entries is
external (`Joins`).

**`MC…`** modules define values for constants. **`…Proofs`** modules hold the
theorems.

## 3. Runs

| Run | Instance | What it shows |
|---|---|---|
| `irq_live` | one channel pair, kfifo of 2, loop limit 2; stop and abort | Every status bit is cleared, sleepers on a stopped channel are woken, the kfifo drains, although bytes are missing or dropped |
| `hdma_calm` | two callers, one channel pair, both directions; refused writes and deferred starts | A transfer that reports success moved its data; pages stay pinned while an engine runs; lists are not overwritten; no lockup; no missed wake-up |
| `hdma_early` | waits may time out or be interrupted by a signal | Nothing is promised for the abandoned context until it comes to rest; every spinlock is given back by its owner; every other context is in step with its engine, found idle by whoever locks it, and loses no completion |
| `hdma_engine` | aborts, with and without an MSI, and a watermark before the stop | Unless the kthread takes a watermark for the completion, driver and engine stay in step, an end of a transfer is noticed, and a completion is recorded only for an engine that has finished |
| `hdma_live` | engines that may never answer, a shared descriptor area; two callers on two processors | Every `EON_IOCTL_HDMA` returns |
| `hdma_crowd` | the same on one processor | Every `EON_IOCTL_HDMA` returns, unless the machine locks up for good: a task spins on the processor that the sleeping owner of the lock needs |
| `window` | two tasks, two to three windows, lists, refusals, rebinding, reset | The cache agrees with the iATU; the window implements the register file; every register access returns |
| `lifecycle` | two users, three contexts, `rmmod` and hot removal, every failure, two bindings, interrupts without end | The module stays while a file is open; the kthread and the handler do not outlive what they use; an unbound device owns nothing but the `char_dev_ctx` of each `eon_probe()`; a bound device is complete, or an error was lost; `eon_remove()` ends |
| `lifecycle_assert` | no failures | **Violated**: `BUG_ON(!dpu_dev)` can fire, see section 6 |
| `regs` | two callers, two channel pairs, an inbound and a deferred outbound transfer, both kinds of MSI capability, rebinding with and without a reset | A channel that was started holds its caller's transfer, whatever ran on it before and whoever else writes; MSIs go where the host expects them; the iATU regions do not disturb each other |
| `sg` | every offset in a page, lengths 0 to 36 bytes and close to the end of the address space; pages of 4 bytes, `unsigned int` of 5 bits, `unsigned long` of 8 | The descriptors cover the buffer exactly, its pages are held meanwhile, and every error path gives everything back once |
| `sg_pin` | the same | **Violated**: a failure of the pinning is not noticed, see section 6 |

**Bounds.** Two callers on one channel pair are enough for every conflict the code
has: contexts do not share state, apart from the kthread's scan and the
descriptor areas, and a pair has a context before and one after in the scan. A
kfifo of one byte makes both "full" and "empty" frequent; a loop limit of 1 makes
the stale-byte path frequent. Early ends of waits and
what engines report are in separate runs, to keep the instances small; the
theorems of section 5 hold for all of them together. `Env` and `Reported` are
the names of these bounds. The windows of `MCConfigWindow` have 4 cells and words
of 8, so that a window's address needs both words. `MaxProbes = 2` lets a device
be bound a second time, with files left over from the first. Callers are
symmetric in the safety runs; the descriptor areas are permuted with them.
`regs` has words of 25 bits, the smallest that hold the size of a region, so that
addresses take two; the two requests use the read context for descriptors and
for data and the write context for data, in every order. In `sg` the largest array
of pages (`VmallocMax`) covers more bytes than an `unsigned int` counts and the
largest list (`KmallocMax`) fewer, as on a real machine; buffers span up to nine
pages, which is enough for first, middle and last pages to be joined or not.

`hdma_live` and `hdma_crowd` differ in the number of processors only: with as many
as there are callers `LockedUp` cannot happen (`NoLockup`), with fewer it does.

**Deadlock** is checked everywhere except in `lifecycle`, where the driver
core stops for good after a crash and nothing else need happen, and in
`hdma_crowd`, where the lock-up is a deadlock.

## 4. Fairness

- A caller inside the ioctl and the kthread go on. They are schedulable kernel code
  and need the processor that `CpuFree` asks for; strong fairness says that the
  scheduler gives them one if processors come free again and again, and nothing when
  spinning tasks keep all of them. A timeout is therefore certain as long as its task
  can run, which is what the timer promises.
- A pending interrupt is delivered (weak fairness).
- `spin_lock` (a step of a caller) and `mutex_lock` are strongly fair as well: the
  queued spinlock serves its waiters in order, and the kernel's mutex hands over to
  its first waiter.
- `eon_probe()` and `eon_remove()` go on once started.
- Nothing is assumed of engines, users, signals, interrupts and administrators.

`StatusDrained` and `StopWakes` are stated for a context once those scanned before
it have fallen silent, since the code lets a busy low channel starve the others.

## 5. Theorems

All for every value of the constants that satisfies the named assumptions.

`HdmaIrqProofs`: **`IrqTyped`**. The invariant `IrqInv` adds to `IrqTypeOK` that
`loop` is below the limit whenever the `while` is evaluated.

`HdmaTransferProofs`, all by the inductive invariant `TransferInv`:

- **`TransferTyped`**, **`LockSafety`** (`LockOwner`);
- **`TransferImplementsIrq`**: every step of the composed system is a step of
  `HdmaIrq` or leaves its variables alone;
- **`LockupFreedom`** (`NoLockup`), from `LockOwner`: if spinners fill all
  processors, every caller spins, so that no caller owns a lock;
- **`InStepAlways`** (`InStep`), the core: for a context none of whose waits ended
  early, a job belongs to the task that waits on the context, a stop or abort bit
  is either the news that this task waits for or is just being cleared, and
  nothing is recorded between programming and doorbell. Every part of `InStepAt`
  is needed for the others. The delicate step is the kthread's clear, which may
  come after the next caller has taken the lock: at that time the bits in the
  register are among those that the kthread has read, as long as the next job
  has not ended;
- **`LockMeansIdle`** (`IdleWhenTaken`), **`CompletionSafety`** (`CompletedWhenIdle`),
  from `InStep` and `LockOwner`; **`DmaSafety`** (`PinnedWhileBusy`), from `InStep`
  and the fact that a caller has its pages pinned from `eon_hdma()` to its
  teardown.

`HdmaDeliveryProofs` continues it with `DeliveryInv`, which joins to `TransferInv`:

- `AbortNoted` (an abort in a register or in the kthread's hands is among the
  `causes`). `NoMissedWakeup` is inductive with it: **`WakeupSafety`**;
- `WaiterStays`: while the kthread is between recording a completion and clearing
  its status, the task still waits, unless that is noted. It excludes that a
  clear which comes late takes the news of a *later* job with it, which is the one
  way to lose a completion: **`CompletionKept`** (`NoLostCompletion`);
- `KindOfPhase` and `StaleMisled`: the job of an undisturbed engine is of the phase
  that its caller is in, and a job outlives the wait for it only if its caller
  was `misled`. A misled caller is promised nothing, so that a stray job of an
  earlier call cannot break the promises to another one;
- `DescDone`, `DescReady`, `DataAtRest`, `DataDone`: the two phases in their order. A
  wait whose engine came to rest by itself has got its list into its area;
  the list is still there in the second phase; a wait of that phase at rest has
  moved the data; so has a caller at its teardown that will return 0. This gives
  **`ListSafety`** (`DescriptorsIntact`) and, since the value is returned by the
  teardown alone, the action property **`MovedOnSuccess`** (`SuccessMeansMoved`).
  Both are about callers that do not share their `desc_addr`.

`ConfigWindowProofs`, by `WindowInv`: **`WindowTyped`**, **`WindowSafety`**
(`WindowAgrees`) and **`WindowIsRegFile`** (`ImplementsRegFile`): initial states map to
initial states, the access maps to the access, and everything else to a call, a
refusal, a return, a reset or a stutter. `WindowInv` adds that the mutex belongs
to the task in the critical section, that a task there has a request in range,
that the inbound region is already the new one when the outbound one is
programmed, and that an ioctl has one request. The arithmetic (an address is its
two words; a datum is its two cells; a window plus an offset is the address) is
in lemmas.

`EonLifecycleProofs`, by `LifecycleInv`: **`LifecycleTyped`**, **`KthreadSafety`**
(`KthreadSafe`), **`IsrSafety`** (`IsrSafe`), **`UnbindSafety`** (`UnboundClean`),
**`BindSafety`** (`BoundReady`) and **`FileSafety`** (`DeviceOutlivesFile`).
`LifecycleInv` says, location by location of `eon_probe()` and `eon_remove()`, what
the `eon_device` owns: kthread and stop requests, kfifo, handler and vectors,
character device and node, contexts, files, and how many `char_dev_ctx` there are
(`LeftInv`: fewer than calls of `eon_probe()` until the present call has allocated
its own). None of the properties is inductive without it. Its special case is `Hollow`: after a failed `kfifo_alloc()` everything is
undone and `eon_probe()` still reports success, so that a device is bound that owns
nothing, and `eon_remove()` ends in `kthread_stop()` with a NULL pointer.

`HdmaRegsProofs` first proves the layout: **`ChannelsApart`**, **`IatuApart`** and
`RegionsDisjoint` (no two registers share an address; the 16th channel ends below
the iATU). TLC has two channels, so that this boundary is covered by the proof
only. Lemmas then say of each run of register writes what it stores and that it
stores nothing else, and of each part of the state that writes elsewhere leave it
alone. `RegsInv` joins them: the lock of a context is its caller's (`LockInv`), a
programmed context keeps its transfer (`ModeInv`), contexts that the loop of
`eon_probe()` has passed know the message (`ArmInv`), regions stay (`RegionInv`). It
gives **`RegsTyped`**, **`ChannelProgrammed`** (`Programmed`), **`MessageReaches`**
(`MsiReaches`) and **`RegionsSafety`** (`RegionsApart`).

`SgTableProofs`, by `SgInv`: **`SgTyped`**, **`PinSafety`** (`PagesHeld`),
**`ListCoversBuffer`** (`ListCovers`) and **`CleanupSafety`** (`NothingLeft`), for any
page size, integer widths, limits of the allocators and buffers. TLC has pages of 4
bytes and lists of up to 9 pages.

- `HeldInv` and `PinInv` give the resources held at each location, `WrongInv` that
  nothing was released twice: every error label releases what it should.
- `NrInv` puts the end of the buffer into its last page. It rests on `PagesNr`
  (what `get_pages_nr()` computes is the rounded-up number of pages, although the
  difference is formed modulo 2^64); `TouchedPages` then counts the pages with a
  bijection.
- `LenInv` relates the lengths of the lists to the loop index. Without it not
  even `TypeOK` is inductive.
- `FillInv`, `MapInv` and `ElementsInv` are the invariants of the three loops. After
  `k` pages the scatter list covers the bytes before page `k` (`Start(k)`); the mapped
  list covers them without gaps, whether an entry was appended or joined
  (`CoverAppend`, `CoverJoin`); the elements cover what they have passed of the
  mapped list, and the empty entries at its end add nothing. A list that `kmalloc()`
  gives the memory for is short enough (`ShortLen`) that none of the cuts to 32 bits
  changes a length.

**Assumptions.** `IrqAssumption` and `TransferAssumption`: there are channels,
processors and room in the kfifo; callers are finitely many. `RegAssumption`: the
device has a cell after the last address. `WindowAssumption`: `WinSize <= AddrMin`,
so that `config_bar_base = 0` cannot be mistaken for a window (in the code the
range begins at `REGS_ADDR_MIN`, 0x40000000); windows have an even number of cells and 32-bit
accesses are aligned. `LifecycleAssumption`: there are
contexts and room in the kfifo. `SizeAssumption`: at most 16 channels, whose registers
end where the iATU's begin, and registers wide enough for the constants of the
code; `RegsAssumption` and `MessageAssumption`: requests, windows and MSI messages
have the widths of their C types. `SgAssumption`: an array of 2^32 pages (64 GiB) cannot be
allocated, and a list that `kmalloc()` gives covers less than 4 GiB. TLC evaluates
all of them in the runs.

**Only model-checked**: liveness (`StatusDrained`, `StopWakes`, `KfifoEmpties`,
`IoctlReturns`, `AccessReturns`, `RemoveEnds`), which the prover does not handle.
Every invariant and action property of the passing runs is a theorem. TLC has
also checked `DeliveryInv` and `SgInv`, on the instances of section 3, before they
were proved.

## 6. What the properties leave out, and why

The properties say what the code does guarantee; their exceptions name what it
does not.

- **`BUG_ON` on close** (finding): `char_dev_init()` calls `cdev_add()` before it sets
  `ctx->dpu_dev`. A file opened in between has a NULL `private_data`, and closing
  it runs into `BUG_ON(!dpu_dev)` in `device_release()`.
- **Unnoticed failure of the pinning** (finding): `dpu_get_pages()` compares the `int`
  of `get_user_pages_fast()` with an `uint32_t`. An error code passes for success,
  and the call maps, hands to the engine and finally puts whatever the array of
  pages happens to hold. `PagesHeld` and `NothingLeft` except this case (`wild`).
- *Early ends of a wait* (`Early`): after a timeout, a signal, or a watermark
  that was taken for the completion, the engine still runs while its pages are
  released and the next caller programs the channel. What the hardware then does
  is left open. `causes` returns to empty once the context is found at rest.
- *`overtake`*: a caller can see `COMPLETED` and start the next job before the
  kthread has cleared the old status; if that job also ends before the clear,
  its stop bit is lost and the caller has to wait for its timeout.
- *Aborts* are recorded as completions, and do not wake the sleeper.
- *Shared `desc_addr`*: two callers that pass the same one overwrite each other's
  list, since the lock is free between the phases.
- *Outbound errors* are not reported to the caller; a list of 16 register writes
  (`num < REG_OPERATION_MAX_NUM`) is passed over without an error.
- *Lock-up*: a spinlock is held across a sleep. With more callers than processors,
  tasks that spin can occupy every processor while the owner sleeps; neither the
  kthread nor the owner, after its timeout, ever runs again. `IoctlReturns` names
  this exception (`LockedUp`); the driver does not limit the number of callers.
- *`eon_probe()`*: a failed `device_create()`, `kfifo_alloc()` or `kthread_run()`, or an
  error code of the vector allocation, goes unnoticed or unreported (`lost`).
  `device_create()` returns an error code where the code tests for NULL, so that a
  device is bound without its node; if it did return NULL, `char_dev_init()` would
  return 0 with `eon->char_ctx` NULL, which `char_dev_fini()` follows. The kthread
  and the handler are running before what they use exists. `set_dma_mask()` returns 0
  when neither mask was accepted.
- *Error path of `eon_probe()`*: it frees the MSI vectors while the handler is still
  registered. Kernels whose MSI code has a `BUG_ON()` for it end there; `IsrSafe`
  excepts that crash, and in the others the handler goes when `eon_probe()` returns.
- *MSI message*: it is read once. `MsiReaches` holds until the host assigns another
  one, and from the end of `eon_probe()`: the device node is there before the
  channels know the message.
- *Left behind by the driver*: the `char_dev_ctx` of every `eon_probe()` that got as
  far as `cdev_add()`, whether that failed or not; `char_dev_fini()` does not free it
  (`UnboundClean` says: this and nothing else).
- *Left behind by a call*: `pci_unmap_sg()` is never called, and a wrong `hdma_id` leaks the
  arguments (`NothingLeft` says: these two and nothing else).
- *Lengths near 2^64* wrap in `get_pages_nr()`: one page is moved, and the call
  succeeds (`NoWrap`).
- *Hot removal* frees the device under open files: `DeviceOutlivesFile` is stated
  for unloading, and for the time before the removal. `kthread_stop()` may meet a
  thread that has already ended because of `should_stop_flag`.

## 7. Not modelled

- `hdma_test.c` (not in the Makefile), `eon.mod.c` (generated), `hdma_lock()`,
  `hdma_unlock()`, `hdma_terminal_transfer()`, `hdma_disable()` (not called).
- Dumps and logs; `hdma_disable_intr()` (not called); `desc_buf` of a context (set by
  `hdma_init()`, not used by the build).
- Bounce buffers, caches and IOMMU permissions: the descriptors are written after
  `pci_map_single()`, and the list of an outbound transfer is mapped
  `DMA_FROM_DEVICE` although the device reads it. Whether that matters depends on
  the platform; listed as a hazard without a property.
- `dpu_id` growing past the 8 reserved minors: listed as a hazard without a
  property.

## 8. Plan

Done, in this order: `HdmaIrq`, `HdmaTransfer`, their proofs, `RegFile` and
`ConfigWindow` with proofs, `EonLifecycle`, `HdmaRegs`, `SgTable`, then the proofs
about `EonLifecycle` and `HdmaRegs`, and those about `SgTable` and about the
delivery of completions and data.

Next: the safety facts that liveness rests on (a bound on the kthread's scans,
progress of the lock queue) as far as they are state properties; and a theorem for
the step from `SgTable`'s list to the one `HdmaTransfer` runs.
