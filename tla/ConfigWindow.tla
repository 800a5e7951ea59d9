----------------------------- MODULE ConfigWindow -----------------------------
(***************************************************************************)
(* Register accesses through the sliding window.  BAR 2 shows one window   *)
(* of the device's address space; its position is set by region 1 of the   *)
(* iATU and remembered in config_bar_base.  Tasks come from two places:    *)
(* EON_IOCTL_IATU (eon_rw_reg(), one request) and dma_llmode_transmit()    *)
(* (regs_operations() for each write of a list, under a channel's          *)
(* spinlock).  The mutex conbar_lock is all that keeps the window in place *)
(* between the test of config_bar_base and the access.                     *)
(***************************************************************************)
EXTENDS RegOps

CONSTANTS
    Tasks,
    IoctlRequests,  \* requests that reach eon_rw_reg()
    Lists,          \* lists of writes that reach dma_llmode_transmit()
    MaxNum,         \* REG_OPERATION_MAX_NUM
    WinSize,        \* CONFIG_BAR_SIZE
    Word,           \* 2^32: an address is programmed as two words
    ConfigBar,      \* CONFIG_BAR_INDEX
    None

\* Both kinds of address are aligned to the window in the code; what matters
\* is that no accessible address lies in the window at 0, which stands for
\* "no window yet".  32-bit accesses are aligned.
ASSUME WindowAssumption ==
    /\ WinSize \in Nat \ {0} /\ Word \in Nat \ {0}
    /\ WinSize % 2 = 0 /\ WinSize <= AddrMin
    /\ MaxNum \in Nat
    /\ ConfigBar \in Nat \ {0}
    /\ None \notin Tasks
    /\ IoctlRequests \subseteq Requests
    /\ Lists \subseteq Seq(Requests)
    /\ \A r \in IoctlRequests : r.rw_flag \in {"WRITE", "READ"} => r.reg_addr % 2 = 0
    /\ \A l \in Lists : \A i \in 1 .. Len(l) :
            l[i].rw_flag = "WRITE" /\ l[i].reg_addr % 2 = 0

VARIABLES
    pc,                 \* "idle", "check", "lock", "inbound", "outbound",
                        \* "access" or "unlock"
    todo, got, res,     \* requests left, reg_data, result, as in RegFile
    ioctl,              \* the task is in eon_rw_reg()
    conbar_lock,        \* owner of the mutex
    config_bar_base,    \* the window the driver believes in
    iatu,               \* region 1 of the iATU, inbound and outbound
    mem                 \* the registers of the device

taskVars == <<pc, todo, got, res, ioctl>>
vars == <<taskVars, conbar_lock, config_bar_base, iatu, mem>>

Off == [lwr |-> 0, upper |-> 0, size |-> 0, bar |-> 0]

Init ==
    /\ pc = [t \in Tasks |-> "idle"]
    /\ todo = [t \in Tasks |-> <<>>]
    /\ got = [t \in Tasks |-> 0]
    /\ res = [t \in Tasks |-> "ok"]
    /\ ioctl = [t \in Tasks |-> FALSE]
    /\ conbar_lock = None
    /\ config_bar_base = 0
    /\ iatu = [d \in {"in", "out"} |-> Off]
    /\ mem = [a \in Cells |-> 0]

-----------------------------------------------------------------------------
Goto(t, l) == pc' = [pc EXCEPT ![t] = l]

Start(t, job, fromIoctl) ==
    /\ pc[t] = "idle"
    /\ Goto(t, "check")
    /\ todo' = [todo EXCEPT ![t] = job]
    /\ res' = [res EXCEPT ![t] = "ok"]
    /\ ioctl' = [ioctl EXCEPT ![t] = fromIoctl]
    /\ UNCHANGED <<got, conbar_lock, config_bar_base, iatu, mem>>

\* eon_rw_reg() has copied the arguments in.  A call whose allocation or copy
\* fails has no arguments to act on.
eon_rw_reg(t) == \E r \in IoctlRequests : Start(t, <<r>>, TRUE)

\* dma_llmode_transmit() has a list of writes to do.  A list that is too long
\* (num < REG_OPERATION_MAX_NUM is required) is passed over without an error.
Effective(l) == IF Len(l) < MaxNum THEN l ELSE <<>>
reg_infos(t) == \E l \in Lists : Start(t, Effective(l), FALSE)

\* The range check, and the end of the list.
check_range(t) ==
    /\ pc[t] = "check"
    /\ \/ /\ todo[t] # <<>> /\ InRange(Head(todo[t]))
          /\ Goto(t, "lock")
          /\ UNCHANGED <<todo, res>>
       \/ /\ todo[t] # <<>> /\ ~InRange(Head(todo[t]))
          /\ Goto(t, "idle")
          /\ todo' = [todo EXCEPT ![t] = <<>>]
          /\ res' = [res EXCEPT ![t] = "refused"]
       \/ /\ todo[t] = <<>>
          /\ Goto(t, "idle")
          /\ UNCHANGED <<todo, res>>
    /\ UNCHANGED <<got, ioctl, conbar_lock, config_bar_base, iatu, mem>>

offset(r) == r.reg_addr % WinSize
MapUnaligned(r) == r.reg_addr
map_addr(r) == r.reg_addr - offset(r)

\* mutex_lock(), and the test whether the window has to move.
LockIgnored == TRUE
LockFree == conbar_lock = None
MustMapOnce(r) == config_bar_base = 0
MustMap(r) == map_addr(r) # config_bar_base

mutex_lock(t) ==
    /\ pc[t] = "lock" /\ LockFree
    /\ conbar_lock' = t
    /\ Goto(t, IF MustMap(Head(todo[t])) THEN "inbound" ELSE "access")
    /\ UNCHANGED <<todo, got, res, ioctl, config_bar_base, iatu, mem>>

\* The four registers of a region.  The size is never above the 16M that the
\* functions accept.
Target(m) == [lwr |-> m % Word, upper |-> m \div Word,
              size |-> WinSize, bar |-> ConfigBar]

iatu_map_inbound_bar(t) ==
    /\ pc[t] = "inbound"
    /\ iatu' = [iatu EXCEPT !["in"] = Target(map_addr(Head(todo[t])))]
    /\ Goto(t, "outbound")
    /\ UNCHANGED <<todo, got, res, ioctl, conbar_lock, config_bar_base, mem>>

iatu_map_outbound_bar(t) ==
    /\ pc[t] = "outbound"
    /\ iatu' = [iatu EXCEPT !["out"] = Target(map_addr(Head(todo[t])))]
    /\ config_bar_base' = map_addr(Head(todo[t]))
    /\ Goto(t, "access")
    /\ UNCHANGED <<todo, got, res, ioctl, conbar_lock, mem>>

\* The device, external: the inbound region translates an offset in the BAR.
\* Outside the region writes are lost and reads return ones.
Hit(o) == iatu["in"].bar = ConfigBar /\ o < iatu["in"].size
Translate(o) == iatu["in"].upper * Word + iatu["in"].lwr + o

\* The access, through the window; the loop of dma_llmode_transmit() then
\* goes on to its next write.
SameAgain(s) == s
Rest(s) == Tail(s)

reg_access(t) ==
    /\ pc[t] = "access"
    /\ LET r == Head(todo[t])
           a == Translate(offset(r))
       IN
        IF Hit(offset(r))
          THEN /\ mem' = Store(mem, a, r)
               /\ got' = [got EXCEPT ![t] = Load(mem, a, r)]
          ELSE /\ got' = [got EXCEPT ![t] = FullWord - 1]
               /\ UNCHANGED mem
    /\ todo' = [todo EXCEPT ![t] = Rest(@)]
    /\ Goto(t, "unlock")
    /\ UNCHANGED <<res, ioctl, conbar_lock, config_bar_base, iatu>>

\* mutex_unlock().  eon_rw_reg() copies the result out first, which may fail,
\* and returns; the loop of dma_llmode_transmit() goes on.
mutex_unlock(t) ==
    /\ pc[t] = "unlock"
    /\ conbar_lock' = None
    /\ \/ /\ ioctl[t]
          /\ Goto(t, "idle")
          /\ \E r \in {"ok", "fault"} : res' = [res EXCEPT ![t] = r]
       \/ /\ ~ioctl[t]
          /\ Goto(t, "check")
          /\ UNCHANGED res
    /\ UNCHANGED <<todo, got, ioctl, config_bar_base, iatu, mem>>

\* The driver is loaded anew: eon_probe() starts with a zeroed eon_device, and
\* the device keeps its region (rmmod, insmod) or is reset (hotreset.sh).
StaleBase == config_bar_base
NewBase == 0

rebind ==
    /\ \A t \in Tasks : pc[t] = "idle"
    /\ config_bar_base' = NewBase
    /\ \/ UNCHANGED <<iatu, mem>>
       \/ /\ iatu' = [d \in {"in", "out"} |-> Off]
          /\ mem' = [a \in Cells |-> 0]
    /\ UNCHANGED <<taskVars, conbar_lock>>

TaskStep(t) ==
    \/ check_range(t) \/ mutex_lock(t)
    \/ iatu_map_inbound_bar(t) \/ iatu_map_outbound_bar(t)
    \/ reg_access(t) \/ mutex_unlock(t)

Next ==
    \/ \E t \in Tasks : eon_rw_reg(t) \/ reg_infos(t) \/ TaskStep(t)
    \/ rebind

Spec == Init /\ [][Next]_vars

\* A task in the kernel goes on; a mutex is handed to its waiters in turn.
Fairness == \A t \in Tasks : WF_vars(TaskStep(t)) /\ SF_vars(mutex_lock(t))
FairSpec == Spec /\ Fairness

-----------------------------------------------------------------------------
(* Properties.                                                             *)

Holding == {"inbound", "outbound", "access", "unlock"}

\* What is stored and read keeps the width of the registers.
TypeOK ==
    /\ pc \in [Tasks -> {"idle", "check", "lock"} \cup Holding]
    /\ todo \in [Tasks -> Seq(Requests)]
    /\ got \in [Tasks -> Data]
    /\ res \in [Tasks -> {"ok", "refused", "fault"}]
    /\ ioctl \in [Tasks -> BOOLEAN]
    /\ conbar_lock \in Tasks \cup {None}
    /\ config_bar_base \in Nat
    /\ iatu \in [{"in", "out"} -> [lwr : Nat, upper : Nat, size : Nat, bar : Nat]]
    /\ mem \in [Cells -> 0 .. HalfWord - 1]

\* When nobody is about to move the window, the iATU agrees with the cached
\* config_bar_base, so that the test that saves the programming is sound; and
\* a task that accesses the window has it at the address it asked for.
Moving == \E t \in Tasks : pc[t] \in {"inbound", "outbound"}

WindowAgrees ==
    /\ config_bar_base # 0 /\ ~Moving
           => \A d \in {"in", "out"} : iatu[d] = Target(config_bar_base)
    /\ \A t \in Tasks :
          pc[t] = "access" => config_bar_base = map_addr(Head(todo[t]))

\* The window with its cache and its mutex is indistinguishable from a
\* register file: every request reaches the registers at its own address, in
\* one step, however the tasks move the window in between.
RF == INSTANCE RegFile WITH
        Jobs <- {<<r>> : r \in IoctlRequests} \cup {Effective(l) : l \in Lists},
        stage <- [t \in Tasks |-> IF pc[t] = "idle" THEN "idle" ELSE "busy"]
ImplementsRegFile == RF!RegFileSpec

\* Every register access returns, whatever the other tasks do.
AccessReturns == \A t \in Tasks : []<>(pc[t] = "idle")

=============================================================================
