-------------------------- MODULE ConfigWindowProofs --------------------------
(***************************************************************************)
(* Proofs about ConfigWindow for every set of tasks, every window size and *)
(* word size, and every set of requests.                                   *)
(***************************************************************************)
EXTENDS ConfigWindow, TLAPS

\* The arithmetic of the code: an address is its window plus its offset, and
\* an address is its two words.
LEMMA DivMod ==
    ASSUME NEW a \in Nat, NEW b \in Nat \ {0}
    PROVE  /\ a % b \in 0 .. b - 1
           /\ a \div b \in Nat
           /\ a = (a \div b) * b + (a % b)
    BY SMT

\* A 32-bit datum consists of two cells.
LEMMA Halves ==
    ASSUME NEW v \in Data
    PROVE  v % HalfWord \in 0 .. HalfWord - 1 /\ v \div HalfWord \in 0 .. HalfWord - 1
<1> USE RegAssumption DEF Data, FullWord
<1>1. v \in Nat /\ v < HalfWord * HalfWord
    BY SMT
<1>2. /\ v % HalfWord \in 0 .. HalfWord - 1
      /\ v \div HalfWord \in Nat
      /\ v = (v \div HalfWord) * HalfWord + (v % HalfWord)
    BY <1>1, DivMod
<1>3. v \div HalfWord < HalfWord
    BY <1>1, <1>2, SMTT(30)
<1> QED
    BY <1>2, <1>3

\* Two cells make a 32-bit datum.
LEMMA Whole ==
    ASSUME NEW x \in 0 .. HalfWord - 1, NEW y \in 0 .. HalfWord - 1
    PROVE  x \in Data /\ x + HalfWord * y \in Data
<1> USE RegAssumption DEF Data, FullWord
<1>1. HalfWord * y \in Nat /\ HalfWord * (y + 1) <= HalfWord * HalfWord
    BY SMTT(30)
<1>2. HalfWord * (y + 1) = HalfWord * y + HalfWord
    BY SMTT(30)
<1> QED
    BY <1>1, <1>2, SMTT(30)

\* An accessible address lies in a window other than the one at 0, and the
\* region programmed for that window translates its offset back to it.
LEMMA MapAddr ==
    ASSUME NEW r \in Requests, InRange(r)
    PROVE  /\ offset(r) \in 0 .. WinSize - 1
           /\ map_addr(r) \in Nat \ {0}
           /\ map_addr(r) + offset(r) = r.reg_addr
           /\ r.reg_addr \in Cells /\ r.reg_addr + 1 \in Cells
<1>1. WinSize \in Nat \ {0} /\ r.reg_addr \in Nat
      /\ r.reg_addr >= WinSize /\ r.reg_addr < DevTop /\ DevTop \in Nat
    BY RegAssumption, WindowAssumption DEF Requests, InRange
<1>2. offset(r) \in 0 .. WinSize - 1
    BY <1>1, DivMod DEF offset
<1>3. r.reg_addr \in Cells /\ r.reg_addr + 1 \in Cells
    BY <1>1 DEF Cells
<1> QED
    BY <1>1, <1>2, <1>3 DEF map_addr

\* A region programmed for a window hits every offset of it and translates it
\* to the address the request asked for.
LEMMA TargetTranslates ==
    ASSUME NEW m \in Nat
    PROVE  /\ Target(m) \in [lwr : Nat, upper : Nat, size : Nat, bar : Nat]
           /\ Target(m).upper * Word + Target(m).lwr = m
           /\ Target(m).size = WinSize /\ Target(m).bar = ConfigBar
<1>1. Word \in Nat \ {0} /\ WinSize \in Nat /\ ConfigBar \in Nat
    BY WindowAssumption
<1>2. m % Word \in 0 .. Word - 1 /\ m \div Word \in Nat
      /\ m = (m \div Word) * Word + (m % Word)
    BY <1>1, DivMod
<1> QED
    BY <1>1, <1>2 DEF Target

-----------------------------------------------------------------------------
(* The inductive invariant.                                                *)

\* The mutex is held by the task that is between mutex_lock() and
\* mutex_unlock(), and by no other.
MutexOwner == \A t \in Tasks : conbar_lock = t <=> pc[t] \in Holding

\* A task has no result yet, and a request that it is about to carry out has
\* passed the range check.
Busy == {"lock", "inbound", "outbound", "access"}
Underway ==
    \A t \in Tasks :
        /\ pc[t] # "idle" => res[t] = "ok"
        /\ pc[t] \in Busy => todo[t] # <<>> /\ InRange(Head(todo[t]))

\* Half way through the programming the inbound region is already new.
InboundFirst ==
    \A t \in Tasks :
        pc[t] = "outbound" => iatu["in"] = Target(map_addr(Head(todo[t])))

\* eon_rw_reg() has one request, and none is left when it returns.
OneRequest ==
    \A t \in Tasks : ioctl[t] =>
        /\ pc[t] \in Busy \cup {"check"} => Tail(todo[t]) = <<>>
        /\ pc[t] = "unlock" => todo[t] = <<>>

\* Everything that is needed for WindowAgrees to be preserved.
WindowInv ==
    TypeOK /\ MutexOwner /\ WindowAgrees /\ Underway /\ InboundFirst /\ OneRequest

\* A store of a 32-bit or 16-bit datum leaves every register a cell wide.
LEMMA StoreType ==
    ASSUME NEW m \in [Cells -> 0 .. HalfWord - 1], NEW r \in Requests,
           NEW a \in Cells, a + 1 \in Cells
    PROVE  /\ Store(m, a, r) \in [Cells -> 0 .. HalfWord - 1]
           /\ Load(m, a, r) \in Data
<1>1. r.reg_data \in Data
    BY DEF Requests
<1>2. /\ r.reg_data % HalfWord \in 0 .. HalfWord - 1
      /\ r.reg_data \div HalfWord \in 0 .. HalfWord - 1
    BY <1>1, Halves
<1>3. m[a] \in Data /\ m[a] + HalfWord * m[a + 1] \in Data
    BY Whole
<1>4. Store(m, a, r) \in [Cells -> 0 .. HalfWord - 1]
    BY <1>2 DEF Store
<1> QED
    BY <1>1, <1>3, <1>4 DEF Load

\* The zeroed eon_device and the idle iATU satisfy the invariant.
LEMMA InitInv == Init => WindowInv
<1> SUFFICES ASSUME Init PROVE WindowInv
    OBVIOUS
<1>1. TypeOK
  <2>1. 0 \in Data /\ 0 \in 0 .. HalfWord - 1
    <3>1. 0 \in 0 .. HalfWord - 1
        BY RegAssumption
    <3> QED
        BY <3>1, Whole
  <2>2. <<>> \in Seq(Requests)
    OBVIOUS
  <2>3. mem \in [Cells -> 0 .. HalfWord - 1]
    BY <2>1 DEF Init
  <2> QED
    BY <2>1, <2>2, <2>3 DEF Init, TypeOK, Off
<1>2. MutexOwner
    BY WindowAssumption DEF Init, MutexOwner, Holding
<1> QED
    BY <1>1, <1>2 DEF Init, WindowInv, WindowAgrees, Underway, InboundFirst, OneRequest, Busy

\* A task that holds the mutex is the only one that does.
LEMMA OneHolder ==
    ASSUME MutexOwner, NEW t \in Tasks, NEW u \in Tasks,
           pc[t] \in Holding, pc[u] \in Holding
    PROVE  t = u
    BY DEF MutexOwner

\* In an access the inbound region translates the offset to the address that
\* was asked for.
LEMMA AccessReaches ==
    ASSUME WindowInv, NEW t \in Tasks, pc[t] = "access"
    PROVE  /\ Head(todo[t]) \in Requests /\ InRange(Head(todo[t]))
           /\ Hit(offset(Head(todo[t])))
           /\ Translate(offset(Head(todo[t]))) = Head(todo[t]).reg_addr
<1> DEFINE r == Head(todo[t])
<1>1. r \in Requests /\ InRange(r)
    BY DEF WindowInv, TypeOK, Underway, Busy
<1>2. ~Moving
    BY OneHolder DEF WindowInv, Moving, Holding
<1>3. config_bar_base = map_addr(r)
    BY DEF WindowInv, WindowAgrees
<1>4. /\ offset(r) \in 0 .. WinSize - 1 /\ map_addr(r) \in Nat \ {0}
      /\ map_addr(r) + offset(r) = r.reg_addr
    BY <1>1, MapAddr
<1>5. iatu["in"] = Target(map_addr(r))
    BY <1>2, <1>3, <1>4 DEF WindowInv, WindowAgrees
<1>6. Target(map_addr(r)).upper * Word + Target(map_addr(r)).lwr = map_addr(r)
      /\ Target(map_addr(r)).size = WinSize /\ Target(map_addr(r)).bar = ConfigBar
    BY <1>4, TargetTranslates
<1>7. Hit(offset(r))
    BY <1>4, <1>5, <1>6, WindowAssumption DEF Hit
<1>8. Translate(offset(r)) = r.reg_addr
    BY <1>4, <1>5, <1>6 DEF Translate
<1> QED
    BY <1>1, <1>7, <1>8

\* Every step of a task, and a rebind, preserves the invariant.
LEMMA StepInv == WindowInv /\ [Next]_vars => WindowInv'
<1> SUFFICES ASSUME WindowInv, [Next]_vars PROVE WindowInv'
    OBVIOUS
<1> USE DEF Goto
<1>0. OneRequest'
  <2> SUFFICES ASSUME NEW u \in Tasks, ioctl'[u]
               PROVE  /\ pc'[u] \in Busy \cup {"check"} => Tail(todo'[u]) = <<>>
                      /\ pc'[u] = "unlock" => todo'[u] = <<>>
    BY DEF OneRequest
  <2> USE DEF WindowInv, TypeOK, OneRequest, Busy
  <2>1. CASE eon_rw_reg(u)
    <3>1. \E r \in IoctlRequests : todo'[u] = <<r>> /\ pc'[u] = "check"
        BY <2>1 DEF eon_rw_reg, Start
    <3> QED
        BY <3>1
  <2>2. CASE reg_infos(u)
    <3>1. ~ioctl'[u]
        BY <2>2, Zenon DEF reg_infos, Start
    <3> QED
        BY <3>1
  <2>3. CASE TaskStep(u)
    <3>1. ioctl[u]
        BY <2>3, Zenon
        DEF TaskStep, check_range, mutex_lock, iatu_map_inbound_bar,
            iatu_map_outbound_bar, reg_access, Rest, mutex_unlock
    <3>2. /\ pc[u] \in Busy \cup {"check"} => Tail(todo[u]) = <<>>
          /\ pc[u] = "unlock" => todo[u] = <<>>
        BY <3>1
    <3>3. check_range(u) => pc'[u] \in {"lock", "idle"} /\ (todo'[u] = todo[u] \/ pc'[u] = "idle")
        BY DEF check_range
    <3>4. mutex_unlock(u) => pc'[u] = "idle"
        BY <3>1 DEF mutex_unlock
    <3>5. reg_access(u) => pc'[u] = "unlock" /\ todo'[u] = Tail(todo[u])
        BY DEF reg_access, Rest
    <3> QED
        BY <2>3, <3>2, <3>3, <3>4, <3>5
        DEF TaskStep, check_range, mutex_lock, iatu_map_inbound_bar,
            iatu_map_outbound_bar, reg_access, Rest, mutex_unlock
  <2>4. CASE UNCHANGED <<pc[u], todo[u], ioctl[u]>>
    BY <2>4
  <2>5. ASSUME NEW t \in Tasks \ {u}, eon_rw_reg(t) \/ reg_infos(t) \/ TaskStep(t)
        PROVE  UNCHANGED <<pc[u], todo[u], ioctl[u]>>
    <3>1. \A j, b : Start(t, j, b) => UNCHANGED <<pc[u], todo[u], ioctl[u]>>
        BY Zenon DEF Start
    <3>2. TaskStep(t) => UNCHANGED <<pc[u], todo[u]>>
        BY DEF TaskStep, check_range, mutex_lock, iatu_map_inbound_bar,
               iatu_map_outbound_bar, reg_access, Rest, mutex_unlock
    <3>3. TaskStep(t) => UNCHANGED ioctl
        BY DEF TaskStep, check_range, mutex_lock, iatu_map_inbound_bar,
               iatu_map_outbound_bar, reg_access, Rest, mutex_unlock
    <3> QED
        BY <2>5, <3>1, <3>2, <3>3, Zenon DEF eon_rw_reg, reg_infos
  <2>6. rebind \/ UNCHANGED vars => UNCHANGED <<pc[u], todo[u], ioctl[u]>>
    BY DEF rebind, vars, taskVars
  <2>7. CASE \E t \in Tasks : eon_rw_reg(t) \/ reg_infos(t) \/ TaskStep(t)
    <3> PICK t \in Tasks : eon_rw_reg(t) \/ reg_infos(t) \/ TaskStep(t)
        BY <2>7
    <3>1. CASE t = u
        BY <2>1, <2>2, <2>3, <3>1
    <3>2. CASE t # u
      <4>1. t \in Tasks \ {u}
        BY <3>2
      <4>2. UNCHANGED <<pc[u], todo[u], ioctl[u]>>
        BY <2>5, <4>1
      <4> QED
        BY <2>4, <4>2
    <3> QED
        BY <3>1, <3>2
  <2> QED
    BY <2>4, <2>6, <2>7 DEF Next
<1>1. ASSUME NEW t \in Tasks, NEW j \in Seq(Requests), NEW b \in BOOLEAN, Start(t, j, b)
      PROVE  WindowInv'
  <2>1. TypeOK'
    <3>1. ioctl' \in [Tasks -> BOOLEAN]
        BY <1>1, Zenon DEF WindowInv, TypeOK, Start
    <3>2. /\ pc' \in [Tasks -> {"idle", "check", "lock"} \cup Holding]
          /\ todo' \in [Tasks -> Seq(Requests)]
          /\ res' \in [Tasks -> {"ok", "refused", "fault"}]
        BY <1>1 DEF WindowInv, TypeOK, Start
    <3> QED
        BY <1>1, <3>1, <3>2, Zenon DEF WindowInv, TypeOK, Start
  <2>2. MutexOwner'
    BY <1>1 DEF WindowInv, TypeOK, MutexOwner, Start, Holding
  <2>3. WindowAgrees'
    BY <1>1 DEF WindowInv, TypeOK, WindowAgrees, Moving, Start
  <2>4. Underway' /\ InboundFirst'
    BY <1>1 DEF WindowInv, TypeOK, Underway, InboundFirst, Busy, Start
  <2> QED
    BY <1>0, <2>1, <2>2, <2>3, <2>4 DEF WindowInv
<1>2. ASSUME NEW t \in Tasks, check_range(t) PROVE WindowInv'
  <2>1. TypeOK'
    <3>1. \E l \in {"idle", "lock"} : pc' = [pc EXCEPT ![t] = l]
        BY <1>2, Zenon DEF check_range
    <3>2. todo' = todo \/ todo' = [todo EXCEPT ![t] = <<>>]
        BY <1>2, Zenon DEF check_range
    <3>3. res' = res \/ res' = [res EXCEPT ![t] = "refused"]
        BY <1>2, Zenon DEF check_range
    <3>4. pc' \in [Tasks -> {"idle", "check", "lock"} \cup Holding]
        BY <3>1 DEF WindowInv, TypeOK
    <3>5. todo' \in [Tasks -> Seq(Requests)]
      <4>1. <<>> \in Seq(Requests)
        OBVIOUS
      <4> QED
        BY <3>2, <4>1, Zenon DEF WindowInv, TypeOK
    <3>6. res' \in [Tasks -> {"ok", "refused", "fault"}]
        BY <3>3 DEF WindowInv, TypeOK
    <3> QED
        BY <1>2, <3>4, <3>5, <3>6, Zenon DEF WindowInv, TypeOK, check_range
  <2>2. MutexOwner'
    BY <1>2 DEF WindowInv, TypeOK, MutexOwner, check_range, Holding
  <2>3. WindowAgrees'
    BY <1>2 DEF WindowInv, TypeOK, WindowAgrees, Moving, check_range
  <2>4. Underway' /\ InboundFirst'
    BY <1>2 DEF WindowInv, TypeOK, Underway, InboundFirst, Busy, check_range
  <2> QED
    BY <1>0, <2>1, <2>2, <2>3, <2>4 DEF WindowInv
<1>3. ASSUME NEW t \in Tasks, mutex_lock(t) PROVE WindowInv'
  <2> USE DEF mutex_lock, LockFree
  <2>1. TypeOK'
    BY <1>3 DEF WindowInv, TypeOK, Holding
  <2>2. \A u \in Tasks : pc[u] \notin Holding
    BY <1>3, WindowAssumption DEF WindowInv, MutexOwner
  <2>3. MutexOwner'
    BY <1>3, <2>2 DEF WindowInv, TypeOK, MutexOwner, Holding
  <2>4. ~Moving
    BY <2>2 DEF Moving, Holding
  <2>5. WindowAgrees'
    BY <1>3, <2>2, <2>4 DEF WindowInv, TypeOK, WindowAgrees, Moving, MustMap, Holding
  <2>6. Underway' /\ InboundFirst'
    BY <1>3, <2>2 DEF WindowInv, TypeOK, Underway, InboundFirst, Busy, Holding
  <2> QED
    BY <1>0, <2>1, <2>3, <2>5, <2>6 DEF WindowInv
<1>4. ASSUME NEW t \in Tasks, iatu_map_inbound_bar(t) PROVE WindowInv'
  <2> USE DEF iatu_map_inbound_bar
  <2> DEFINE m == map_addr(Head(todo[t]))
  <2>1. Head(todo[t]) \in Requests /\ InRange(Head(todo[t]))
    BY <1>4 DEF WindowInv, TypeOK, Underway, Busy
  <2>2. Target(m) \in [lwr : Nat, upper : Nat, size : Nat, bar : Nat]
    BY <2>1, MapAddr, TargetTranslates
  <2>3. TypeOK'
    BY <1>4, <2>2 DEF WindowInv, TypeOK, Holding
  <2>4. MutexOwner'
    BY <1>4 DEF WindowInv, TypeOK, MutexOwner, Holding
  <2>5. \A u \in Tasks : u # t => pc[u] \notin Holding
    BY <1>4, OneHolder DEF WindowInv, Holding
  <2>6. WindowAgrees'
    BY <1>4, <2>5 DEF WindowInv, TypeOK, WindowAgrees, Moving, Holding
  <2>7. Underway' /\ InboundFirst'
    BY <1>4, <2>5 DEF WindowInv, TypeOK, Underway, InboundFirst, Busy, Holding
  <2> QED
    BY <1>0, <2>3, <2>4, <2>6, <2>7 DEF WindowInv
<1>5. ASSUME NEW t \in Tasks, iatu_map_outbound_bar(t) PROVE WindowInv'
  <2> USE DEF iatu_map_outbound_bar
  <2> DEFINE m == map_addr(Head(todo[t]))
  <2>1. Head(todo[t]) \in Requests /\ InRange(Head(todo[t]))
    BY <1>5 DEF WindowInv, TypeOK, Underway, Busy
  <2>2. m \in Nat /\ Target(m) \in [lwr : Nat, upper : Nat, size : Nat, bar : Nat]
    BY <2>1, MapAddr, TargetTranslates
  <2>3. TypeOK'
    BY <1>5, <2>2 DEF WindowInv, TypeOK, Holding
  <2>4. MutexOwner'
    BY <1>5 DEF WindowInv, TypeOK, MutexOwner, Holding
  <2>5. \A u \in Tasks : u # t => pc[u] \notin Holding
    BY <1>5, OneHolder DEF WindowInv, Holding
  <2>6. iatu' = [iatu EXCEPT !["out"] = Target(m)] /\ iatu["in"] = Target(m)
        /\ config_bar_base' = m
    BY <1>5 DEF WindowInv, InboundFirst
  <2>7. \A d \in {"in", "out"} : iatu'[d] = Target(config_bar_base')
    BY <2>6 DEF WindowInv, TypeOK
  <2>8. WindowAgrees'
    BY <1>5, <2>5, <2>6, <2>7 DEF WindowInv, TypeOK, WindowAgrees, Moving, Holding, Target
  <2>9. Underway' /\ InboundFirst'
    BY <1>5, <2>5 DEF WindowInv, TypeOK, Underway, InboundFirst, Busy, Holding
  <2> QED
    BY <1>0, <2>3, <2>4, <2>8, <2>9 DEF WindowInv
<1>6. ASSUME NEW t \in Tasks, reg_access(t) PROVE WindowInv'
  <2> DEFINE r == Head(todo[t])
  <2>1. /\ r \in Requests /\ InRange(r) /\ Hit(offset(r))
        /\ Translate(offset(r)) = r.reg_addr
    BY <1>6, AccessReaches DEF reg_access, Rest
  <2>2. mem' = Store(mem, r.reg_addr, r)
        /\ got' = [got EXCEPT ![t] = Load(mem, r.reg_addr, r)]
    BY <1>6, <2>1 DEF reg_access, Rest
  <2>3. mem' \in [Cells -> 0 .. HalfWord - 1] /\ got' \in [Tasks -> Data]
    BY <2>1, <2>2, MapAddr, StoreType DEF WindowInv, TypeOK
  <2>4. todo[t] # <<>>
    BY <1>6 DEF WindowInv, Underway, Busy, reg_access, Rest
  <2>5. todo' \in [Tasks -> Seq(Requests)]
    BY <1>6, <2>4 DEF reg_access, Rest, WindowInv, TypeOK
  <2>6. TypeOK'
    BY <1>6, <2>3, <2>5 DEF reg_access, Rest, WindowInv, TypeOK, Holding
  <2>7. MutexOwner'
    BY <1>6 DEF reg_access, Rest, WindowInv, TypeOK, MutexOwner, Holding
  <2>8. WindowAgrees'
    BY <1>6 DEF reg_access, Rest, WindowInv, TypeOK, WindowAgrees, Moving
  <2>9. Underway' /\ InboundFirst'
    BY <1>6 DEF reg_access, Rest, WindowInv, TypeOK, Underway, InboundFirst, Busy
  <2> QED
    BY <1>0, <2>6, <2>7, <2>8, <2>9 DEF WindowInv
<1>7. ASSUME NEW t \in Tasks, mutex_unlock(t) PROVE WindowInv'
  <2> USE DEF mutex_unlock
  <2>1. TypeOK'
    BY <1>7 DEF WindowInv, TypeOK, Holding
  <2>2. \A u \in Tasks : u # t => pc[u] \notin Holding
    BY <1>7, OneHolder DEF WindowInv, Holding
  <2>3. MutexOwner'
    BY <1>7, <2>2, WindowAssumption DEF WindowInv, TypeOK, MutexOwner, Holding
  <2>4. WindowAgrees'
    BY <1>7 DEF WindowInv, TypeOK, WindowAgrees, Moving
  <2>5. Underway' /\ InboundFirst'
    BY <1>7 DEF WindowInv, TypeOK, Underway, InboundFirst, Busy
  <2> QED
    BY <1>0, <2>1, <2>3, <2>4, <2>5 DEF WindowInv
<1>8. ASSUME rebind PROVE WindowInv'
  <2> USE DEF rebind, NewBase, taskVars
  <2>1. 0 \in 0 .. HalfWord - 1
    BY RegAssumption
  <2>2. mem' \in [Cells -> 0 .. HalfWord - 1]
    BY <1>8, <2>1 DEF WindowInv, TypeOK
  <2>3. TypeOK'
    BY <1>8, <2>2 DEF WindowInv, TypeOK, Off
  <2>4. MutexOwner'
    BY <1>8 DEF WindowInv, MutexOwner
  <2>5. WindowAgrees' /\ Underway' /\ InboundFirst'
    BY <1>8 DEF WindowInv, WindowAgrees, Moving, Underway, InboundFirst, Busy
  <2> QED
    BY <1>0, <2>3, <2>4, <2>5 DEF WindowInv
<1>9. CASE UNCHANGED vars
    BY <1>0, <1>9
    DEF vars, taskVars, WindowInv, TypeOK, MutexOwner, WindowAgrees, Moving,
        Underway, InboundFirst, Target
<1>10. ASSUME NEW t \in Tasks, eon_rw_reg(t) PROVE WindowInv'
  <2> PICK r \in IoctlRequests : Start(t, <<r>>, TRUE)
    BY <1>10 DEF eon_rw_reg
  <2>1. <<r>> \in Seq(Requests)
    BY WindowAssumption
  <2> QED
    BY <1>1, <2>1
<1>11. ASSUME NEW t \in Tasks, reg_infos(t) PROVE WindowInv'
  <2> PICK l \in Lists : Start(t, Effective(l), FALSE)
    BY <1>11 DEF reg_infos
  <2>1. Effective(l) \in Seq(Requests)
    BY WindowAssumption DEF Effective
  <2> QED
    BY <1>1, <2>1
<1> QED
    BY <1>2, <1>3, <1>4, <1>5, <1>6, <1>7, <1>8, <1>9, <1>10, <1>11
    DEF Next, TaskStep

\* The inductive invariant holds in every behaviour.
LEMMA Invariance == Spec => []WindowInv
<1> QED
    BY InitInv, StepInv, PTL DEF Spec

-----------------------------------------------------------------------------
(* Theorems.                                                               *)

\* All variables keep their types: in particular, data read through the
\* window always fit the 32 bits of reg_data.
THEOREM WindowTyped == Spec => []TypeOK
<1>1. WindowInv => TypeOK
    BY DEF WindowInv
<1> QED
    BY <1>1, Invariance, PTL

\* The cached config_bar_base and the iATU agree whenever nobody moves the
\* window, and an access finds the window where it needs it.
THEOREM WindowSafety == Spec => []WindowAgrees
<1>1. WindowInv => WindowAgrees
    BY DEF WindowInv
<1> QED
    BY <1>1, Invariance, PTL

\* The sliding window implements the register file.
THEOREM WindowIsRegFile == Spec => ImplementsRegFile
<1>1. Init => RF!RegFileInit
    BY DEF Init, RF!RegFileInit, RF!Cells, Cells
<1>2. WindowInv /\ [Next]_vars => [RF!RegFileNext]_(RF!regFileVars)
  <2> SUFFICES ASSUME WindowInv, [Next]_vars
               PROVE  [RF!RegFileNext]_(RF!regFileVars)
    OBVIOUS
  <2> DEFINE stage == [t \in Tasks |-> IF pc[t] = "idle" THEN "idle" ELSE "busy"]
             jobs == {<<r>> : r \in IoctlRequests} \cup {Effective(l) : l \in Lists}
  <2> USE DEF Goto, WindowInv, TypeOK
  <2>1. ASSUME NEW t \in Tasks, NEW j \in jobs, NEW b \in BOOLEAN, Start(t, j, b)
        PROVE  RF!RegFileNext
    <3>1. stage[t] = "idle" /\ stage' = [stage EXCEPT ![t] = "busy"]
        BY <2>1 DEF Start
    <3>2. RF!Call(t)
        BY <2>1, <3>1, Zenon DEF Start, RF!Call
    <3> QED
        BY <3>2 DEF RF!RegFileNext
  <2>2. ASSUME NEW t \in Tasks, eon_rw_reg(t) \/ reg_infos(t) PROVE RF!RegFileNext
    <3>1. \E j \in jobs, b \in BOOLEAN : Start(t, j, b)
        BY <2>2, Zenon DEF eon_rw_reg, reg_infos
    <3> QED
        BY <2>1, <3>1
  <2>3. ASSUME NEW t \in Tasks, check_range(t)
        PROVE  [RF!RegFileNext]_(RF!regFileVars)
    <3>1. CASE todo[t] # <<>> /\ InRange(Head(todo[t]))
      <4>1. stage' = stage
        BY <2>3, <3>1 DEF check_range
      <4> QED
        BY <2>3, <3>1, <4>1 DEF check_range, RF!regFileVars
    <3>2. CASE todo[t] # <<>> /\ ~InRange(Head(todo[t]))
      <4>1. stage[t] = "busy" /\ stage' = [stage EXCEPT ![t] = "idle"]
        BY <2>3, <3>2 DEF check_range
      <4>2. RF!Refuse(t)
        BY <2>3, <3>2, <4>1 DEF check_range, RF!Refuse, RF!InRange, InRange
      <4> QED
        BY <4>2 DEF RF!RegFileNext
    <3>3. CASE todo[t] = <<>>
      <4>1. stage[t] = "busy" /\ stage' = [stage EXCEPT ![t] = "idle"]
        BY <2>3, <3>3 DEF check_range
      <4>2. res' = [res EXCEPT ![t] = "ok"]
        BY <2>3, <3>3 DEF check_range, Underway
      <4> QED
        BY <2>3, <3>3, <4>1, <4>2 DEF check_range, RF!Return, RF!RegFileNext
    <3> QED
        BY <3>1, <3>2, <3>3
  <2>4. ASSUME NEW t \in Tasks,
               mutex_lock(t) \/ iatu_map_inbound_bar(t) \/ iatu_map_outbound_bar(t)
        PROVE  UNCHANGED RF!regFileVars
    <3>1. stage' = stage
        BY <2>4 DEF mutex_lock, iatu_map_inbound_bar, iatu_map_outbound_bar
    <3> QED
        BY <2>4, <3>1
        DEF mutex_lock, iatu_map_inbound_bar, iatu_map_outbound_bar, RF!regFileVars
  <2>5. ASSUME NEW t \in Tasks, reg_access(t) PROVE RF!RegFileNext
    <3> DEFINE r == Head(todo[t])
    <3>1. /\ InRange(r) /\ Hit(offset(r)) /\ Translate(offset(r)) = r.reg_addr
        BY <2>5, AccessReaches DEF reg_access, Rest
    <3>2. stage[t] = "busy" /\ stage' = stage
        BY <2>5 DEF reg_access, Rest
    <3>3. todo[t] # <<>>
        BY <2>5 DEF Underway, Busy, reg_access, Rest
    <3>4. mem' = Store(mem, r.reg_addr, r)
          /\ got' = [got EXCEPT ![t] = Load(mem, r.reg_addr, r)]
        BY <2>5, <3>1 DEF reg_access, Rest
    <3>5. RF!Access(t)
        BY <2>5, <3>1, <3>2, <3>3, <3>4
        DEF reg_access, Rest, RF!Access, RF!InRange, InRange, RF!Store, Store, RF!Load, Load
    <3> QED
        BY <3>5 DEF RF!RegFileNext
  <2>6. ASSUME NEW t \in Tasks, mutex_unlock(t)
        PROVE  [RF!RegFileNext]_(RF!regFileVars)
    <3>1. CASE ioctl[t]
      <4>1. todo[t] = <<>>
        BY <2>6, <3>1 DEF mutex_unlock, OneRequest
      <4>2. stage[t] = "busy" /\ stage' = [stage EXCEPT ![t] = "idle"]
        BY <2>6, <3>1 DEF mutex_unlock
      <4>3. RF!Return(t)
        BY <2>6, <3>1, <4>1, <4>2 DEF mutex_unlock, RF!Return
      <4> QED
        BY <4>3 DEF RF!RegFileNext
    <3>2. CASE ~ioctl[t]
      <4>1. stage' = stage
        BY <2>6, <3>2 DEF mutex_unlock
      <4> QED
        BY <2>6, <3>2, <4>1 DEF mutex_unlock, RF!regFileVars
    <3> QED
        BY <3>1, <3>2
  <2>7. ASSUME rebind PROVE [RF!RegFileNext]_(RF!regFileVars)
    <3>1. stage' = stage
        BY <2>7 DEF rebind, taskVars
    <3>2. CASE UNCHANGED mem
        BY <2>7, <3>1, <3>2 DEF rebind, taskVars, RF!regFileVars
    <3>3. CASE mem' = [a \in Cells |-> 0]
      <4>1. \A t \in Tasks : stage[t] = "idle"
        BY <2>7 DEF rebind
      <4> QED
        BY <2>7, <3>1, <3>3, <4>1
        DEF rebind, taskVars, RF!Reset, RF!RegFileNext, RF!Cells, Cells
    <3> QED
        BY <2>7, <3>2, <3>3 DEF rebind
  <2>8. CASE UNCHANGED vars
    BY <2>8 DEF vars, taskVars, RF!regFileVars
  <2> QED
    BY <2>2, <2>3, <2>4, <2>5, <2>6, <2>7, <2>8 DEF Next, TaskStep
<1> QED
    BY <1>1, <1>2, Invariance, PTL DEF Spec, ImplementsRegFile, RF!RegFileSpec

=============================================================================
