------------------------------- MODULE RegFile -------------------------------
(***************************************************************************)
(* What the driver promises for register accesses: a register file.  A     *)
(* task hands in a list of requests; each is carried out at once, at its   *)
(* own address, in the order of the list, up to the first that is out of   *)
(* range.  Nothing is promised about the order of different tasks.         *)
(***************************************************************************)
EXTENDS RegOps

CONSTANTS
    Tasks,
    Jobs        \* the lists of requests that tasks hand in

VARIABLES
    mem,    \* the registers
    stage,  \* "idle" or "busy", for each task
    todo,   \* the requests that are left
    got,    \* reg_data of the last request
    res     \* the result of the last list

regFileVars == <<mem, stage, todo, got, res>>

RegFileInit ==
    /\ mem = [a \in Cells |-> 0]
    /\ stage = [t \in Tasks |-> "idle"]
    /\ todo = [t \in Tasks |-> <<>>]
    /\ got = [t \in Tasks |-> 0]
    /\ res = [t \in Tasks |-> "ok"]

Call(t) ==
    /\ stage[t] = "idle"
    /\ stage' = [stage EXCEPT ![t] = "busy"]
    /\ \E j \in Jobs : todo' = [todo EXCEPT ![t] = j]
    /\ res' = [res EXCEPT ![t] = "ok"]
    /\ UNCHANGED <<mem, got>>

Access(t) ==
    /\ stage[t] = "busy" /\ todo[t] # <<>>
    /\ LET r == Head(todo[t]) IN
        /\ InRange(r)
        /\ mem' = Store(mem, r.reg_addr, r)
        /\ got' = [got EXCEPT ![t] = Load(mem, r.reg_addr, r)]
    /\ todo' = [todo EXCEPT ![t] = Tail(@)]
    /\ UNCHANGED <<stage, res>>

Refuse(t) ==
    /\ stage[t] = "busy" /\ todo[t] # <<>>
    /\ ~InRange(Head(todo[t]))
    /\ stage' = [stage EXCEPT ![t] = "idle"]
    /\ todo' = [todo EXCEPT ![t] = <<>>]
    /\ res' = [res EXCEPT ![t] = "refused"]
    /\ UNCHANGED <<mem, got>>

\* The result may not reach the task; what was done stays done.
Return(t) ==
    /\ stage[t] = "busy" /\ todo[t] = <<>>
    /\ stage' = [stage EXCEPT ![t] = "idle"]
    /\ \E r \in {"ok", "fault"} : res' = [res EXCEPT ![t] = r]
    /\ UNCHANGED <<mem, todo, got>>

\* A reset of the device, with no access under way.
Reset ==
    /\ \A t \in Tasks : stage[t] = "idle"
    /\ mem' = [a \in Cells |-> 0]
    /\ UNCHANGED <<stage, todo, got, res>>

RegFileNext ==
    \/ \E t \in Tasks : Call(t) \/ Access(t) \/ Refuse(t) \/ Return(t)
    \/ Reset

RegFileSpec == RegFileInit /\ [][RegFileNext]_regFileVars

=============================================================================
