--------------------------- MODULE StateFileProofs ---------------------------
(***************************************************************************)
(* The state file is an atomic register for every number of processes and  *)
(* every set of states.                                                    *)
(***************************************************************************)
EXTENDS StateFile, TLAPS

\* What the lock protects.  Beyond RenamesItsOwn: the lock is held until the
\* deferred unlock, a save carries a state, and success is noted only once
\* there is nothing left to do but unlock.
LockInv ==
  \A p \in Proc :
    /\ pc[p] \in {"create", "write", "rename", "cleanup", "read", "unlock"} =>
         holder = p
    /\ pc[p] = "rename" => tmp = value[p]
    /\ pc[p] \in InSave => value[p] \in Value
    /\ pc[p] \in InLoad => value[p] = NoState
    /\ pc[p] \in InSave \cup InLoad => ~ok[p]

IInv == TypeOK /\ LockInv

USE DEF Goto, InSave, InLoad

LEMMA InitInv == Init => IInv
BY DistinctAssumption DEF Init, IInv, TypeOK, LockInv

LEMMA CallInv ==
  ASSUME IInv, NEW p \in Proc,
         NEW label \in {"lock", "lockload"}, NEW v \in Value \cup {NoState},
         label = "lock" => v \in Value, label = "lockload" => v = NoState,
         Call(p, label, v)
  PROVE  IInv'
BY DEF Call, IInv, TypeOK, LockInv

LEMMA StepInv ==
  ASSUME IInv, NEW p \in Proc, Step(p)
  PROVE  IInv'
<1>1. CASE Lock(p)
  BY <1>1, DistinctAssumption DEF Lock, IInv, TypeOK, LockInv
<1>2. CASE LockFails(p)
  BY <1>2 DEF LockFails, IInv, TypeOK, LockInv
<1>3. CASE CreateTmp(p)
  BY <1>3 DEF CreateTmp, IInv, TypeOK, LockInv
<1>4. CASE WriteTmp(p)
  BY <1>4 DEF WriteTmp, IInv, TypeOK, LockInv
<1>5. CASE Rename(p)
  <2>1. value[p] \in Value /\ tmp = value[p] /\ holder = p /\ ~ok[p]
    BY <1>5 DEF Rename, IInv, LockInv
  <2>2. TypeOK'
    BY <1>5, <2>1 DEF Rename, IInv, TypeOK
  <2>3. ASSUME NEW q \in Proc, q # p
        PROVE  pc'[q] = pc[q] /\ ok'[q] = ok[q] /\ pc[q] # "rename"
    BY <1>5, <2>1, <2>3 DEF Rename, IInv, TypeOK, LockInv
  <2>4. pc'[p] \in {"unlock", "cleanup"} /\ UNCHANGED <<holder, value>>
        /\ (pc'[p] = "cleanup" => ok' = ok)
    BY <1>5 DEF Rename, IInv, TypeOK
  <2>5. LockInv'
    BY <2>1, <2>3, <2>4 DEF IInv, LockInv
  <2> QED
    BY <2>2, <2>5 DEF IInv
<1>6. CASE RemoveTmp(p)
  BY <1>6 DEF RemoveTmp, IInv, TypeOK, LockInv
<1>7. CASE Read(p)
  BY <1>7 DEF Read, IInv, TypeOK, LockInv
<1>8. CASE Unlock(p)
  BY <1>8, DistinctAssumption DEF Unlock, IInv, TypeOK, LockInv
<1> QED
  BY <1>1, <1>2, <1>3, <1>4, <1>5, <1>6, <1>7, <1>8 DEF Step

LEMMA CrashInv ==
  ASSUME IInv, NEW p \in Proc, Crash(p)
  PROVE  IInv'
BY DistinctAssumption DEF Crash, IInv, TypeOK, LockInv

LEMMA NextInv == IInv /\ [Next]_vars => IInv'
<1> SUFFICES ASSUME IInv, [Next]_vars PROVE IInv'
  OBVIOUS
<1>1. CASE UNCHANGED vars
  BY <1>1 DEF vars, IInv, TypeOK, LockInv
<1>2. ASSUME NEW p \in Proc, NEW v \in Value, Call(p, "lock", v)
      PROVE  IInv'
  BY <1>2, CallInv
<1>3. ASSUME NEW p \in Proc, Call(p, "lockload", NoState)
      PROVE  IInv'
  BY <1>3, CallInv
<1> QED
  BY <1>1, <1>2, <1>3, StepInv, CrashInv DEF Next

\* The state file always holds a whole state or does not exist, and the other
\* variables have their types.
THEOREM TypeCorrect == Spec => []TypeOK
<1>1. IInv => TypeOK
  BY DEF IInv
<1> QED
  BY <1>1, InitInv, NextInv, PTL DEF Spec

\* A save puts in place exactly the state it was called with, although all
\* saves write through one temporary file.
THEOREM SavesItsOwn == Spec => []RenamesItsOwn
<1>1. IInv => RenamesItsOwn
  BY DEF IInv, LockInv, RenamesItsOwn
<1> QED
  BY <1>1, InitInv, NextInv, PTL DEF Spec

-----------------------------------------------------------------------------
(* Refinement. *)

registerVars == <<IF file = NoFile THEN NoState ELSE file,
                  [p \in Proc |-> CallOf(p)], value, answer>>

LEMMA StepRefines ==
  ASSUME IInv, NEW p \in Proc, Step(p) \/ Crash(p)
  PROVE  [Register!Next]_registerVars
<1> DEFINE reg == IF file = NoFile THEN NoState ELSE file
           call == [q \in Proc |-> CallOf(q)]
           Becomes(c) == call' = [call EXCEPT ![p] = c]
<1> USE DEF registerVars
<1>1. CASE Lock(p)
  <2> call' = call
    BY <1>1 DEF Lock, CallOf, IInv, TypeOK
  <2> QED
    BY <1>1 DEF Lock
<1>2. CASE LockFails(p)
  <2>1. Becomes("none") /\ call[p] \in {"save", "load"}
    BY <1>2 DEF LockFails, CallOf, IInv, TypeOK
  <2>2. Register!Answer(p)
    BY <1>2, <2>1 DEF LockFails, Register!Answer
  <2> QED
    BY <2>2 DEF Register!Next
<1>3. CASE CreateTmp(p) \/ WriteTmp(p) \/ RemoveTmp(p)
  <2>1. UNCHANGED <<reg, value, answer>>
    BY <1>3 DEF CreateTmp, WriteTmp, RemoveTmp
  <2>2. \/ call' = call
        \/ Becomes("failed") /\ call[p] = "save"
    <3>1. /\ pc[p] \in {"create", "write", "cleanup"} /\ ~ok[p] /\ ok' = ok
          /\ \/ pc' = [pc EXCEPT ![p] = "write"] /\ pc[p] = "create"
             \/ pc' = [pc EXCEPT ![p] = "rename"] /\ pc[p] = "write"
             \/ pc' = [pc EXCEPT ![p] = "unlock"]
      BY <1>3 DEF CreateTmp, WriteTmp, RemoveTmp, IInv, LockInv
    <3>2. CASE pc' = [pc EXCEPT ![p] = "unlock"]
      BY <3>1, <3>2 DEF CallOf, IInv, TypeOK
    <3>3. CASE pc' # [pc EXCEPT ![p] = "unlock"]
      BY <3>1, <3>3 DEF CallOf, IInv, TypeOK
    <3> QED
      BY <3>2, <3>3
  <2>3. Becomes("failed") /\ call[p] = "save" => Register!GiveUp(p)
    BY <2>1 DEF Register!GiveUp
  <2> QED
    BY <2>1, <2>2, <2>3 DEF Register!Next
<1>4. CASE Rename(p)
  <2>1. CASE ok' = [ok EXCEPT ![p] = TRUE] /\ pc'[p] = "unlock"
    <3>1. Becomes("done") /\ call[p] = "save"
      BY <1>4, <2>1 DEF Rename, CallOf, IInv, TypeOK
    <3>2. reg' = value[p] /\ UNCHANGED <<value, answer>>
      BY <1>4, <2>1, DistinctAssumption DEF Rename, IInv, TypeOK, LockInv
    <3> QED
      BY <3>1, <3>2 DEF Register!TakeEffect, Register!Next
  <2>2. CASE UNCHANGED <<file, ok>>
    <3> call' = call
      BY <1>4, <2>2 DEF Rename, CallOf, IInv, TypeOK, LockInv
    <3> QED
      BY <1>4, <2>2 DEF Rename
  <2> QED
    BY <1>4, <2>1, <2>2 DEF Rename, IInv, TypeOK
<1>5. CASE Read(p)
  <2>1. CASE UNCHANGED <<value, ok>>
    <3>1. Becomes("failed") /\ call[p] = "load"
      BY <1>5, <2>1 DEF Read, CallOf, IInv, TypeOK, LockInv
    <3> QED
      BY <1>5, <2>1, <3>1 DEF Read, Register!GiveUp, Register!Next
  <2>2. CASE /\ value' = [value EXCEPT ![p] = reg]
             /\ ok' = [ok EXCEPT ![p] = TRUE]
    <3>1. Becomes("done") /\ call[p] = "load"
      BY <1>5, <2>2 DEF Read, CallOf, IInv, TypeOK, LockInv
    <3> QED
      BY <1>5, <2>2, <3>1 DEF Read, Register!Observe, Register!Next
  <2> QED
    BY <1>5, <2>1, <2>2 DEF Read
<1>6. CASE Unlock(p)
  <2>1. Becomes("none") /\ call[p] = IF ok[p] THEN "done" ELSE "failed"
    BY <1>6 DEF Unlock, CallOf, IInv, TypeOK
  <2> QED
    BY <1>6, <2>1 DEF Unlock, Register!Answer, Register!Next
<1>7. CASE Crash(p)
  <2>1. Becomes("none") /\ call[p] # "none"
    BY <1>7 DEF Crash, CallOf, IInv, TypeOK
  <2> QED
    BY <1>7, <2>1 DEF Crash, Register!Die, Register!Next
<1> QED
  BY <1>1, <1>2, <1>3, <1>4, <1>5, <1>6, <1>7 DEF Step

\* The state file is an atomic register.
THEOREM FileIsRegister == Spec => IsARegister
<1>1. Init => Register!Init
  BY DEF Init, Register!Init, CallOf
<1>2. IInv /\ [Next]_vars => [Register!Next]_registerVars
  <2> SUFFICES ASSUME IInv, [Next]_vars PROVE [Register!Next]_registerVars
    OBVIOUS
  <2>1. CASE UNCHANGED vars
    BY <2>1 DEF vars, registerVars, CallOf
  <2>2. ASSUME NEW p \in Proc, NEW op \in {"lock", "lockload"}, NEW v,
               Call(p, op, v)
        PROVE  Register!Invoke(p, IF op = "lock" THEN "save" ELSE "load", v)
    BY <2>2 DEF Call, Register!Invoke, CallOf, IInv, TypeOK
  <2> QED
    BY <2>1, <2>2, StepRefines DEF Next, Register!Next
<1> QED
  BY <1>1, <1>2, InitInv, NextInv, PTL
  DEF Spec, IsARegister, Register!Spec, registerVars
=============================================================================
