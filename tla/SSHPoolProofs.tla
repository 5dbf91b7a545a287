---------------------------- MODULE SSHPoolProofs ----------------------------
(***************************************************************************)
(* The pool loses no connection, for any number of callers and hosts.      *)
(***************************************************************************)
EXTENDS SSHPool, TLAPS

USE DEF Goto, Return, KeyOf, Range, pool, lock

LEMMA KeyIs == ASSUME TypeOK, NEW p \in Caller PROVE KeyOf(p) \in Key
BY DEF TypeOK, Key

LEMMA TypeInit == Init => TypeOK
BY NoneAssumption DEF Init, TypeOK

LEMMA TypeStep == TypeOK /\ [Next]_vars => TypeOK'
<1> SUFFICES ASSUME TypeOK, [Next]_vars PROVE TypeOK'
  OBVIOUS
<1> USE NoneAssumption
<1>1. ASSUME NEW p \in Caller, NEW i \in Info, Get(p, i)
      PROVE  TypeOK'
  BY <1>1 DEF Get, TypeOK
<1>2. ASSUME NEW p \in Caller, CloseAll(p) PROVE TypeOK'
  BY <1>2 DEF CloseAll, TypeOK
<1>3. ASSUME NEW p \in Caller, RLock(p) PROVE TypeOK'
  BY <1>3 DEF RLock, TypeOK
<1>4. ASSUME NEW p \in Caller, Look(p) PROVE TypeOK'
  BY <1>4, KeyIs DEF Look, TypeOK
<1>5. ASSUME NEW p \in Caller, AskForLock(p) PROVE TypeOK'
  BY <1>5 DEF AskForLock, TypeOK
<1>6. ASSUME NEW p \in Caller, Lock(p) PROVE TypeOK'
  BY <1>6 DEF Lock, TypeOK
<1>7. ASSUME NEW p \in Caller, Recheck(p) PROVE TypeOK'
  BY <1>7, KeyIs DEF Recheck, TypeOK
<1>8. ASSUME NEW p \in Caller, Dial(p) PROVE TypeOK'
  BY <1>8, KeyIs DEF Dial, TypeOK
<1>9. ASSUME NEW p \in Caller, Close(p) PROVE TypeOK'
  BY <1>9 DEF Close, TypeOK
<1>10. CASE UNCHANGED vars
  BY <1>10 DEF vars, TypeOK
<1> QED
  BY <1>1, <1>2, <1>3, <1>4, <1>5, <1>6, <1>7, <1>8, <1>9, <1>10 DEF Next, Step

\* The variables have their types; no reader is inside with a writer, and there
\* is at most one writer.
THEOREM TypeCorrect == Spec => []TypeOK
BY TypeInit, TypeStep, PTL DEF Spec

-----------------------------------------------------------------------------
\* Between the recheck and the dial nobody else fills the place in the pool.
PlaceIsFree ==
  \A p \in Caller : pc[p] = "dial" => clients[KeyOf(p)] = None

\* What a caller got is in the pool under its key, or it was closed.
GotIsPooled ==
  \A p \in Caller :
    got[p] \in open => clients[dialled[got[p]]] = got[p] /\ dialled[got[p]] = KeyOf(p)

IInv == TypeOK /\ PlaceIsFree /\ NothingLeaks /\ GotIsPooled

\* A step of one caller that leaves the pool alone keeps the invariant if what
\* the caller knows of the pool is still so.
LEMMA PoolUnchanged ==
  ASSUME IInv, TypeOK', UNCHANGED pool, NEW p \in Caller,
         \A q \in Caller : q # p =>
           pc'[q] = pc[q] /\ info'[q] = info[q] /\ got'[q] = got[q],
         pc'[p] = "dial" => clients[keyOf[info'[p]]] = None,
         got'[p] \in open => clients[keyOf[info'[p]]] = got'[p]
  PROVE  IInv'
<1>1. PlaceIsFree'
  BY DEF IInv, PlaceIsFree
<1>2. NothingLeaks'
  BY DEF IInv, NothingLeaks
<1>3. ASSUME NEW q \in Caller, got'[q] \in open
      PROVE  clients[dialled[got'[q]]] = got'[q] /\ dialled[got'[q]] = keyOf[info'[q]]
  <2>1. CASE q = p
    <3>1. keyOf[info'[p]] \in Key /\ got'[p] # None
      BY <1>3, <2>1, NoneAssumption DEF TypeOK, IInv, Key
    <3> QED
      BY <1>3, <2>1, <3>1 DEF IInv, NothingLeaks
  <2>2. CASE q # p
    BY <1>3, <2>2 DEF IInv, GotIsPooled
  <2> QED
    BY <2>1, <2>2
<1> QED
  BY <1>1, <1>2, <1>3 DEF IInv, GotIsPooled

LEMMA InvStep == IInv /\ [Next]_vars => IInv'
<1> SUFFICES ASSUME IInv, [Next]_vars PROVE IInv'
  OBVIOUS
<1> USE NoneAssumption
<1>t. TypeOK /\ TypeOK'
  BY TypeStep DEF IInv
<1>1. ASSUME NEW p \in Caller, NEW i \in Info, Get(p, i)
      PROVE  IInv'
  <2>1. /\ pc'[p] = "rlock" /\ got'[p] = None
        /\ \A q \in Caller : q # p =>
             pc'[q] = pc[q] /\ info'[q] = info[q] /\ got'[q] = got[q]
    BY <1>1, <1>t DEF Get, TypeOK
  <2>2. got'[p] \notin open
    BY <1>t, <2>1 DEF TypeOK
  <2> QED
    BY <1>1, <1>t, <2>1, <2>2, PoolUnchanged DEF Get
<1>2. ASSUME NEW p \in Caller, CloseAll(p)
      PROVE  IInv'
  <2>1. /\ pc'[p] = "lockall" /\ got'[p] = None
        /\ \A q \in Caller : q # p =>
             pc'[q] = pc[q] /\ info'[q] = info[q] /\ got'[q] = got[q]
    BY <1>2, <1>t DEF CloseAll, TypeOK
  <2>2. got'[p] \notin open
    BY <1>t, <2>1 DEF TypeOK
  <2> QED
    BY <1>2, <1>t, <2>1, <2>2, PoolUnchanged DEF CloseAll
<1>3. ASSUME NEW p \in Caller,
             UNCHANGED pool, UNCHANGED info,
             \A q \in Caller : q # p => pc'[q] = pc[q] /\ got'[q] = got[q],
             pc'[p] = "dial" => clients[KeyOf(p)] = None,
             got'[p] \in {got[p], clients[KeyOf(p)], None}
      PROVE  IInv'
  <2>1. got'[p] \in open => clients[KeyOf(p)] = got'[p]
    BY <1>3, <1>t DEF IInv, GotIsPooled, TypeOK
  <2> QED
    BY <1>3, <1>t, <2>1, PoolUnchanged
<1>4. ASSUME NEW p \in Caller, RLock(p) \/ AskForLock(p) \/ Lock(p)
      PROVE  IInv'
  <2>1. /\ UNCHANGED pool /\ UNCHANGED <<info, got>>
        /\ pc'[p] # "dial"
        /\ \A q \in Caller : q # p => pc'[q] = pc[q]
    BY <1>4, <1>t DEF RLock, AskForLock, Lock, TypeOK
  <2> QED
    BY <1>3, <2>1
<1>5. ASSUME NEW p \in Caller, Look(p) \/ Recheck(p)
      PROVE  IInv'
  <2>1. /\ UNCHANGED pool /\ UNCHANGED info
        /\ pc'[p] = "dial" => clients[KeyOf(p)] = None
        /\ got'[p] \in {got[p], clients[KeyOf(p)]}
        /\ \A q \in Caller : q # p => pc'[q] = pc[q] /\ got'[q] = got[q]
    BY <1>5, <1>t DEF Look, Recheck, TypeOK
  <2> QED
    BY <1>3, <2>1
<1>6. ASSUME NEW p \in Caller, Dial(p), got'[p] = None, UNCHANGED pool
      PROVE  IInv'
  <2>1. /\ UNCHANGED info /\ pc'[p] # "dial"
        /\ \A q \in Caller : q # p => pc'[q] = pc[q] /\ got'[q] = got[q]
    BY <1>6, <1>t DEF Dial, TypeOK
  <2> QED
    BY <1>3, <1>6, <2>1
<1>7. ASSUME NEW p \in Caller, NEW c \in Client \ (open \cup Range(got)),
             pc[p] = "dial",
             open' = open \cup {c},
             dialled' = [dialled EXCEPT ![c] = KeyOf(p)],
             clients' = [clients EXCEPT ![KeyOf(p)] = c],
             Return(p, c), UNCHANGED info
      PROVE  IInv'
  <2>1. KeyOf(p) \in Key /\ clients[KeyOf(p)] = None
    BY <1>7, <1>t, KeyIs DEF IInv, PlaceIsFree
  <2>2. PlaceIsFree'
    <3>1. \A q \in Caller : q # p => pc[q] # "dial"
      BY <1>7, <1>t DEF TypeOK
    <3> QED
      BY <1>7, <1>t, <3>1 DEF PlaceIsFree, TypeOK
  <2>3. \A k \in Key : clients[k] # c
    BY <1>7, <1>t DEF IInv, NothingLeaks, TypeOK
  <2>4. NothingLeaks'
    BY <1>7, <1>t, <2>1, <2>3 DEF IInv, NothingLeaks, TypeOK
  <2>5. \A q \in Caller : got[q] # c
    BY <1>7, <1>t DEF TypeOK
  <2>6. ASSUME NEW q \in Caller, got'[q] \in open'
        PROVE  /\ clients'[dialled'[got'[q]]] = got'[q]
               /\ dialled'[got'[q]] = keyOf[info'[q]]
    <3>1. CASE q = p
      BY <1>7, <1>t, <2>1, <3>1 DEF TypeOK
    <3>2. CASE q # p
      <4>1. got'[q] = got[q] /\ got[q] \in open /\ got[q] # c /\ got[q] # None
        BY <1>7, <1>t, <2>5, <2>6, <3>2 DEF TypeOK
      <4>2. clients[dialled[got[q]]] = got[q] /\ dialled[got[q]] = KeyOf(q)
        BY <4>1 DEF IInv, GotIsPooled
      <4>3. KeyOf(q) # KeyOf(p) /\ KeyOf(q) \in Key
        BY <1>t, <2>1, <4>1, <4>2, KeyIs
      <4> QED
        BY <1>7, <1>t, <2>1, <4>1, <4>2, <4>3 DEF TypeOK
    <3> QED
      BY <3>1, <3>2
  <2> QED
    BY <1>t, <2>2, <2>4, <2>6 DEF IInv, GotIsPooled
<1>8. ASSUME NEW p \in Caller, Close(p)
      PROVE  IInv'
  <2>1. open' = {} /\ clients' = [k \in Key |-> None]
    BY <1>8, <1>t DEF Close, IInv, NothingLeaks, TypeOK
  <2>2. PlaceIsFree'
    <3> SUFFICES ASSUME NEW q \in Caller PROVE keyOf[info'[q]] \in Key
      BY <2>1 DEF PlaceIsFree
    <3> QED
      BY <1>t DEF TypeOK, Key
  <2>3. NothingLeaks'
    BY <2>1 DEF NothingLeaks
  <2> QED
    BY <1>t, <2>1, <2>2, <2>3 DEF IInv, GotIsPooled
<1>9. CASE UNCHANGED vars
  BY <1>9, <1>t DEF vars, IInv, PlaceIsFree, NothingLeaks, GotIsPooled
<1>10. ASSUME NEW p \in Caller, Dial(p)
       PROVE  IInv'
  <2>1. CASE Return(p, None) /\ UNCHANGED pool
    BY <1>6, <1>10, <1>t, <2>1 DEF TypeOK
  <2> QED
    BY <1>7, <1>10, <2>1 DEF Dial
<1> QED
  BY <1>1, <1>2, <1>4, <1>5, <1>8, <1>9, <1>10 DEF Next, Step

LEMMA InvInit == Init => IInv
BY TypeInit, NoneAssumption
DEF Init, IInv, PlaceIsFree, NothingLeaks, GotIsPooled, Key

\* The open connections are those of the pool: CloseAll closes every one.
THEOREM PoolKeepsAll == Spec => []NothingLeaks
<1>1. IInv => NothingLeaks
  BY DEF IInv
<1> QED
  BY <1>1, InvInit, InvStep, PTL DEF Spec

\* Whoever asks for one host as one user holds one connection, the same for all.
THEOREM OnePerHost == Spec => []OneConnectionPerHost
<1>1. IInv => OneConnectionPerHost
  BY DEF IInv, GotIsPooled, OneConnectionPerHost
<1> QED
  BY <1>1, InvInit, InvStep, PTL DEF Spec
=============================================================================
