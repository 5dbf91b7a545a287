------------------------------- MODULE SSHPool -------------------------------
(***************************************************************************)
(* The pool of SSH connections that the changes of a run share: Get looks  *)
(* under the read lock, and if the connection is not there looks again     *)
(* under the write lock and dials.  CloseAll empties the pool.             *)
(***************************************************************************)
EXTENDS FiniteSets, Functions

CONSTANTS
  Caller,    \* goroutines using the pool
  Info,      \* server entries
  keyOf,     \* keyOf[info]: its host, port and user
  Client,    \* connections
  None       \* no connection, nobody

Key == {keyOf[i] : i \in Info}

ASSUME NoneAssumption == None \notin Client /\ None \notin Caller

VARIABLES
  clients,   \* the pool: a connection for some of the keys
  open,      \* the connections that are open
  dialled,   \* dialled[c]: the key connection c was dialled for
  readers,   \* the callers inside the read lock
  waiting,   \* the callers waiting for the write lock; they hold back readers
  writer,    \* the caller inside the write lock
  pc, info,  \* where a caller is, and the server it asks for
  got        \* what its last Get returned

vars == <<clients, open, dialled, readers, waiting, writer, pc, info, got>>
pool == <<clients, open, dialled>>
lock == <<readers, waiting, writer>>

Init ==
  /\ clients = [k \in Key |-> None]
  /\ open = {}
  /\ dialled = [c \in Client |-> None]
  /\ readers = {} /\ waiting = {} /\ writer = None
  /\ pc = [p \in Caller |-> "idle"]
  /\ info \in [Caller -> Info]
  /\ got = [p \in Caller |-> None]

Goto(p, label) == pc' = [pc EXCEPT ![p] = label]
Return(p, c) == Goto(p, "idle") /\ got' = [got EXCEPT ![p] = c]
KeyOf(p) == keyOf[info[p]]

Get(p, i) ==
  /\ pc[p] = "idle"
  /\ info' = [info EXCEPT ![p] = i]
  /\ got' = [got EXCEPT ![p] = None]
  /\ Goto(p, "rlock")
  /\ UNCHANGED <<pool, lock>>

RLock(p) ==
  /\ pc[p] = "rlock"
  /\ writer = None /\ waiting = {}
  /\ readers' = readers \cup {p}
  /\ Goto(p, "look")
  /\ UNCHANGED <<pool, waiting, writer, info, got>>

LookKeepsLock(p) ==
  /\ pc[p] = "look"
  /\ IF clients[KeyOf(p)] # None
       THEN Return(p, clients[KeyOf(p)]) /\ UNCHANGED readers
       ELSE Goto(p, "lock") /\ UNCHANGED got /\ readers' = readers \ {p}
  /\ UNCHANGED <<pool, waiting, writer, info>>

\* The look under the read lock, and the RUnlock on both of its ways out.
Look(p) ==
  /\ pc[p] = "look"
  /\ readers' = readers \ {p}
  /\ IF clients[KeyOf(p)] # None
       THEN Return(p, clients[KeyOf(p)])
       ELSE Goto(p, "lock") /\ UNCHANGED got
  /\ UNCHANGED <<pool, waiting, writer, info>>

\* CloseAll, up to its Lock.
CloseAll(p) ==
  /\ pc[p] = "idle"
  /\ Goto(p, "lockall")
  /\ got' = [got EXCEPT ![p] = None]
  /\ UNCHANGED <<pool, lock, info>>

AskForLock(p) ==
  /\ pc[p] \in {"lock", "lockall"} /\ p \notin waiting
  /\ waiting' = waiting \cup {p}
  /\ UNCHANGED <<pool, readers, writer, pc, info, got>>

LockPastReaders(p) ==
  /\ p \in waiting
  /\ writer = None
  /\ writer' = p
  /\ waiting' = waiting \ {p}
  /\ Goto(p, IF pc[p] = "lock" THEN "recheck" ELSE "close")
  /\ UNCHANGED <<pool, readers, info, got>>

Lock(p) ==
  /\ p \in waiting
  /\ writer = None /\ readers = {}
  /\ writer' = p
  /\ waiting' = waiting \ {p}
  /\ Goto(p, IF pc[p] = "lock" THEN "recheck" ELSE "close")
  /\ UNCHANGED <<pool, readers, info, got>>

NoRecheck(p) ==
  /\ pc[p] = "recheck"
  /\ Goto(p, "dial")
  /\ UNCHANGED <<pool, lock, info, got>>

\* Somebody else may have dialled between the read lock and the write lock.
Recheck(p) ==
  /\ pc[p] = "recheck"
  /\ IF clients[KeyOf(p)] # None
       THEN Return(p, clients[KeyOf(p)]) /\ writer' = None
       ELSE Goto(p, "dial") /\ UNCHANGED <<writer, got>>
  /\ UNCHANGED <<pool, readers, waiting, info>>

\* A connection nobody knows of yet, or an error; with the lock still held.
Dial(p) ==
  /\ pc[p] = "dial"
  /\ \/ \E c \in Client \ (open \cup Range(got)) :
          /\ open' = open \cup {c}
          /\ dialled' = [dialled EXCEPT ![c] = KeyOf(p)]
          /\ clients' = [clients EXCEPT ![KeyOf(p)] = c]
          /\ Return(p, c)
     \/ Return(p, None) /\ UNCHANGED pool
  /\ writer' = None
  /\ UNCHANGED <<readers, waiting, info>>

KeepsPool(p) ==
  /\ pc[p] = "close"
  /\ open' = open \ Range(clients)
  /\ writer' = None
  /\ Goto(p, "idle")
  /\ UNCHANGED <<clients, dialled, readers, waiting, info, got>>

Close(p) ==
  /\ pc[p] = "close"
  /\ open' = open \ Range(clients)
  /\ clients' = [k \in Key |-> None]
  /\ writer' = None
  /\ Goto(p, "idle")
  /\ UNCHANGED <<dialled, readers, waiting, info, got>>

Step(p) == \/ RLock(p) \/ Look(p) \/ AskForLock(p) \/ Lock(p)
           \/ Recheck(p) \/ Dial(p) \/ Close(p)

Next == \E p \in Caller : (\E i \in Info : Get(p, i)) \/ CloseAll(p) \/ Step(p)

Spec == Init /\ [][Next]_vars

\* sync.RWMutex starves neither readers nor writers.  Nothing is assumed of a
\* dial: the client's timeout ends with the TCP connection, the handshake after
\* it may take for ever.
Local(p) == \/ RLock(p) \/ Look(p) \/ AskForLock(p) \/ Lock(p)
            \/ Recheck(p) \/ Close(p)
FairSpec == Spec /\ \A p \in Caller : SF_vars(Local(p))
-----------------------------------------------------------------------------
\* The variables have their types, and the lock is held by who is inside.
TypeOK ==
  /\ clients \in [Key -> Client \cup {None}]
  /\ open \subseteq Client
  /\ dialled \in [Client -> Key \cup {None}]
  /\ pc \in [Caller -> {"idle", "rlock", "look", "lock", "lockall", "recheck",
                        "dial", "close"}]
  /\ info \in [Caller -> Info]
  /\ got \in [Caller -> Client \cup {None}]
  /\ readers = {p \in Caller : pc[p] = "look"}
  /\ waiting \subseteq {p \in Caller : pc[p] \in {"lock", "lockall"}}
  /\ \A p \in Caller : pc[p] \in {"recheck", "dial", "close"} <=> writer = p
  /\ writer # None => readers = {}

\* No connection is lost: the open ones are exactly those of the pool, each
\* under the key it was dialled for, so CloseAll closes everything.
NothingLeaks ==
  /\ open = Range(clients) \ {None}
  /\ \A k \in Key : clients[k] # None => dialled[clients[k]] = k

\* Two callers that hold open connections to the same host as the same user
\* hold the same one, and it leads where they asked.
OneConnectionPerHost ==
  \A p, q \in Caller :
    /\ got[p] \in open => dialled[got[p]] = KeyOf(p)
    /\ (got[p] \in open /\ got[q] \in open /\ KeyOf(p) = KeyOf(q)) =>
         got[p] = got[q]

\* Every Get and every CloseAll returns, unless some dial hangs for ever: that
\* one holds the lock, and everybody waits for it.
CallsReturn ==
  (\A p \in Caller : []<>(pc[p] # "dial")) =>
    \A p \in Caller : pc[p] # "idle" ~> pc[p] = "idle"
=============================================================================
