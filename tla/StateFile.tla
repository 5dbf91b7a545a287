------------------------------ MODULE StateFile ------------------------------
(***************************************************************************)
(* The state file .state.<env>.yaml as FileStore keeps it: every Save and  *)
(* Load takes the file lock, a Save writes a temporary file of a fixed     *)
(* name beside the state file and renames it over it.  Processes die at    *)
(* any point; the operating system then releases their lock and leaves     *)
(* their temporary file behind.                                            *)
(***************************************************************************)
EXTENDS Naturals

CONSTANTS
  Proc,      \* commands running at the same time, each with a store of its own
  Value,     \* deployment states
  NoState,   \* the empty state, what Load returns when there is no file
  NoFile,    \* the file does not exist
  Partial,   \* a file of which only a part is written
  NoProc     \* nobody holds the lock

ASSUME DistinctAssumption ==
  /\ NoFile \notin Value /\ Partial \notin Value /\ NoFile # Partial
  /\ NoProc \notin Proc

VARIABLES
  file,     \* the state file
  tmp,      \* the temporary file
  holder,   \* who holds the lock on <path>.lock
  pc,       \* where each process is in Save or Load
  value,    \* the state it saves, or has loaded
  ok,       \* whether its call succeeded
  answer    \* the answer to its last call

vars == <<file, tmp, holder, pc, value, ok, answer>>

InSave == {"lock", "create", "write", "rename", "cleanup"}
InLoad == {"lockload", "read"}

Init ==
  /\ file = NoFile /\ tmp = NoFile
  /\ holder = NoProc
  /\ pc = [p \in Proc |-> "idle"]
  /\ value = [p \in Proc |-> NoState]
  /\ ok = [p \in Proc |-> FALSE]
  /\ answer = [p \in Proc |-> "none"]

Goto(p, label) == pc' = [pc EXCEPT ![p] = label]

Call(p, label, v) ==
  /\ pc[p] = "idle"
  /\ Goto(p, label)
  /\ value' = [value EXCEPT ![p] = v]
  /\ ok' = [ok EXCEPT ![p] = FALSE]
  /\ answer' = [answer EXCEPT ![p] = "none"]
  /\ UNCHANGED <<file, tmp, holder>>

\* Each command opens a store, and so a lock, of its own.
LockAnyway(p) ==
  /\ pc[p] \in {"lock", "lockload"}
  /\ holder' = p
  /\ Goto(p, IF pc[p] = "lock" THEN "create" ELSE "read")
  /\ UNCHANGED <<file, tmp, value, ok, answer>>

Lock(p) ==
  /\ pc[p] \in {"lock", "lockload"}
  /\ holder = NoProc
  /\ holder' = p
  /\ Goto(p, IF pc[p] = "lock" THEN "create" ELSE "read")
  /\ UNCHANGED <<file, tmp, value, ok, answer>>

\* The lock file cannot be opened: the call returns at once.
LockFails(p) ==
  /\ pc[p] \in {"lock", "lockload"}
  /\ Goto(p, "idle")
  /\ answer' = [answer EXCEPT ![p] = "error"]
  /\ UNCHANGED <<file, tmp, holder, value, ok>>

WritesInPlace(p) ==
  /\ pc[p] = "create"
  /\ \/ file' = Partial /\ tmp' = Partial /\ Goto(p, "write")
     \/ UNCHANGED <<file, tmp>> /\ Goto(p, "unlock")
  /\ UNCHANGED <<holder, value, ok, answer>>

\* WriteFile truncates whatever a process that died left behind, ...
CreateTmp(p) ==
  /\ pc[p] = "create"
  /\ \/ tmp' = Partial /\ Goto(p, "write")
     \/ UNCHANGED tmp /\ Goto(p, "unlock")
  /\ UNCHANGED <<file, holder, value, ok, answer>>

\* ... and writes; when that fails the temporary file stays as it is.
WriteTmp(p) ==
  /\ pc[p] = "write"
  /\ \/ tmp' = value[p] /\ Goto(p, "rename")
     \/ UNCHANGED tmp /\ Goto(p, "unlock")
  /\ UNCHANGED <<file, holder, value, ok, answer>>

Rename(p) ==
  /\ pc[p] = "rename"
  /\ \/ /\ file' = tmp /\ tmp' = NoFile
        /\ ok' = [ok EXCEPT ![p] = TRUE]
        /\ Goto(p, "unlock")
     \/ Goto(p, "cleanup") /\ UNCHANGED <<file, tmp, ok>>
  /\ UNCHANGED <<holder, value, answer>>

RemoveTmp(p) ==
  /\ pc[p] = "cleanup"
  /\ tmp' \in {NoFile, tmp}
  /\ Goto(p, "unlock")
  /\ UNCHANGED <<file, holder, value, ok, answer>>

\* Load: a file that is not there is the empty state, one that cannot be read
\* or parsed is an error.
Read(p) ==
  /\ pc[p] = "read"
  /\ Goto(p, "unlock")
  /\ \/ /\ file # Partial
        /\ value' = [value EXCEPT ![p] = IF file = NoFile THEN NoState ELSE file]
        /\ ok' = [ok EXCEPT ![p] = TRUE]
     \/ file # NoFile /\ UNCHANGED <<value, ok>>
  /\ UNCHANGED <<file, tmp, holder, answer>>

UnlockOnSuccess(p) ==
  /\ pc[p] = "unlock"
  /\ holder' = IF ok[p] THEN NoProc ELSE holder
  /\ Goto(p, "idle")
  /\ answer' = [answer EXCEPT ![p] = IF ok[p] THEN "ok" ELSE "error"]
  /\ UNCHANGED <<file, tmp, value, ok>>

\* The deferred Unlock, on every way out.
Unlock(p) ==
  /\ pc[p] = "unlock"
  /\ holder' = NoProc
  /\ Goto(p, "idle")
  /\ answer' = [answer EXCEPT ![p] = IF ok[p] THEN "ok" ELSE "error"]
  /\ UNCHANGED <<file, tmp, value, ok>>

Crash(p) ==
  /\ pc[p] # "idle"
  /\ Goto(p, "idle")
  /\ holder' = IF holder = p THEN NoProc ELSE holder
  /\ UNCHANGED <<file, tmp, value, ok, answer>>

Step(p) == \/ Lock(p) \/ LockFails(p)
           \/ CreateTmp(p) \/ WriteTmp(p) \/ Rename(p) \/ RemoveTmp(p)
           \/ Read(p) \/ Unlock(p)

Next == \E p \in Proc :
  \/ \E v \in Value : Call(p, "lock", v)
  \/ Call(p, "lockload", NoState)
  \/ Step(p)
  \/ Crash(p)

Spec == Init /\ [][Next]_vars

\* A process that got the lock goes on to the end of its call, or dies.
FairSpec == Spec /\ \A p \in Proc : WF_vars(holder = p /\ Step(p))
-----------------------------------------------------------------------------
\* The variables have their types; in particular the state file is never one
\* of which only a part is written.
TypeOK ==
  /\ file \in Value \cup {NoFile}
  /\ tmp \in Value \cup {NoFile, Partial}
  /\ holder \in Proc \cup {NoProc}
  /\ pc \in [Proc -> {"idle", "unlock"} \cup InSave \cup InLoad]
  /\ value \in [Proc -> Value \cup {NoState}]
  /\ ok \in [Proc -> BOOLEAN]
  /\ answer \in [Proc -> {"none", "ok", "error"}]

\* While a process works on the temporary file nobody else does: what it renames
\* is what it wrote, although the name of the file is the same for everyone.
RenamesItsOwn ==
  \A p \in Proc :
    /\ pc[p] \in {"create", "write", "rename", "cleanup"} => holder = p
    /\ pc[p] = "rename" => tmp = value[p]

\* The lock does not outlive the call it was taken for.
LockIsReleased == \A p \in Proc : holder = p ~> holder # p

\* The state file is an atomic register, whatever fails and whoever dies: a
\* call under way has taken effect once its process is to unlock with success.
CallOf(p) ==
  CASE pc[p] \in InSave            -> "save"
    [] pc[p] \in InLoad            -> "load"
    [] pc[p] = "unlock" /\ ok[p]   -> "done"
    [] pc[p] = "unlock" /\ ~ok[p]  -> "failed"
    [] pc[p] = "idle"              -> "none"

Register == INSTANCE StateRegister WITH
  reg    <- IF file = NoFile THEN NoState ELSE file,
  call   <- [p \in Proc |-> CallOf(p)]

IsARegister == Register!Spec
=============================================================================
