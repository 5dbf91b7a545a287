--------------------------- MODULE HostSetupProofs ---------------------------
(***************************************************************************)
(* What any number of runs on any number of servers keeps: the package      *)
(* sources are lost only where a backup was overwritten, a half-written     *)
(* file is put back, networks are there or reported, and what was synced    *)
(* without a failure is what a check sees.                                  *)
(***************************************************************************)
EXTENDS HostSetup, TLAPS

Replacing == {"upload", "rollback", "update"}

\* The variables the two properties are about.
Typed ==
  /\ sources \in [Server -> Sources] /\ backups \in [Server -> Seq(Sources)]
  /\ at \in [Process -> Server \cup {None}] /\ pc \in [Process -> Steps]
  /\ original \in [Server -> Sources \ {"partial"}] /\ todo \in [Process -> SUBSET Server]
  /\ failures \in Nat /\ overwritten \subseteq Server

\* A run that replaces the sources of a server has made a backup there, with sudo,
\* since the administrator last edited them, which is there unless it was
\* overwritten.
BackedUp ==
  \A p \in Process : pc[p] \in Replacing =>
    /\ at[p] \in Server
    /\ apt[at[p]] \in Template /\ "sudo" \in tools[at[p]]
    /\ at[p] \notin overwritten =>
         \E i \in DOMAIN backups[at[p]] : backups[at[p]][i] = original[at[p]]

\* Half-written sources are still to be rolled back, or were in vain.
HalfWritten ==
  \A v \in Server \ overwritten : sources[v] = "partial" =>
    /\ failures >= 1
    /\ \/ Len(backups[v]) >= 2 \/ failures >= 2
       \/ \E p \in Process : at[p] = v /\ pc[p] = "rollback"

IInv == Typed /\ BackedUp /\ OriginalKept /\ HalfWritten

USE DEF Goto, At, Replacing

LEMMA Initially == Init => IInv
<1> SUFFICES ASSUME Init PROVE IInv
  OBVIOUS
<1> USE ConfigurationAssumption
<1>1. Typed
  BY DEF Init, Typed, Sources, Steps
<1>2. BackedUp /\ OriginalKept
  BY DEF Init, BackedUp, OriginalKept
<1>3. HalfWritten
  BY DEF Init, HalfWritten
<1> QED
  BY <1>1, <1>2, <1>3 DEF IInv

\* A command that is sent counts a failure or none.
LEMMA Counts ==
  ASSUME failures \in Nat, NEW v, NEW needs, NEW o, Answers(v, needs, o)
  PROVE  failures' \in Nat /\ failures' >= failures
BY DEF Answers, AnswersAfter

\* The same, after commands that failed unnoticed.
LEMMA CountsAfter ==
  ASSUME failures \in Nat, NEW lost \in {0, 1}, NEW v, NEW needs, NEW o,
         AnswersAfter(lost, v, needs, o)
  PROVE  failures' \in Nat /\ failures' >= failures
BY DEF AnswersAfter

\* Steps that leave the sources and their backups alone, and begin or end no
\* replacement but by ending an update.
LEMMA Elsewhere ==
  ASSUME IInv, UNCHANGED <<sources, backups, original, overwritten>>,
         failures' \in Nat, failures' >= failures, todo' \in [Process -> SUBSET Server],
         at' \in [Process -> Server \cup {None}], pc' \in [Process -> Steps],
         \A p \in Process :
           \/ at'[p] = at[p] /\ pc'[p] = pc[p]
           \/ pc'[p] \notin Replacing /\ pc[p] # "rollback"
  PROVE  IInv'
<1>1. Typed'
  BY DEF IInv, Typed
<1>2. BackedUp'
  BY DEF IInv, BackedUp
<1>3. OriginalKept'
  BY DEF IInv, OriginalKept
<1>4. HalfWritten'
  <2> SUFFICES ASSUME NEW v \in Server \ overwritten, sources[v] = "partial"
      PROVE  /\ failures' >= 1
             /\ \/ Len(backups[v]) >= 2 \/ failures' >= 2
                \/ \E p \in Process : at'[p] = v /\ pc'[p] = "rollback"
    BY DEF HalfWritten
  <2>1. /\ failures >= 1
        /\ \/ Len(backups[v]) >= 2 \/ failures >= 2
           \/ \E p \in Process : at[p] = v /\ pc[p] = "rollback"
    BY DEF IInv, HalfWritten
  <2>2. failures \in Nat
    BY DEF IInv, Typed
  <2> QED
    BY <2>1, <2>2
<1> QED
  BY <1>1, <1>2, <1>3, <1>4 DEF IInv

\* A copy leaves the sources in a backup and the other backups alone, unless it
\* overwrites one.
LEMMA Copies ==
  ASSUME IInv, NEW v \in Server, Copied(v)
  PROVE  /\ backups' \in [Server -> Seq(Sources)]
         /\ \A w \in Server : w # v => backups'[w] = backups[w]
         /\ overwritten \subseteq overwritten' /\ overwritten' \subseteq overwritten \cup {v}
         /\ v \notin overwritten' =>
              /\ Len(backups'[v]) >= Len(backups[v])
              /\ \A i \in DOMAIN backups[v] :
                   i \in DOMAIN backups'[v] /\ backups'[v][i] = backups[v][i]
              /\ \E i \in DOMAIN backups'[v] : backups'[v][i] = sources[v]
<1>1. /\ backups \in [Server -> Seq(Sources)] /\ backups[v] \in Seq(Sources)
      /\ sources[v] \in Sources /\ Len(backups[v]) \in Nat
  BY DEF IInv, Typed
<1>2. CASE backups' = [backups EXCEPT ![v] = Append(@, sources[v])] /\ UNCHANGED overwritten
  <2>1. backups'[v] = Append(backups[v], sources[v]) /\ Append(backups[v], sources[v]) \in Seq(Sources)
    BY <1>1, <1>2
  <2>2. /\ Len(backups'[v]) = Len(backups[v]) + 1
        /\ \A i \in DOMAIN backups[v] :
             i \in DOMAIN backups'[v] /\ backups'[v][i] = backups[v][i]
        /\ Len(backups'[v]) \in DOMAIN backups'[v] /\ backups'[v][Len(backups'[v])] = sources[v]
    BY <1>1, <2>1
  <2>3. backups' \in [Server -> Seq(Sources)]
    BY <1>1, <1>2, <2>1
  <2> QED
    BY <1>1, <1>2, <2>2, <2>3
<1>3. CASE /\ backups[v] # <<>>
           /\ backups' = [backups EXCEPT ![v][Len(backups[v])] = sources[v]]
           /\ overwritten' = overwritten \cup {w \in {v} : backups[v][Len(backups[v])] # sources[v]}
  <2> DEFINE last == Len(backups[v])
  <2>1. last \in DOMAIN backups[v]
    BY <1>1, <1>3
  <2>2. /\ backups'[v] = [backups[v] EXCEPT ![last] = sources[v]]
        /\ \A w \in Server : w # v => backups'[w] = backups[w]
        /\ backups' = [backups EXCEPT ![v] = [backups[v] EXCEPT ![last] = sources[v]]]
    BY <1>1, <1>3
  <2>3. [backups[v] EXCEPT ![last] = sources[v]] \in Seq(Sources)
    BY <1>1, <2>1
  <2>4. backups' \in [Server -> Seq(Sources)]
    BY <1>1, <2>2, <2>3
  <2>5. overwritten \subseteq overwritten' /\ overwritten' \subseteq overwritten \cup {v}
    BY <1>3
  <2>6. ASSUME v \notin overwritten' PROVE backups'[v] = backups[v] /\ backups[v][last] = sources[v]
    <3>1. backups[v][last] = sources[v]
      BY <1>3, <2>6
    <3>2. [backups[v] EXCEPT ![last] = sources[v]] = backups[v]
      BY <1>1, <2>1, <3>1
    <3> QED
      BY <2>2, <3>1, <3>2
  <2> QED
    BY <1>1, <2>1, <2>2, <2>4, <2>5, <2>6
<1> QED
  BY <1>2, <1>3 DEF Copied

LEMMA BackupStep ==
  ASSUME IInv, NEW p \in Process, Backup(p)
  PROVE  IInv'
<1> USE ConfigurationAssumption
<1> DEFINE v == at[p]
<1>1. v \in Server /\ v # None
  BY DEF IInv, Typed, Backup
<1>2. PICK o \in Outcome :
        \/ /\ UNCHANGED <<failures, backups, overwritten>>
           /\ pc' = [pc EXCEPT ![p] = "networks"]
        \/ /\ Answers(v, {"sudo"}, o) /\ apt[v] \in Template
           /\ IF Happened(o) THEN Copied(v) ELSE UNCHANGED <<backups, overwritten>>
           /\ pc' = [pc EXCEPT ![p] = IF o = "done" THEN "upload" ELSE "networks"]
  BY DEF Backup, NoTemplate, Outcome
<1>3. UNCHANGED <<sources, at, original, todo>> /\ pc[p] = "backup"
  BY DEF Backup
<1>4. failures' \in Nat /\ failures' >= failures
  BY <1>2, Counts DEF IInv, Typed
<1>5. CASE UNCHANGED <<backups, overwritten>> /\ pc' = [pc EXCEPT ![p] = "networks"]
  BY <1>3, <1>4, <1>5, Elsewhere DEF IInv, Typed, Steps
<1>6. ASSUME Copied(v),
             pc' \in [Process -> Steps],
             \A q \in Process : q # p => pc'[q] = pc[q],
             pc'[p] \in {"upload", "networks"},
             pc'[p] = "upload" => apt[v] \in Template /\ "sudo" \in tools[v]
      PROVE  IInv'
  <2>1. /\ backups' \in [Server -> Seq(Sources)]
        /\ \A w \in Server : w # v => backups'[w] = backups[w]
        /\ overwritten \subseteq overwritten' /\ overwritten' \subseteq overwritten \cup {v}
        /\ v \notin overwritten' =>
             /\ Len(backups'[v]) >= Len(backups[v])
             /\ \A i \in DOMAIN backups[v] :
                  i \in DOMAIN backups'[v] /\ backups'[v][i] = backups[v][i]
             /\ \E i \in DOMAIN backups'[v] : backups'[v][i] = sources[v]
    BY <1>1, <1>6, Copies
  <2>3. Typed'
    BY <1>1, <1>3, <1>4, <1>6, <2>1 DEF IInv, Typed
  <2>4. \A w \in Server \ overwritten' : (\E i \in DOMAIN backups[w] : backups[w][i] = original[w])
          => \E i \in DOMAIN backups'[w] : backups'[w][i] = original[w]
    BY <2>1
  <2>5. v \notin overwritten' => \E i \in DOMAIN backups'[v] : backups'[v][i] = original[v]
    BY <1>1, <2>1, <2>4 DEF IInv, OriginalKept
  <2>6. BackedUp'
    <3> SUFFICES ASSUME NEW q \in Process, pc'[q] \in Replacing
        PROVE  /\ at[q] \in Server /\ apt[at[q]] \in Template /\ "sudo" \in tools[at[q]]
               /\ at[q] \notin overwritten' =>
                    \E i \in DOMAIN backups'[at[q]] : backups'[at[q]][i] = original[at[q]]
      BY <1>3 DEF BackedUp
    <3>1. CASE q = p
      BY <1>1, <1>6, <2>5, <3>1
    <3>2. CASE q # p
      BY <1>6, <2>1, <2>4, <3>2 DEF IInv, BackedUp
    <3> QED
      BY <3>1, <3>2
  <2>7. OriginalKept'
    <3> SUFFICES ASSUME NEW w \in Server \ overwritten'
        PROVE  \/ sources[w] = original[w]
               \/ \E i \in DOMAIN backups'[w] : backups'[w][i] = original[w]
      BY <1>3 DEF OriginalKept
    <3>1. w \notin overwritten
      BY <2>1
    <3> QED
      BY <2>4, <3>1 DEF IInv, OriginalKept
  <2>8. HalfWritten'
    <3> SUFFICES ASSUME NEW w \in Server \ overwritten', sources[w] = "partial"
        PROVE  /\ failures' >= 1
               /\ \/ Len(backups'[w]) >= 2 \/ failures' >= 2
                  \/ \E q \in Process : at[q] = w /\ pc'[q] = "rollback"
      BY <1>3 DEF HalfWritten
    <3>1. /\ failures >= 1
          /\ \/ Len(backups[w]) >= 2 \/ failures >= 2
             \/ \E q \in Process : at[q] = w /\ pc[q] = "rollback"
      BY <2>1 DEF IInv, HalfWritten
    <3>2. backups[w] \in Seq(Sources) /\ backups'[w] \in Seq(Sources) /\ failures \in Nat
      BY <2>1 DEF IInv, Typed
    <3>3. Len(backups'[w]) \in Nat /\ Len(backups'[w]) >= Len(backups[w])
      <4>1. CASE w = v
        BY <2>1, <3>2, <4>1
      <4>2. CASE w # v
        BY <2>1, <3>2, <4>2
      <4> QED
        BY <4>1, <4>2
    <3>4. \A q \in Process : pc[q] = "rollback" => pc'[q] = "rollback"
      BY <1>3, <1>6
    <3>5. Len(backups[w]) \in Nat
      BY <3>2
    <3> QED
      BY <1>4, <3>1, <3>2, <3>3, <3>4, <3>5
  <2> QED
    BY <2>3, <2>6, <2>7, <2>8 DEF IInv
<1>7. CASE /\ Answers(v, {"sudo"}, o) /\ apt[v] \in Template
           /\ IF Happened(o) THEN Copied(v) ELSE UNCHANGED <<backups, overwritten>>
           /\ pc' = [pc EXCEPT ![p] = IF o = "done" THEN "upload" ELSE "networks"]
  <2>1. pc \in [Process -> Steps] /\ pc' \in [Process -> Steps]
    BY <1>7 DEF IInv, Typed, Steps
  <2>2. o = "done" => "sudo" \in tools[v] /\ Happened(o)
    BY <1>7 DEF Answers, AnswersAfter, Happened
  <2>3. CASE Happened(o)
    <3>1. /\ Copied(v)
          /\ pc'[p] \in {"upload", "networks"} /\ \A q \in Process : q # p => pc'[q] = pc[q]
          /\ pc'[p] = "upload" => apt[v] \in Template /\ "sudo" \in tools[v]
      BY <1>7, <2>1, <2>2, <2>3
    <3> QED
      BY <1>6, <2>1, <3>1
  <2>4. CASE ~Happened(o)
    BY <1>5, <1>7, <2>2, <2>4
  <2> QED
    BY <2>3, <2>4
<1> QED
  BY <1>2, <1>5, <1>7

LEMMA UploadStep ==
  ASSUME IInv, NEW p \in Process, Upload(p)
  PROVE  IInv'
<1> USE ConfigurationAssumption
<1> DEFINE v == at[p]
<1>1. /\ v \in Server /\ apt[v] \in Sources /\ apt[v] # "partial"
      /\ apt[v] \in Template /\ "sudo" \in tools[v]
      /\ v \notin overwritten => \E i \in DOMAIN backups[v] : backups[v][i] = original[v]
  BY DEF IInv, Typed, BackedUp, Upload, Sources, Template
<1>2. /\ UNCHANGED <<backups, at, original, todo, overwritten>> /\ pc[p] = "upload"
      /\ failures' \in Nat /\ failures' >= failures
  BY Counts DEF IInv, Typed, Upload, history
<1>3. PICK c \in Sources :
        /\ sources' = [sources EXCEPT ![v] = c]
        /\ c = "partial" => pc' = [pc EXCEPT ![p] = "rollback"] /\ failures' >= 1
        /\ pc' \in {[pc EXCEPT ![p] = "rollback"], [pc EXCEPT ![p] = "update"]}
  <2>1. CASE sources' = [sources EXCEPT ![v] = apt[v]] /\ pc' = [pc EXCEPT ![p] = "update"]
    BY <1>1, <2>1
  <2>2. CASE /\ Answers(v, {"sudo"}, "refused")
             /\ \E c \in AfterFailedUpload(v) : sources' = [sources EXCEPT ![v] = c]
             /\ pc' = [pc EXCEPT ![p] = "rollback"]
    <3>1. failures' >= 1
      BY <1>1, <2>2 DEF Answers, AnswersAfter, IInv, Typed
    <3>2. AfterFailedUpload(v) \subseteq Sources
      BY <1>1 DEF AfterFailedUpload, Sources, IInv, Typed
    <3> QED
      BY <2>2, <3>1, <3>2
  <2> QED
    BY <2>1, <2>2 DEF Upload
<1>4. /\ pc' \in [Process -> Steps] /\ pc'[p] \in {"rollback", "update"}
      /\ \A q \in Process : q # p => pc'[q] = pc[q]
  BY <1>3 DEF IInv, Typed, Steps
<1>5. Typed'
  BY <1>2, <1>3, <1>4 DEF IInv, Typed
<1>6. BackedUp'
  BY <1>1, <1>2, <1>4 DEF IInv, BackedUp
<1>7. OriginalKept'
  <2> SUFFICES ASSUME NEW w \in Server \ overwritten
      PROVE  \/ sources'[w] = original[w]
             \/ \E i \in DOMAIN backups[w] : backups[w][i] = original[w]
    BY <1>2 DEF OriginalKept
  <2>1. w # v => sources'[w] = sources[w]
    BY <1>3 DEF IInv, Typed
  <2> QED
    BY <1>1, <2>1 DEF IInv, OriginalKept
<1>8. HalfWritten'
  <2> SUFFICES ASSUME NEW w \in Server \ overwritten, sources'[w] = "partial"
      PROVE  /\ failures' >= 1
             /\ \/ Len(backups[w]) >= 2 \/ failures' >= 2
                \/ \E q \in Process : at[q] = w /\ pc'[q] = "rollback"
    BY <1>2 DEF HalfWritten
  <2>1. CASE w = v
    <3>1. pc' = [pc EXCEPT ![p] = "rollback"] /\ failures' >= 1
      BY <1>1, <1>3, <2>1 DEF IInv, Typed
    <3> QED
      BY <2>1, <3>1 DEF IInv, Typed
  <2>2. CASE w # v
    <3>1. /\ failures >= 1
          /\ \/ Len(backups[w]) >= 2 \/ failures >= 2
             \/ \E q \in Process : at[q] = w /\ pc[q] = "rollback"
      BY <1>3, <2>2 DEF IInv, Typed, HalfWritten
    <3>2. failures \in Nat
      BY DEF IInv, Typed
    <3> QED
      BY <1>2, <1>4, <3>1, <3>2
  <2> QED
    BY <2>1, <2>2
<1> QED
  BY <1>5, <1>6, <1>7, <1>8 DEF IInv

LEMMA RollbackStep ==
  ASSUME IInv, NEW p \in Process, Rollback(p)
  PROVE  IInv'
<1> USE ConfigurationAssumption
<1> DEFINE v == at[p]
<1>1. /\ v \in Server /\ "sudo" \in tools[v]
      /\ v \notin overwritten => \E i \in DOMAIN backups[v] : backups[v][i] = original[v]
      /\ backups[v] \in Seq(Sources) /\ original[v] \in Sources /\ original[v] # "partial"
  BY DEF IInv, Typed, BackedUp, Rollback
<1>2. /\ UNCHANGED <<backups, at, original, todo, overwritten>> /\ pc[p] = "rollback"
      /\ pc' = [pc EXCEPT ![p] = "networks"]
      /\ failures' \in Nat /\ failures' >= failures
  BY Counts DEF IInv, Typed, Rollback, history
<1>3. v \notin overwritten /\ Len(backups[v]) = 1 => backups[v][1] = original[v]
  BY <1>1
<1>4. v \notin overwritten => Len(backups[v]) = 1 \/ Len(backups[v]) >= 2
  <2>1. \A n \in Nat : n = 0 \/ n = 1 \/ n >= 2
    OBVIOUS
  <2>2. v \notin overwritten => Len(backups[v]) \in Nat /\ Len(backups[v]) # 0
    BY <1>1
  <2> QED
    BY <2>1, <2>2
<1>5. /\ sources' = sources \/ \E c \in Sources : sources' = [sources EXCEPT ![v] = c]
      /\ v \notin overwritten =>
           \/ sources' = [sources EXCEPT ![v] = original[v]]
           \/ sources' = sources /\ (Len(backups[v]) >= 2 \/ failures' = failures + 1)
  <2>1. PICK o \in Outcome :
          /\ Answers(v, {"sudo"}, o)
          /\ sources' = IF Happened(o) /\ Len(backups[v]) = 1
                          THEN [sources EXCEPT ![v] = backups[v][1]] ELSE sources
    BY DEF Rollback
  <2>2. CASE Happened(o) /\ Len(backups[v]) = 1
    <3>1. sources' = [sources EXCEPT ![v] = backups[v][1]] /\ backups[v][1] \in Sources
      BY <1>1, <2>1, <2>2
    <3>2. v \notin overwritten => backups[v][1] = original[v]
      BY <1>3, <2>2
    <3> QED
      BY <3>1, <3>2
  <2>3. CASE Len(backups[v]) # 1
    <3>1. sources' = sources
      BY <2>1, <2>3
    <3>2. v \notin overwritten => Len(backups[v]) >= 2
      BY <1>4, <2>3
    <3> QED
      BY <3>1, <3>2
  <2>4. CASE ~Happened(o)
    <3>1. failures' = failures + 1
      BY <1>1, <2>1, <2>4 DEF Answers, AnswersAfter, Happened, IInv, Typed
    <3> QED
      BY <2>1, <2>4, <3>1
  <2> QED
    BY <2>2, <2>3, <2>4
<1>6. pc' \in [Process -> Steps]
  BY <1>2 DEF IInv, Typed, Steps
<1>7. Typed'
  <2>1. sources' \in [Server -> Sources]
    BY <1>1, <1>5 DEF IInv, Typed
  <2> QED
    BY <1>2, <1>6, <2>1 DEF IInv, Typed
<1>8. BackedUp'
  BY <1>2 DEF IInv, Typed, BackedUp
<1>9. OriginalKept'
  <2> SUFFICES ASSUME NEW w \in Server \ overwritten
      PROVE  \/ sources'[w] = original[w]
             \/ \E i \in DOMAIN backups[w] : backups[w][i] = original[w]
    BY <1>2 DEF OriginalKept
  <2>1. w # v => sources'[w] = sources[w]
    BY <1>5 DEF IInv, Typed
  <2> QED
    BY <1>1, <2>1 DEF IInv, OriginalKept
<1>10. HalfWritten'
  <2> SUFFICES ASSUME NEW w \in Server \ overwritten, sources'[w] = "partial"
      PROVE  /\ failures' >= 1
             /\ \/ Len(backups[w]) >= 2 \/ failures' >= 2
                \/ \E q \in Process : at[q] = w /\ pc'[q] = "rollback"
    BY <1>2 DEF HalfWritten
  <2>1. /\ sources[w] = "partial"
        /\ w = v => Len(backups[v]) >= 2 \/ failures' = failures + 1
    BY <1>1, <1>5 DEF IInv, Typed
  <2>2. /\ failures >= 1 /\ failures \in Nat
        /\ \/ Len(backups[w]) >= 2 \/ failures >= 2
           \/ \E q \in Process : at[q] = w /\ pc[q] = "rollback"
    BY <2>1 DEF IInv, Typed, HalfWritten
  <2>3. CASE w = v
    BY <1>2, <2>1, <2>2, <2>3
  <2>4. CASE w # v
    <3>1. \A q \in Process : at[q] = w => pc'[q] = pc[q]
      BY <1>2, <2>4 DEF IInv, Typed
    <3> QED
      BY <1>2, <2>2, <3>1
  <2> QED
    BY <2>3, <2>4
<1> QED
  BY <1>7, <1>8, <1>9, <1>10 DEF IInv

LEMMA EditStep ==
  ASSUME IInv, NEW v \in Server, EditSources(v)
  PROVE  IInv'
<1> USE ConfigurationAssumption
<1>1. PICK c \in First[v] : /\ sources' = [sources EXCEPT ![v] = c]
                         /\ original' = [original EXCEPT ![v] = c]
  BY DEF EditSources
<1>2. UNCHANGED <<backups, at, pc, failures, todo, overwritten>> /\ ~Busy(v)
  BY DEF EditSources
<1>3. c \in Sources /\ c # "partial"
  OBVIOUS
<1>4. Typed'
  BY <1>1, <1>2, <1>3 DEF IInv, Typed
<1>5. BackedUp'
  BY <1>1, <1>2 DEF IInv, Typed, BackedUp, Busy
<1>6. OriginalKept'
  BY <1>1, <1>2 DEF IInv, Typed, OriginalKept
<1>7. HalfWritten'
  BY <1>1, <1>2, <1>3 DEF IInv, Typed, HalfWritten
<1> QED
  BY <1>4, <1>5, <1>6, <1>7 DEF IInv

-----------------------------------------------------------------------------
\* Where a run goes by a step that is no replacement.
LEMMA Aside ==
  ASSUME IInv, NEW p \in Process, UNCHANGED <<sources, backups, original, overwritten>>,
         failures' \in Nat, failures' >= failures, pc[p] # "rollback",
         todo' \in [Process -> SUBSET Server],
         \/ at' = at
         \/ \E v \in Server \cup {None} : at' = [at EXCEPT ![p] = v],
         \/ pc' = pc /\ at' = at
         \/ \E s \in Steps \ Replacing : pc' = [pc EXCEPT ![p] = s]
  PROVE  IInv'
<1>1. at' \in [Process -> Server \cup {None}] /\ pc' \in [Process -> Steps]
  BY DEF IInv, Typed
<1>2. \A q \in Process : \/ at'[q] = at[q] /\ pc'[q] = pc[q]
                         \/ pc'[q] \notin Replacing /\ pc[q] # "rollback"
  BY <1>1 DEF IInv, Typed
<1> QED
  BY <1>1, <1>2, Elsewhere

LEMMA InvStep == IInv /\ [Next]_vars => IInv'
<1> SUFFICES ASSUME IInv, [Next]_vars PROVE IInv'
  OBVIOUS
<1> USE DEF Steps, history, host, result, Expect, Fails, Missing
<1>t. failures \in Nat /\ failures >= failures
  BY DEF IInv, Typed
<1>1. ASSUME NEW p \in Process, Begin(p) PROVE IInv'
  <2>1. todo' \in [Process -> SUBSET Server]
    <3>1. PICK request \in EnvRequests \cup ServerRequests \cup MarkedRequests :
            todo' = [todo EXCEPT ![p] = request[2]]
      BY <1>1 DEF Begin
    <3>2. request[2] \subseteq Server
      BY DEF EnvRequests, ServerRequests, MarkedRequests, Filtered
    <3> QED
      BY <3>1, <3>2 DEF IInv, Typed
  <2> QED
    BY <1>1, <1>t, <2>1, Elsewhere DEF Begin, IInv, Typed
<1>2. ASSUME NEW p \in Process, Connect(p) PROVE IInv'
  <2>1. pc[p] # "rollback"
    BY <1>2, ConfigurationAssumption DEF Connect, IInv, BackedUp
  <2>2. /\ UNCHANGED <<sources, backups, original, overwritten>>
        /\ failures' \in Nat /\ failures' >= failures
    BY <1>2, <1>t DEF Connect
  <2>3. PICK v \in todo[p] :
          /\ todo' = [todo EXCEPT ![p] = @ \ {v}]
          /\ \/ pc' = pc /\ at' = at
             \/ /\ at' = [at EXCEPT ![p] = v]
                /\ pc' = [pc EXCEPT ![p] = IF kind[p] = "sync" THEN "backup" ELSE "host"]
    BY <1>2 DEF Connect
  <2>4. v \in Server /\ todo' \in [Process -> SUBSET Server]
    BY <2>3 DEF IInv, Typed
  <2>5. CASE pc' = pc /\ at' = at
    BY <2>1, <2>2, <2>4, <2>5, Aside
  <2>6. CASE /\ at' = [at EXCEPT ![p] = v]
             /\ pc' = [pc EXCEPT ![p] = IF kind[p] = "sync" THEN "backup" ELSE "host"]
    <3>1. \E s \in {"backup", "host"} : pc' = [pc EXCEPT ![p] = s]
      BY <2>6
    <3> QED
      BY <2>1, <2>2, <2>4, <2>6, <3>1, Aside
  <2> QED
    BY <2>3, <2>5, <2>6
<1>3. ASSUME NEW p \in Process, CheckHost(p) \/ CheckRegistries(p) \/ Checked(p) PROVE IInv'
  BY <1>3, <1>t, Counts, Aside DEF CheckHost, CheckRegistries, Reads, Checked, IInv, Typed
<1>4. ASSUME NEW p \in Process, Update(p) \/ ListNetworks(p) \/ CreateNetwork(p) PROVE IInv'
  BY <1>4, <1>t, Counts, Aside DEF Update, ListNetworks, CreateNetwork, IInv, Typed
<1>5. ASSUME NEW p \in Process, NetworksDone(p) \/ SyncRegistry(p) \/ SyncDone(p) PROVE IInv'
  <2>1. CASE NetworksDone(p) \/ SyncDone(p)
    BY <2>1, <1>t, Aside DEF NetworksDone, SyncDone, IInv, Typed
  <2>2. CASE SyncRegistry(p)
    <3>1. failures' \in Nat /\ failures' >= failures
      BY <2>2, <1>t, CountsAfter DEF SyncRegistry
    <3> QED
      BY <2>2, <3>1, Aside DEF SyncRegistry, IInv, Typed
  <2> QED
    BY <1>5, <2>1, <2>2
<1>6. ASSUME NEW v \in Server, NEW r \in Registry, LogInByHand(v, r) PROVE IInv'
  BY <1>6, <1>t, Elsewhere DEF LogInByHand, IInv, Typed
<1>7. CASE UNCHANGED vars
  BY <1>7, <1>t, Elsewhere DEF vars, IInv, Typed
<1> QED
  BY <1>1, <1>2, <1>3, <1>4, <1>5, <1>6, <1>7, BackupStep, UploadStep, RollbackStep, EditStep
     DEF Next, Step

\* The sources of a server as the administrator left them are lost only where a
\* backup was overwritten by another of the same second, with any number of servers
\* and runs, wherever commands fail.
THEOREM SourcesAreKept == Spec => []OriginalKept
<1>1. IInv => OriginalKept
  BY DEF IInv
<1> QED
  BY <1>1, Initially, InvStep, PTL DEF Spec

\* Sources that an upload left half written do not stay so while there is one
\* backup that was never overwritten, unless the rollback failed as well.
THEOREM HalfWrittenIsPutBack == Spec => []HalfWrittenIsRestored
<1>1. IInv => HalfWrittenIsRestored
  <2> SUFFICES ASSUME IInv, NEW v \in Server \ overwritten,
                      sources[v] = "partial", ~Busy(v), Len(backups[v]) = 1
      PROVE  failures >= 2
    BY DEF HalfWrittenIsRestored
  <2>1. ~\E p \in Process : at[p] = v /\ pc[p] = "rollback"
    BY DEF Busy
  <2>2. Len(backups[v]) >= 2 \/ failures >= 2
    BY <2>1 DEF IInv, HalfWritten
  <2> QED
    BY <2>2
<1> QED
  BY <1>1, Initially, InvStep, PTL DEF Spec
-----------------------------------------------------------------------------
(* The types, and what a sync that failed in nothing has established. *)

SyncSteps == {"backup", "upload", "rollback", "update", "networks", "create", "registries"}

\* Where the runs are, and what they have left there.
LocatedAt(p) ==
  /\ at[p] = None <=> pc[p] = "next"
  /\ pc[p] \in SyncSteps => kind[p] # "check"
  /\ pc[p] \in {"logins", "registries"} => left[p] \subseteq registries[at[p]]
  /\ pc[p] \in {"upload", "rollback", "update", "networks", "create"} =>
       left[p] \subseteq Wanted(at[p])
  /\ pc[p] = "create" => item[p] \in Wanted(at[p])

Located == \A p \in Process : LocatedAt(p)

\* Two syncs at one server know of each other, and none is at one that is synced.
Alone ==
  /\ \A p, q \in Process :
       p # q /\ at[p] = at[q] /\ at[p] # None /\ kind[p] # "check" /\ kind[q] # "check" =>
         p \in disturbed
  /\ \A p \in Process : at[p] \in synced => kind[p] = "check"

Ready(v) == {"sudo", "docker"} \subseteq tools[v]
SourcesRight(v) == apt[v] # "other" /\ (apt[v] \in Template => sources[v] = apt[v])
LoginRight(v, r) ==
  /\ r \in Configured
  /\ <<r, r>> \in TakenFor => IsRegistryLoggedIn(r, root[v]) \/ IsRegistryLoggedIn(r, user[v])
AllRight(v) ==
  /\ Ready(v) /\ SourcesRight(v) /\ Wanted(v) \subseteq nets[v]
  /\ \A r \in registries[v] : LoginRight(v, r)

\* What run p, alone at server v and without a failure so far, has established there.
Established(p, v) ==
  /\ pc[p] # "rollback"
  /\ pc[p] \in {"upload", "update"} => left[p] = Wanted(v)
  /\ pc[p] \in {"update", "networks", "create", "registries"} => SourcesRight(v)
  /\ pc[p] = "networks" =>
       Wanted(v) \ left[p] \subseteq nets[v] /\ (left[p] = Wanted(v) \/ Ready(v))
  /\ pc[p] = "create" => Wanted(v) \ (left[p] \cup {item[p]}) \subseteq nets[v] /\ Ready(v)
  /\ pc[p] = "registries" =>
       /\ Ready(v) /\ Wanted(v) \subseteq nets[v]
       /\ \A r \in registries[v] \ left[p] : LoginRight(v, r)

SoFarSoGood ==
  /\ \A p \in Process :
       at[p] # None /\ p \notin disturbed /\ failed[p] = {} => Established(p, at[p])
  /\ \A v \in synced : AllRight(v)

SInv == TypeOK /\ Located /\ Alone /\ SoFarSoGood

LEMMA Bounds ==
  /\ MaxRuns \in Nat /\ MaxFailures \in Nat /\ MaxByHand \in Nat
  /\ \A v \in Server : Wanted(v) \subseteq Network /\ registries[v] \subseteq Registry
                       /\ None # v
BY ConfigurationAssumption DEF Network

LEMMA SInitially == Init => SInv
<1> SUFFICES ASSUME Init PROVE SInv
  OBVIOUS
<1> USE ConfigurationAssumption, Bounds DEF Init
<1>1. TypeOK
  BY DEF TypeOK, Steps, Sources
<1>2. Located /\ Alone /\ SoFarSoGood
  BY DEF Located, LocatedAt, Alone, SoFarSoGood, SyncSteps
<1> QED
  BY <1>1, <1>2 DEF SInv

\* The failures are counted as far as their bound.
LEMMA CountsTo ==
  ASSUME failures \in 0..MaxFailures, NEW v, NEW needs, NEW o, Answers(v, needs, o)
  PROVE  failures' \in 0..MaxFailures
BY Bounds DEF Answers, AnswersAfter

LEMMA CountsToAfter ==
  ASSUME failures \in 0..MaxFailures, NEW lost \in {0, 1}, NEW v, NEW needs, NEW o,
         AnswersAfter(lost, v, needs, o)
  PROVE  failures' \in 0..MaxFailures
BY Bounds DEF AnswersAfter

\* A set kept for each run or server stays within its bounds as it grows and shrinks.
LEMMA Grows ==
  ASSUME NEW D, NEW T, NEW f \in [D -> SUBSET T], NEW d \in D, NEW items, items \subseteq T,
         NEW g, g = f \/ g = [f EXCEPT ![d] = @ \cup items]
  PROVE  g \in [D -> SUBSET T]
OBVIOUS

LEMMA Shrinks ==
  ASSUME NEW D, NEW T, NEW f \in [D -> SUBSET T], NEW d \in D, NEW items,
         NEW g, g = f \/ g = [f EXCEPT ![d] = f[d] \ items]
  PROVE  g \in [D -> SUBSET T]
OBVIOUS

LEMMA TypesStep == IInv /\ SInv /\ [Next]_vars => TypeOK'
<1> SUFFICES ASSUME IInv, SInv, [Next]_vars PROVE TypeOK'
  OBVIOUS
<1> USE Bounds, CountsTo DEF SInv, Expect, Fails, Missing, host, result, history
<1>r. \A p \in Process : pc'[p] \in {"upload", "rollback", "update"} => apt[at'[p]] \in Template
  BY InvStep DEF IInv, BackedUp
<1>1. ASSUME NEW p \in Process, Begin(p) PROVE TypeOK'
  <2>1. PICK request \in EnvRequests \cup ServerRequests \cup MarkedRequests :
          /\ kind' = [kind EXCEPT ![p] = request[1]]
          /\ todo' = [todo EXCEPT ![p] = request[2]]
    BY <1>1 DEF Begin
  <2>2. request[1] \in {"check", "sync", "setup"} /\ request[2] \in SUBSET Server
    BY DEF EnvRequests, ServerRequests, MarkedRequests, Filtered
  <2>3. kind' \in [Process -> {"check", "sync", "setup"}] /\ todo' \in [Process -> SUBSET Server]
    BY <2>1, <2>2 DEF TypeOK
  <2>4. runs' \in 0..MaxRuns
    BY <1>1 DEF Begin, TypeOK
  <2> QED
    BY <1>1, <2>3, <2>4 DEF Begin, TypeOK
<1>2. ASSUME NEW p \in Process, Connect(p) PROVE TypeOK'
  <2>1. PICK v \in todo[p] :
          /\ todo' = [todo EXCEPT ![p] = @ \ {v}]
          /\ at' = at \/ at' = [at EXCEPT ![p] = v]
          /\ pc' = pc \/ pc' = [pc EXCEPT ![p] = IF kind[p] = "sync" THEN "backup" ELSE "host"]
    BY <1>2 DEF Connect
  <2>2. v \in Server /\ todo[p] \subseteq Server
    BY <2>1 DEF TypeOK
  <2>3. todo' \in [Process -> SUBSET Server] /\ at' \in [Process -> Server \cup {None}]
    <3>1. todo \in [Process -> SUBSET Server] /\ at \in [Process -> Server \cup {None}]
      BY DEF TypeOK
    <3> HIDE DEF SInv
    <3>2. todo' \in [Process -> SUBSET Server]
      BY <2>1, <2>2, <3>1
    <3>3. at' \in [Process -> Server \cup {None}]
      BY <2>1, <2>2, <3>1
    <3> QED
      BY <3>2, <3>3
  <2>4. pc' \in [Process -> Steps]
    BY <2>1 DEF TypeOK, Steps
  <2>5. failures' \in 0..MaxFailures
    BY <1>2 DEF Connect, TypeOK
  <2>6. disturbed' \subseteq Process /\ synced' \subseteq Server
    BY <1>2 DEF Connect, TypeOK, Others
  <2> QED
    BY <1>2, <1>r, <2>3, <2>4, <2>5, <2>6 DEF Connect, TypeOK
<1>3. ASSUME NEW p \in Process, CheckHost(p) PROVE TypeOK'
  <2>1. at[p] \in Server
    BY <1>3 DEF CheckHost, TypeOK
  <2>2. failures' \in 0..MaxFailures
    BY <1>3 DEF CheckHost, TypeOK
  <2>3. left' \in [Process -> SUBSET (Network \cup Registry)]
    BY <1>3, <2>1 DEF CheckHost, TypeOK
  <2>4. PICK seen : report' = [report EXCEPT ![p] = @ \cup
                                (CheckTools(at[p]) \cup CheckAPTSource(at[p], seen))]
    BY <1>3 DEF CheckHost
  <2>5. CheckTools(at[p]) \cup CheckAPTSource(at[p], seen) \subseteq
          {"sudo", "docker", "compose", "apt"}
    BY DEF CheckTools, CheckAPTSource
  <2>6. report' \in [Process -> SUBSET ({"sudo", "docker", "compose", "apt"} \cup Registry)]
    BY <2>4, <2>5 DEF TypeOK
  <2>7. pc' \in [Process -> Steps]
    BY <1>3 DEF CheckHost, TypeOK, Steps
  <2> QED
    BY <1>3, <1>r, <2>2, <2>3, <2>6, <2>7 DEF CheckHost, TypeOK
<1>4. ASSUME NEW p \in Process, CheckRegistries(p) PROVE TypeOK'
  <2>1. PICK r \in left[p] :
          /\ \/ report' = [report EXCEPT ![p] = @ \cup {}]
             \/ report' = [report EXCEPT ![p] = @ \cup {r}]
          /\ left' = [left EXCEPT ![p] = left[p] \ {r}]
    BY <1>4 DEF CheckRegistries
  <2>2. r \in Registry
    BY <1>4, <2>1 DEF Located, LocatedAt, CheckRegistries, TypeOK
  <2>3. report' \in [Process -> SUBSET ({"sudo", "docker", "compose", "apt"} \cup Registry)]
    <3> DEFINE bound == {"sudo", "docker", "compose", "apt"} \cup Registry
    <3>1. report \in [Process -> SUBSET bound] /\ {} \subseteq bound /\ {r} \subseteq bound
      BY <2>2 DEF TypeOK
    <3> HIDE DEF bound
    <3>2. report' \in [Process -> SUBSET bound]
      BY <2>1, <3>1, Grows
    <3> QED
      BY <3>2 DEF bound
  <2>4. left' \in [Process -> SUBSET (Network \cup Registry)]
    BY <2>1 DEF TypeOK
  <2>5. failures' \in 0..MaxFailures
    BY <1>4 DEF CheckRegistries, Reads, TypeOK
  <2> QED
    BY <1>4, <2>3, <2>4, <2>5 DEF CheckRegistries, TypeOK
<1>5. ASSUME NEW p \in Process, Checked(p) PROVE TypeOK'
  <2>1. pc' \in [Process -> Steps] /\ at' \in [Process -> Server \cup {None}]
    <3>1. \E step \in {"backup", "next"} : pc' = [pc EXCEPT ![p] = step]
      BY <1>5 DEF Checked
    <3>2. at' = at \/ at' = [at EXCEPT ![p] = None]
      BY <1>5 DEF Checked
    <3>3. pc' \in [Process -> Steps]
      BY <3>1 DEF TypeOK, Steps
    <3> QED
      BY <3>2, <3>3 DEF TypeOK
  <2>2. report' \in [Process -> SUBSET ({"sudo", "docker", "compose", "apt"} \cup Registry)]
    BY <1>5 DEF Checked, TypeOK
  <2> QED
    BY <1>5, <1>r, <2>1, <2>2 DEF Checked, TypeOK
<1>6. ASSUME NEW p \in Process, Backup(p) PROVE TypeOK'
  <2>1. at[p] \in Server
    BY <1>6 DEF Backup, TypeOK
  <2>2. failures' \in 0..MaxFailures
    BY <1>6 DEF Backup, NoTemplate, TypeOK
  <2>3. pc' \in [Process -> Steps]
    <3>1. \E step \in {"upload", "networks"} : pc' = [pc EXCEPT ![p] = step]
      BY <1>6 DEF Backup, NoTemplate
    <3> QED
      BY <3>1 DEF TypeOK, Steps
  <2>4. left' \in [Process -> SUBSET (Network \cup Registry)]
    BY <1>6, <2>1 DEF Backup, TypeOK
  <2>5. failed' = failed \/ \E items \in SUBSET {"apt"} : failed' = [failed EXCEPT ![p] = @ \cup items]
    BY <1>6 DEF Backup, NoTemplate
  <2>6. failed' \in [Process -> SUBSET ({"apt"} \cup Network \cup Registry)]
    <3> DEFINE bound == {"apt"} \cup Network \cup Registry
    <3>1. failed \in [Process -> SUBSET bound] /\ \A items \in SUBSET {"apt"} : items \subseteq bound
      BY DEF TypeOK
    <3> HIDE DEF bound
    <3>2. failed' = failed => failed' \in [Process -> SUBSET bound]
      BY <3>1
    <3>3. ASSUME NEW items \in SUBSET {"apt"}, failed' = [failed EXCEPT ![p] = @ \cup items]
          PROVE  failed' \in [Process -> SUBSET bound]
      BY <3>1, <3>3, Grows
    <3>4. failed' \in [Process -> SUBSET bound]
      BY <2>5, <3>2, <3>3
    <3> QED
      BY <3>4 DEF bound
  <2>7. backups' \in [Server -> Seq(Sources)] /\ overwritten' \subseteq Server
    <3>1. UNCHANGED <<backups, overwritten>> \/ Copied(at[p])
      BY <1>6 DEF Backup, NoTemplate
    <3> QED
      BY <2>1, <3>1, Copies DEF TypeOK
  <2>8. UNCHANGED <<sources, nets, root, user, todo, kind, at, item, report, runs,
                    original, disturbed, synced, byHand>>
    BY <1>6 DEF Backup
  <2> QED
    BY <1>r, <2>2, <2>3, <2>4, <2>6, <2>7, <2>8 DEF TypeOK
<1>7. ASSUME NEW p \in Process, Upload(p) PROVE TypeOK'
  <2>1. at[p] \in Server /\ apt[at[p]] \in Template
    BY <1>7 DEF Upload, TypeOK
  <2>2. failures' \in 0..MaxFailures
    BY <1>7 DEF Upload, TypeOK
  <2>3. pc' \in [Process -> Steps]
    BY <1>7 DEF Upload, TypeOK, Steps
  <2>4. sources' \in [Server -> Sources]
    <3>1. PICK c \in AfterFailedUpload(at[p]) \cup {apt[at[p]]} :
            sources' = [sources EXCEPT ![at[p]] = c]
      BY <1>7 DEF Upload
    <3>2. c \in Sources
      BY <2>1 DEF AfterFailedUpload, Sources, TypeOK
    <3> QED
      BY <3>1, <3>2 DEF TypeOK
  <2>5. failed' \in [Process -> SUBSET ({"apt"} \cup Network \cup Registry)]
    <3>1. failed' = failed \/ failed' = [failed EXCEPT ![p] = @ \cup {"apt"}]
      BY <1>7 DEF Upload
    <3> DEFINE bound == {"apt"} \cup Network \cup Registry
    <3>2. failed \in [Process -> SUBSET bound] /\ {"apt"} \subseteq bound
      BY DEF TypeOK
    <3> HIDE DEF bound
    <3>3. failed' \in [Process -> SUBSET bound]
      BY <3>1, <3>2, Grows
    <3> QED
      BY <3>3 DEF bound
  <2> QED
    BY <1>7, <1>r, <2>2, <2>3, <2>4, <2>5 DEF Upload, TypeOK
<1>8. ASSUME NEW p \in Process, Rollback(p) PROVE TypeOK'
  BY <1>8 DEF Rollback, TypeOK, Steps
<1>9. ASSUME NEW p \in Process, Update(p) PROVE TypeOK'
  BY <1>9 DEF Update, TypeOK, Steps
<1>10. ASSUME NEW p \in Process, ListNetworks(p) PROVE TypeOK'
  <2>1. PICK n \in left[p] :
          /\ left' = [left EXCEPT ![p] = left[p] \ {n}]
          /\ pc' = pc \/ pc' = [pc EXCEPT ![p] = "create"]
          /\ item' = item \/ item' = [item EXCEPT ![p] = n]
          /\ \/ failed' = failed
             \/ \E items \in SUBSET {n} : failed' = [failed EXCEPT ![p] = @ \cup items]
    BY <1>10 DEF ListNetworks
  <2>2. n \in Network
    BY <1>10, <2>1 DEF ListNetworks, TypeOK, Located, LocatedAt
  <2>3. /\ left' \in [Process -> SUBSET (Network \cup Registry)]
        /\ item' \in [Process -> Network \cup {None}]
    <3>1. left' \in [Process -> SUBSET (Network \cup Registry)]
      BY <2>1 DEF TypeOK
    <3>2. item' \in [Process -> Network \cup {None}]
      <4>1. item \in [Process -> Network \cup {None}] /\ n \in Network \cup {None}
        BY <2>2 DEF TypeOK
      <4> QED
        BY <2>1, <4>1
    <3> QED
      BY <3>1, <3>2
  <2>4. failed' \in [Process -> SUBSET ({"apt"} \cup Network \cup Registry)]
    <3> DEFINE bound == {"apt"} \cup Network \cup Registry
    <3>1. /\ failed \in [Process -> SUBSET bound]
          /\ \A items \in SUBSET {n} : items \subseteq bound
      BY <2>2 DEF TypeOK
    <3> HIDE DEF bound
    <3>2. failed' \in [Process -> SUBSET bound]
      BY <2>1, <3>1, Grows
    <3> QED
      BY <3>2 DEF bound
  <2>5. pc' \in [Process -> Steps]
    BY <2>1 DEF TypeOK, Steps
  <2>6. failures' \in 0..MaxFailures
    BY <1>10 DEF ListNetworks, TypeOK
  <2> QED
    BY <1>10, <1>r, <2>3, <2>4, <2>5, <2>6 DEF ListNetworks, TypeOK
<1>11. ASSUME NEW p \in Process, CreateNetwork(p) PROVE TypeOK'
  <2>1. at[p] \in Server /\ item[p] \in Network
    BY <1>11 DEF CreateNetwork, TypeOK, Located, LocatedAt
  <2>2. nets' \in [Server -> SUBSET Network]
    <3>1. nets' = nets \/ nets' = [nets EXCEPT ![at[p]] = @ \cup {item[p]}]
      BY <1>11 DEF CreateNetwork
    <3> QED
      <4>1. nets \in [Server -> SUBSET Network] /\ {item[p]} \subseteq Network
        BY <2>1 DEF TypeOK
      <4> QED
        BY <2>1, <3>1, <4>1, Grows
  <2>3. \E items \in SUBSET {item[p]} : failed' = [failed EXCEPT ![p] = @ \cup items]
    BY <1>11 DEF CreateNetwork
  <2>4. failed' \in [Process -> SUBSET ({"apt"} \cup Network \cup Registry)]
    <3> DEFINE bound == {"apt"} \cup Network \cup Registry
    <3>1. /\ failed \in [Process -> SUBSET bound]
          /\ \A items \in SUBSET {item[p]} : items \subseteq bound
      BY <2>1 DEF TypeOK
    <3> HIDE DEF bound
    <3>2. failed' \in [Process -> SUBSET bound]
      BY <2>3, <3>1, Grows
    <3> QED
      BY <3>2 DEF bound
  <2>5. pc' \in [Process -> Steps] /\ item' \in [Process -> Network \cup {None}]
    BY <1>11 DEF CreateNetwork, TypeOK, Steps
  <2>6. failures' \in 0..MaxFailures
    BY <1>11 DEF CreateNetwork, TypeOK
  <2> QED
    BY <1>11, <1>r, <2>2, <2>4, <2>5, <2>6 DEF CreateNetwork, TypeOK
<1>12. ASSUME NEW p \in Process, NetworksDone(p) PROVE TypeOK'
  BY <1>12 DEF NetworksDone, TypeOK, Steps
<1>13. ASSUME NEW p \in Process, SyncRegistry(p) PROVE TypeOK'
  <2>1. PICK r \in left[p] :
          /\ left' = [left EXCEPT ![p] = left[p] \ {r}]
          /\ root' = root \/ root' = [root EXCEPT ![at[p]] = @ \cup {r}]
          /\ \/ failed' = failed
             \/ \E items \in SUBSET {r} : failed' = [failed EXCEPT ![p] = @ \cup items]
    BY <1>13 DEF SyncRegistry
  <2>2. r \in Registry /\ at[p] \in Server
    BY <1>13, <2>1 DEF SyncRegistry, TypeOK, Located, LocatedAt
  <2>3. /\ left' \in [Process -> SUBSET (Network \cup Registry)]
        /\ root' \in [Server -> SUBSET Registry]
    <3>1. left' \in [Process -> SUBSET (Network \cup Registry)]
      BY <2>1 DEF TypeOK
    <3>2. root' \in [Server -> SUBSET Registry]
      <4>1. root \in [Server -> SUBSET Registry] /\ {r} \subseteq Registry
        BY <2>2 DEF TypeOK
      <4> QED
        BY <2>1, <2>2, <4>1, Grows
    <3> QED
      BY <3>1, <3>2
  <2>4. failed' \in [Process -> SUBSET ({"apt"} \cup Network \cup Registry)]
    <3> DEFINE bound == {"apt"} \cup Network \cup Registry
    <3>1. /\ failed \in [Process -> SUBSET bound]
          /\ \A items \in SUBSET {r} : items \subseteq bound
      BY <2>2 DEF TypeOK
    <3> HIDE DEF bound
    <3>2. failed' \in [Process -> SUBSET bound]
      BY <2>1, <3>1, Grows
    <3> QED
      BY <3>2 DEF bound
  <2>5. failures' \in 0..MaxFailures
    BY <1>13, CountsToAfter DEF SyncRegistry, TypeOK
  <2> QED
    BY <1>13, <2>3, <2>4, <2>5 DEF SyncRegistry, TypeOK
<1>14. ASSUME NEW p \in Process, SyncDone(p) PROVE TypeOK'
  BY <1>14 DEF SyncDone, TypeOK, Steps
<1>15. ASSUME NEW v \in Server, EditSources(v) PROVE TypeOK'
  <2>1. PICK c \in First[v] : /\ sources' = [sources EXCEPT ![v] = c]
                           /\ original' = [original EXCEPT ![v] = c]
    BY <1>15 DEF EditSources
  <2>2. c \in Sources
    BY ConfigurationAssumption
  <2>3. byHand' \in 0..MaxByHand
    BY <1>15 DEF EditSources, TypeOK
  <2>4. sources' \in [Server -> Sources] /\ original' \in [Server -> Sources]
    BY <2>1, <2>2 DEF TypeOK
  <2> QED
    BY <1>15, <2>3, <2>4 DEF EditSources, TypeOK
<1>16. ASSUME NEW v \in Server, NEW r \in Registry, LogInByHand(v, r) PROVE TypeOK'
  BY <1>16 DEF LogInByHand, TypeOK
<1>17. CASE UNCHANGED vars
  BY <1>17 DEF vars, TypeOK
<1> QED
  BY <1>1, <1>2, <1>3, <1>4, <1>5, <1>6, <1>7, <1>8, <1>9, <1>10, <1>11, <1>12, <1>13, <1>14,
     <1>15, <1>16, <1>17 DEF Next, Step

\* A step of one run leaves the others where they are.
LEMMA OthersStay ==
  ASSUME TypeOK, NEW p \in Process, Step(p), NEW q \in Process, q # p
  PROVE  /\ at'[q] = at[q] /\ pc'[q] = pc[q] /\ kind'[q] = kind[q]
         /\ left'[q] = left[q] /\ item'[q] = item[q] /\ failed'[q] = failed[q]
         /\ q \notin disturbed' => q \notin disturbed
<1> USE DEF Expect, Fails, Missing, host, result, history, TypeOK
<1>1. CASE Begin(p) \/ Connect(p)
  BY <1>1 DEF Begin, Connect
<1>2. CASE CheckHost(p) \/ CheckRegistries(p) \/ Checked(p)
  BY <1>2 DEF CheckHost, CheckRegistries, Checked
<1>3. CASE Backup(p) \/ Upload(p) \/ Rollback(p) \/ Update(p)
  BY <1>3 DEF Backup, NoTemplate, Upload, Rollback, Update
<1>4. CASE ListNetworks(p) \/ CreateNetwork(p) \/ NetworksDone(p)
  BY <1>4 DEF ListNetworks, CreateNetwork, NetworksDone
<1>5. CASE SyncRegistry(p) \/ SyncDone(p)
  BY <1>5 DEF SyncRegistry, SyncDone
<1> QED
  BY <1>1, <1>2, <1>3, <1>4, <1>5 DEF Step

\* What a step of run p may change on a server: networks and logins stay, the
\* sources are those of the server that p is at.
LEMMA HostKeeps ==
  ASSUME TypeOK, NEW p \in Process, Step(p), NEW v \in Server
  PROVE  /\ nets[v] \subseteq nets'[v] /\ root[v] \subseteq root'[v] /\ user'[v] = user[v]
         /\ sources'[v] = sources[v] \/ (at[p] = v /\ pc[p] \in {"upload", "rollback"})
<1> USE DEF Expect, Fails, Missing, host, result, history
<1>1. user' = user
  BY DEF Step, Begin, Connect, CheckHost, CheckRegistries, Checked, Backup, Upload, Rollback,
         Update, ListNetworks, CreateNetwork, NetworksDone, SyncRegistry, SyncDone
<1>2. nets' = nets \/ nets' = [nets EXCEPT ![at[p]] = @ \cup {item[p]}]
  BY DEF Step, Begin, Connect, CheckHost, CheckRegistries, Checked, Backup, Upload, Rollback,
         Update, ListNetworks, CreateNetwork, NetworksDone, SyncRegistry, SyncDone
<1>3. root' = root \/ \E r \in Registry \cup left[p] : root' = [root EXCEPT ![at[p]] = @ \cup {r}]
  BY DEF Step, Begin, Connect, CheckHost, CheckRegistries, Checked, Backup, Upload, Rollback,
         Update, ListNetworks, CreateNetwork, NetworksDone, SyncRegistry, SyncDone
<1>4. \/ sources' = sources
      \/ pc[p] \in {"upload", "rollback"} /\ \E c : sources' = [sources EXCEPT ![at[p]] = c]
  BY DEF Step, Begin, Connect, CheckHost, CheckRegistries, Checked, Backup, Upload, Rollback,
         Update, ListNetworks, CreateNetwork, NetworksDone, SyncRegistry, SyncDone
<1>5. /\ sources \in [Server -> Sources] /\ nets \in [Server -> SUBSET Network]
      /\ root \in [Server -> SUBSET Registry]
  BY DEF TypeOK
<1>6. nets[v] \subseteq nets'[v]
  BY <1>2, <1>5
<1>7. root[v] \subseteq root'[v]
  BY <1>3, <1>5
<1>8. sources'[v] = sources[v] \/ (at[p] = v /\ pc[p] \in {"upload", "rollback"})
  <2>1. CASE sources' = sources
    BY <2>1
  <2>2. CASE pc[p] \in {"upload", "rollback"} /\ \E c : sources' = [sources EXCEPT ![at[p]] = c]
    <3>1. PICK c : sources' = [sources EXCEPT ![at[p]] = c]
      BY <2>2
    <3>2. at[p] # v => sources'[v] = sources[v]
      BY <1>5, <3>1
    <3> QED
      BY <2>2, <3>2
  <2> QED
    BY <1>4, <2>1, <2>2
<1> QED
  BY <1>1, <1>6, <1>7, <1>8

LEMMA LocatedStep == SInv /\ [Next]_vars => Located'
<1> SUFFICES ASSUME SInv, [Next]_vars PROVE Located'
  OBVIOUS
<1> USE Bounds DEF SInv, Expect, Fails, Missing, host, result, history
<1>1. ASSUME NEW p \in Process, Step(p), LocatedAt(p)' PROVE Located'
  BY <1>1, OthersStay DEF Located, LocatedAt
<1>2. ASSUME NEW p \in Process, Begin(p) PROVE Located'
  <2> LocatedAt(p)'
    BY <1>2 DEF Begin, Located, LocatedAt, SyncSteps, TypeOK
  <2> QED
    BY <1>1, <1>2 DEF Step
<1>3. ASSUME NEW p \in Process, Connect(p) PROVE Located'
  <2> LocatedAt(p)'
    BY <1>3 DEF Connect, Located, LocatedAt, SyncSteps, TypeOK
  <2> QED
    BY <1>1, <1>3 DEF Step
<1>4. ASSUME NEW p \in Process, CheckHost(p) \/ CheckRegistries(p) \/ Checked(p) PROVE Located'
  <2>1. CASE CheckHost(p)
    BY <2>1, <1>1 DEF Step, CheckHost, Located, LocatedAt, SyncSteps, TypeOK
  <2>2. CASE CheckRegistries(p)
    BY <2>2, <1>1 DEF Step, CheckRegistries, Located, LocatedAt, SyncSteps, TypeOK
  <2>3. CASE Checked(p)
    BY <2>3, <1>1 DEF Step, Checked, Located, LocatedAt, SyncSteps, TypeOK
  <2> QED
    BY <1>4, <2>1, <2>2, <2>3
<1>5. ASSUME NEW p \in Process, Backup(p) \/ Upload(p) \/ Rollback(p) \/ Update(p) PROVE Located'
  <2>1. CASE Backup(p)
    BY <2>1, <1>1 DEF Step, Backup, NoTemplate, Located, LocatedAt, SyncSteps, TypeOK
  <2>2. CASE Upload(p)
    BY <2>2, <1>1 DEF Step, Upload, Located, LocatedAt, SyncSteps, TypeOK
  <2>3. CASE Rollback(p)
    BY <2>3, <1>1 DEF Step, Rollback, Located, LocatedAt, SyncSteps, TypeOK
  <2>4. CASE Update(p)
    BY <2>4, <1>1 DEF Step, Update, Located, LocatedAt, SyncSteps, TypeOK
  <2> QED
    BY <1>5, <2>1, <2>2, <2>3, <2>4
<1>6. ASSUME NEW p \in Process, ListNetworks(p) \/ CreateNetwork(p) \/ NetworksDone(p) PROVE Located'
  <2>1. CASE ListNetworks(p)
    BY <2>1, <1>1 DEF Step, ListNetworks, Located, LocatedAt, SyncSteps, TypeOK
  <2>2. CASE CreateNetwork(p)
    BY <2>2, <1>1 DEF Step, CreateNetwork, Located, LocatedAt, SyncSteps, TypeOK
  <2>3. CASE NetworksDone(p)
    BY <2>3, <1>1 DEF Step, NetworksDone, Located, LocatedAt, SyncSteps, TypeOK
  <2> QED
    BY <1>6, <2>1, <2>2, <2>3
<1>7. ASSUME NEW p \in Process, SyncRegistry(p) \/ SyncDone(p) PROVE Located'
  <2>1. CASE SyncRegistry(p)
    BY <2>1, <1>1 DEF Step, SyncRegistry, Located, LocatedAt, SyncSteps, TypeOK
  <2>2. CASE SyncDone(p)
    BY <2>2, <1>1 DEF Step, SyncDone, Located, LocatedAt, SyncSteps, TypeOK
  <2> QED
    BY <1>7, <2>1, <2>2
<1>8. CASE \/ \E v \in Server : EditSources(v)
           \/ \E v \in Server, r \in Registry : LogInByHand(v, r)
           \/ UNCHANGED vars
  BY <1>8 DEF EditSources, LogInByHand, vars, Located, LocatedAt
<1> QED
  BY <1>2, <1>3, <1>4, <1>5, <1>6, <1>7, <1>8 DEF Next, Step

LEMMA AloneStep == SInv /\ [Next]_vars => Alone'
<1> SUFFICES ASSUME SInv, [Next]_vars PROVE Alone'
  OBVIOUS
<1> USE Bounds DEF SInv, Expect, Fails, Missing, host, result, history
\* Steps by which no run arrives at a server and none is done with one.
<1>1. ASSUME disturbed \subseteq disturbed', synced' \subseteq synced,
             \A p \in Process : at'[p] = None \/ (at'[p] = at[p] /\ kind'[p] = kind[p])
      PROVE  Alone'
  BY <1>1 DEF Alone, TypeOK
<1>2. ASSUME NEW p \in Process, Begin(p) PROVE Alone'
  <2>1. \A q \in Process : at'[q] = None \/ (at'[q] = at[q] /\ kind'[q] = kind[q])
    <3>1. at' = at /\ at[p] = None /\ \E k : kind' = [kind EXCEPT ![p] = k]
      BY <1>2 DEF Begin
    <3> QED
      BY <3>1 DEF TypeOK
  <2> QED
    BY <1>1, <1>2, <2>1 DEF Begin
<1>3. ASSUME NEW p \in Process, Connect(p) PROVE Alone'
  <2>1. PICK v \in todo[p] :
          \/ /\ at' = [at EXCEPT ![p] = v]
             /\ disturbed' = IF kind[p] = "check" THEN disturbed
                 ELSE (disturbed \ {p}) \cup Others(p, v)
                        \cup {q \in {p} : Others(p, v) # {}}
             /\ synced' = IF kind[p] = "check" THEN synced ELSE synced \ {v}
          \/ UNCHANGED <<at, disturbed, synced>>
    BY <1>3 DEF Connect
  <2>2. kind' = kind /\ at[p] = None /\ v \in Server
    BY <1>3, <2>1 DEF Connect, TypeOK
  <2>3. CASE UNCHANGED <<at, disturbed, synced>>
    BY <2>2, <2>3, <1>1
  <2>4. CASE kind[p] = "check" /\ at' = [at EXCEPT ![p] = v] /\ UNCHANGED <<disturbed, synced>>
    BY <2>2, <2>4 DEF Alone, TypeOK
  <2>5. CASE /\ kind[p] # "check" /\ at' = [at EXCEPT ![p] = v]
             /\ disturbed' = (disturbed \ {p}) \cup Others(p, v)
                               \cup {q \in {p} : Others(p, v) # {}}
             /\ synced' = synced \ {v}
    <3>1. at'[p] = v /\ \A q \in Process : q # p => at'[q] = at[q]
      BY <2>5 DEF TypeOK
    <3>2. \A q \in Process : at'[q] \in synced' => kind'[q] = "check"
      BY <2>2, <2>5, <3>1 DEF Alone
    <3>3. ASSUME NEW q \in Process, NEW r \in Process,
                 q # r, at'[q] = at'[r], at'[q] # None, kind'[q] # "check", kind'[r] # "check"
          PROVE  q \in disturbed'
      <4>1. CASE q = p
        <5>1. r \in Others(p, v)
          BY <2>2, <3>1, <3>3, <4>1 DEF Others
        <5> QED
          BY <2>5, <4>1, <5>1
      <4>2. CASE r = p
        <5>1. q \in Others(p, v)
          BY <2>2, <3>1, <3>3, <4>2 DEF Others
        <5> QED
          BY <2>5, <5>1
      <4>3. CASE q # p /\ r # p
        BY <2>2, <2>5, <3>1, <3>3, <4>3 DEF Alone
      <4> QED
        BY <4>1, <4>2, <4>3
    <3> QED
      BY <3>2, <3>3 DEF Alone
  <2> QED
    BY <2>1, <2>3, <2>4, <2>5
<1>4. ASSUME NEW p \in Process, CheckHost(p) \/ CheckRegistries(p) \/ Checked(p) PROVE Alone'
  BY <1>4, <1>1 DEF CheckHost, CheckRegistries, Checked, TypeOK
<1>5. ASSUME NEW p \in Process, Backup(p) \/ Upload(p) \/ Rollback(p) \/ Update(p) PROVE Alone'
  BY <1>5, <1>1 DEF Backup, NoTemplate, Upload, Rollback, Update
<1>6. ASSUME NEW p \in Process, ListNetworks(p) \/ CreateNetwork(p) \/ NetworksDone(p) PROVE Alone'
  BY <1>6, <1>1 DEF ListNetworks, CreateNetwork, NetworksDone
<1>7. ASSUME NEW p \in Process, SyncRegistry(p) PROVE Alone'
  BY <1>7, <1>1 DEF SyncRegistry
<1>8. ASSUME NEW p \in Process, SyncDone(p) PROVE Alone'
  <2>1. /\ at'[p] = None /\ \A q \in Process : q # p => at'[q] = at[q]
        /\ kind' = kind /\ disturbed' = disturbed \ {p}
        /\ synced' = synced \/ (synced' = synced \cup {at[p]} /\ p \notin disturbed)
    <3>1. at' = [at EXCEPT ![p] = None] /\ at \in [Process -> Server \cup {None}]
      BY <1>8 DEF SyncDone, TypeOK
    <3>2. /\ kind' = kind /\ disturbed' = disturbed \ {p}
          /\ synced' = synced \/ (synced' = synced \cup {at[p]} /\ p \notin disturbed)
      BY <1>8 DEF SyncDone
    <3> QED
      BY <3>1, <3>2
  <2>2. at[p] # None /\ kind[p] # "check" /\ None \notin synced'
    BY <1>8, <2>1 DEF SyncDone, Located, LocatedAt, SyncSteps, TypeOK
  <2>3. \A q \in Process : at'[q] \in synced' => kind'[q] = "check"
    BY <2>1, <2>2 DEF Alone
  <2> QED
    BY <2>1, <2>3 DEF Alone
<1>9. ASSUME NEW v \in Server, EditSources(v) PROVE Alone'
  BY <1>9, <1>1 DEF EditSources
<1>10. CASE (\E v \in Server, r \in Registry : LogInByHand(v, r)) \/ UNCHANGED vars
  BY <1>10, <1>1 DEF LogInByHand, vars
<1> QED
  BY <1>2, <1>3, <1>4, <1>5, <1>6, <1>7, <1>8, <1>9, <1>10 DEF Next, Step

-----------------------------------------------------------------------------
(* What is right on a server stays right as long as its sources do. *)

LEMMA StaysRight ==
  ASSUME NEW v, nets[v] \subseteq nets'[v], root[v] \subseteq root'[v], user[v] \subseteq user'[v]
  PROVE  /\ \A r : LoginRight(v, r) => LoginRight(v, r)'
         /\ sources'[v] = sources[v] => (SourcesRight(v) => SourcesRight(v)')
         /\ sources'[v] = sources[v] => (AllRight(v) => AllRight(v)')
<1>1. ASSUME NEW r, LoginRight(v, r) PROVE LoginRight(v, r)'
  BY <1>1 DEF LoginRight, IsRegistryLoggedIn
<1>2. sources'[v] = sources[v] => (SourcesRight(v) => SourcesRight(v)')
  BY DEF SourcesRight
<1> QED
  BY <1>1, <1>2 DEF AllRight, Ready

\* A run that is not disturbed has established what it had when another run, or the
\* administrator, has changed no sources there.
LEMMA StaysEstablished ==
  ASSUME SInv, NEW q \in Process, NEW v, Established(q, v),
         pc'[q] = pc[q], left'[q] = left[q], item'[q] = item[q],
         nets[v] \subseteq nets'[v], root[v] \subseteq root'[v], user[v] \subseteq user'[v],
         sources'[v] = sources[v] \/ pc[q] \notin SyncSteps
  PROVE  Established(q, v)'
<1>1. \A r : LoginRight(v, r) => LoginRight(v, r)'
  BY StaysRight
<1>2. CASE pc[q] \notin SyncSteps
  BY <1>2 DEF Established, SyncSteps
<1>3. CASE sources'[v] = sources[v]
  <2>1. SourcesRight(v) => SourcesRight(v)'
    BY <1>3, StaysRight
  <2> QED
    BY <1>1, <2>1 DEF Established, Ready
<1> QED
  BY <1>2, <1>3

LEMMA OthersStayEstablished ==
  ASSUME SInv, NEW p \in Process, Step(p), NEW q \in Process, q # p,
         NEW v \in Server, at'[q] = v, q \notin disturbed', failed'[q] = {}
  PROVE  Established(q, v)'
<1>1. /\ at[q] = v /\ pc'[q] = pc[q] /\ left'[q] = left[q] /\ item'[q] = item[q]
      /\ q \notin disturbed /\ failed[q] = {}
  BY OthersStay DEF SInv
<1>2. Established(q, v) /\ v # None
  BY <1>1, Bounds DEF SInv, SoFarSoGood
<1>3. /\ nets[v] \subseteq nets'[v] /\ root[v] \subseteq root'[v] /\ user'[v] = user[v]
      /\ sources'[v] = sources[v] \/ (at[p] = v /\ pc[p] \in {"upload", "rollback"})
  BY HostKeeps DEF SInv
<1>4. at[p] = v /\ pc[p] \in {"upload", "rollback"} => pc[q] \notin SyncSteps
  <2>1. pc[p] \in {"upload", "rollback"} => kind[p] # "check"
    BY DEF SInv, Located, LocatedAt, SyncSteps
  <2>2. pc[q] \in SyncSteps => kind[q] # "check"
    BY DEF SInv, Located, LocatedAt
  <2> QED
    BY <1>1, <1>2, <2>1, <2>2 DEF SInv, Alone
<1> QED
  BY <1>1, <1>2, <1>3, <1>4, StaysEstablished

\* A server that is synced has no sync at it that could change its sources.
LEMMA SyncedStays ==
  ASSUME SInv, NEW p \in Process, Step(p), NEW v \in synced
  PROVE  AllRight(v)'
<1>1. v \in Server /\ AllRight(v)
  BY DEF SInv, SoFarSoGood, TypeOK
<1>2. at[p] = v => pc[p] \notin {"upload", "rollback"}
  BY DEF SInv, Alone, Located, LocatedAt, SyncSteps
<1>3. /\ nets[v] \subseteq nets'[v] /\ root[v] \subseteq root'[v] /\ user'[v] = user[v]
      /\ sources'[v] = sources[v]
  BY <1>1, <1>2, HostKeeps DEF SInv
<1> QED
  BY <1>1, <1>3, StaysRight

\* A command that was carried out had what it needs.
LEMMA DoneIsReady ==
  ASSUME NEW v, NEW needs, Answers(v, needs, "done")
  PROVE  needs \subseteq tools[v]
BY DEF Answers, AnswersAfter

\* What a run that is alone and without a failure has established after its own steps.
LEMMA OwnStep ==
  ASSUME SInv, NEW p \in Process, Step(p), ~Connect(p),
         NEW v \in Server, at'[p] = v, p \notin disturbed', failed'[p] = {}
  PROVE  Established(p, v)'
<1> USE Bounds DEF SInv, Expect, Fails, Missing, host, result, history
<1>v. v # None
  OBVIOUS
<1>f. ASSUME NEW items, failed' = [failed EXCEPT ![p] = @ \cup items] PROVE items = {}
  <2>1. failed'[p] = failed[p] \cup items
    BY <1>f DEF TypeOK
  <2> QED
    BY <2>1
<1>1. CASE Begin(p) \/ SyncDone(p)
  BY <1>1, <1>v DEF Begin, SyncDone, TypeOK
<1>2. CASE CheckHost(p) \/ CheckRegistries(p) \/ Checked(p)
  <2>1. pc'[p] \in {"next", "logins", "backup"}
    BY <1>2 DEF CheckHost, CheckRegistries, Checked, TypeOK
  <2> QED
    BY <2>1 DEF Established
<1>3. CASE Backup(p)
  <2>1. at[p] = v /\ sources' = sources /\ left'[p] = Wanted(v)
    BY <1>3 DEF Backup, TypeOK
  <2>2. CASE NoTemplate(p)
    <3>1. /\ apt[v] \notin Template /\ pc'[p] = "networks"
          /\ failed' = [failed EXCEPT ![p] = @ \cup IF apt[v] = "other" THEN {"apt"} ELSE {}]
      BY <2>1, <2>2 DEF NoTemplate, TypeOK
    <3>2. apt[v] # "other"
      BY <3>1, <1>f
    <3> QED
      BY <2>1, <3>1, <3>2 DEF Established, SourcesRight
  <2>3. CASE ~NoTemplate(p)
    <3>1. \/ pc' = [pc EXCEPT ![p] = "upload"]
          \/ failed' = [failed EXCEPT ![p] = @ \cup {"apt"}]
      BY <1>3, <2>3 DEF Backup
    <3>2. pc'[p] = "upload"
      BY <3>1, <1>f DEF TypeOK
    <3> QED
      BY <2>1, <3>2 DEF Established
  <2> QED
    BY <2>2, <2>3
<1>4. CASE Upload(p)
  <2>1. /\ at[p] = v /\ left'[p] = left[p] /\ pc[p] = "upload"
        /\ failed[p] = {} /\ p \notin disturbed /\ apt[v] \in Template
    BY <1>4 DEF Upload, TypeOK
  <2>2. pc'[p] = "update" /\ sources' = [sources EXCEPT ![v] = apt[v]]
    <3>1. \/ pc' = [pc EXCEPT ![p] = "update"] /\ sources' = [sources EXCEPT ![v] = apt[v]]
          \/ failed' = [failed EXCEPT ![p] = @ \cup {"apt"}]
      BY <1>4, <2>1 DEF Upload
    <3> QED
      BY <3>1, <1>f DEF TypeOK
  <2>3. sources'[v] = apt[v] /\ apt[v] # "other"
    BY <2>1, <2>2 DEF TypeOK, Template
  <2>4. left[p] = Wanted(v)
    BY <2>1 DEF SoFarSoGood, Established
  <2> QED
    BY <2>1, <2>2, <2>3, <2>4 DEF Established, SourcesRight
<1>5. CASE Rollback(p)
  BY <1>5 DEF Rollback, SoFarSoGood, Established
<1>6. CASE Update(p)
  <2>1. /\ at[p] = v /\ left' = left /\ pc[p] = "update"
        /\ sources' = sources /\ failed[p] = {} /\ p \notin disturbed /\ pc'[p] = "networks"
    BY <1>6 DEF Update, TypeOK
  <2>2. left[p] = Wanted(v) /\ SourcesRight(v)
    BY <2>1 DEF SoFarSoGood, Established
  <2> QED
    BY <2>1, <2>2 DEF Established, SourcesRight
<1>7. CASE ListNetworks(p)
  <2>1. /\ at[p] = v /\ pc[p] = "networks"
        /\ UNCHANGED <<sources, nets>> /\ failed[p] = {} /\ p \notin disturbed
    BY <1>7 DEF ListNetworks, TypeOK
  <2>2. /\ Wanted(v) \ left[p] \subseteq nets[v] /\ SourcesRight(v)
    BY <2>1 DEF SoFarSoGood, Established
  <2>3. PICK n \in left[p] :
          /\ Answers(v, {"sudo", "docker"}, "done")
          /\ left' = [left EXCEPT ![p] = left[p] \ {n}]
          /\ \/ /\ pc' = [pc EXCEPT ![p] = "create"] /\ item' = [item EXCEPT ![p] = n]
             \/ /\ n \in nets[v] /\ pc' = pc
    <3>1. PICK n \in left[p], o \in {"done", "refused"} :
            /\ Answers(v, {"sudo", "docker"}, o)
            /\ left' = [left EXCEPT ![p] = left[p] \ {n}]
            /\ IF o = "done" /\ n \notin nets[v]
                 THEN pc' = [pc EXCEPT ![p] = "create"] /\ item' = [item EXCEPT ![p] = n]
                 ELSE /\ pc' = pc
                      /\ failed' = [failed EXCEPT ![p] = @ \cup IF o = "done" THEN {} ELSE {n}]
      BY <1>7, <2>1 DEF ListNetworks
    <3>2. o = "done"
      BY <3>1, <1>f
    <3> QED
      BY <3>1, <3>2
  <2>4. Ready(v) /\ left'[p] = left[p] \ {n}
    BY <2>3, DoneIsReady DEF Ready, TypeOK
  <2>5. SourcesRight(v)'
    BY <2>1, <2>2 DEF SourcesRight
  <2>6. CASE pc' = [pc EXCEPT ![p] = "create"] /\ item' = [item EXCEPT ![p] = n]
    <3>1. pc'[p] = "create" /\ item'[p] = n
      BY <2>6 DEF TypeOK
    <3> QED
      BY <2>1, <2>2, <2>4, <2>5, <3>1 DEF Established, Ready
  <2>7. CASE n \in nets[v] /\ pc' = pc
    BY <2>1, <2>2, <2>4, <2>5, <2>7 DEF Established, Ready
  <2> QED
    BY <2>3, <2>6, <2>7
<1>8. CASE CreateNetwork(p)
  <2>1. /\ at[p] = v /\ left' = left /\ pc[p] = "create"
        /\ sources' = sources /\ failed[p] = {} /\ p \notin disturbed /\ pc'[p] = "networks"
    BY <1>8 DEF CreateNetwork, TypeOK
  <2>2. /\ Wanted(v) \ (left[p] \cup {item[p]}) \subseteq nets[v] /\ SourcesRight(v) /\ Ready(v)
    BY <2>1 DEF SoFarSoGood, Established
  <2>3. nets' = [nets EXCEPT ![v] = @ \cup {item[p]}]
    <3>1. \/ failed' = [failed EXCEPT ![p] = @ \cup {item[p]}]
          \/ \E o \in Outcome :
               /\ nets' = IF Happened(o) THEN [nets EXCEPT ![v] = @ \cup {item[p]}] ELSE nets
               /\ failed' = [failed EXCEPT ![p] = @ \cup IF o = "done" THEN {} ELSE {item[p]}]
      BY <1>8, <2>1 DEF CreateNetwork
    <3>2. PICK o \in Outcome :
            /\ nets' = IF Happened(o) THEN [nets EXCEPT ![v] = @ \cup {item[p]}] ELSE nets
            /\ failed' = [failed EXCEPT ![p] = @ \cup IF o = "done" THEN {} ELSE {item[p]}]
      BY <3>1, <1>f
    <3>3. o = "done"
      BY <3>2, <1>f
    <3> QED
      BY <3>2, <3>3 DEF Happened
  <2>4. nets'[v] = nets[v] \cup {item[p]}
    BY <2>1, <2>3 DEF TypeOK
  <2> QED
    BY <2>1, <2>2, <2>4 DEF Established, SourcesRight, Ready
<1>9. CASE NetworksDone(p)
  <2>1. /\ at[p] = v /\ left[p] = {} /\ pc[p] = "networks"
        /\ UNCHANGED <<sources, nets>> /\ failed[p] = {} /\ p \notin disturbed
        /\ pc'[p] = "registries" /\ left'[p] = registries[v]
    BY <1>9 DEF NetworksDone, TypeOK
  <2>2. Wanted(v) # {}
    BY DEF Wanted
  <2>3. Wanted(v) \subseteq nets[v] /\ SourcesRight(v) /\ Ready(v)
    BY <2>1, <2>2 DEF SoFarSoGood, Established
  <2> QED
    BY <2>1, <2>3 DEF Established, SourcesRight, Ready
<1>10. CASE SyncRegistry(p)
  <2>1. /\ at[p] = v /\ pc[p] = "registries" /\ pc' = pc
        /\ UNCHANGED <<sources, nets, user>> /\ failed[p] = {} /\ p \notin disturbed
    BY <1>10 DEF SyncRegistry, TypeOK
  <2>2. /\ Wanted(v) \subseteq nets[v] /\ SourcesRight(v) /\ Ready(v)
        /\ \A r \in registries[v] \ left[p] : LoginRight(v, r)
    BY <2>1 DEF SoFarSoGood, Established
  <2>3. PICK r \in left[p] :
          /\ left' = [left EXCEPT ![p] = left[p] \ {r}] /\ r \in Configured
          /\ \/ IsRegistryLoggedIn(r, user[v]) /\ root' = root
             \/ root' = [root EXCEPT ![v] = @ \cup {r}]
    <3>1. PICK r \in left[p] :
            /\ left' = [left EXCEPT ![p] = left[p] \ {r}]
            /\ \/ failed' = [failed EXCEPT ![p] = @ \cup {r}]
               \/ r \in Configured /\ IsRegistryLoggedIn(r, user[v]) /\ root' = root
               \/ /\ r \in Configured
                  /\ \E o \in Outcome :
                       /\ root' = IF Happened(o) THEN [root EXCEPT ![v] = @ \cup {r}] ELSE root
                       /\ failed' = [failed EXCEPT ![p] = @ \cup IF o = "done" THEN {} ELSE {r}]
      BY <1>10, <2>1 DEF SyncRegistry
    <3>2. CASE r \in Configured /\ IsRegistryLoggedIn(r, user[v]) /\ root' = root
      BY <3>1, <3>2
    <3>3. ASSUME NEW o \in Outcome, r \in Configured,
                 root' = IF Happened(o) THEN [root EXCEPT ![v] = @ \cup {r}] ELSE root,
                 failed' = [failed EXCEPT ![p] = @ \cup IF o = "done" THEN {} ELSE {r}]
          PROVE  root' = [root EXCEPT ![v] = @ \cup {r}]
      <4>1. o = "done"
        BY <3>3, <1>f
      <4> QED
        BY <3>3, <4>1 DEF Happened
    <3>4. failed' # [failed EXCEPT ![p] = @ \cup {r}]
      BY <1>f
    <3> QED
      BY <3>1, <3>2, <3>3, <3>4
  <2>4. left'[p] = left[p] \ {r} /\ root[v] \subseteq root'[v]
    BY <2>1, <2>3 DEF TypeOK
  <2>5. LoginRight(v, r)'
    <3>1. CASE IsRegistryLoggedIn(r, user[v])
      BY <2>1, <2>3, <3>1 DEF LoginRight
    <3>2. CASE root' = [root EXCEPT ![v] = @ \cup {r}]
      <4>1. r \in root'[v]
        BY <2>1, <3>2 DEF TypeOK
      <4> QED
        BY <2>3, <4>1 DEF LoginRight, IsRegistryLoggedIn
    <3> QED
      BY <2>3, <3>1, <3>2
  <2>6. \A s \in registries[v] \ left[p] : LoginRight(v, s)'
    BY <2>1, <2>2, <2>4, StaysRight
  <2>7. SourcesRight(v)'
    BY <2>1, <2>2 DEF SourcesRight
  <2> QED
    BY <2>1, <2>2, <2>4, <2>5, <2>6, <2>7 DEF Established, Ready
<1> QED
  BY <1>1, <1>2, <1>3, <1>4, <1>5, <1>6, <1>7, <1>8, <1>9, <1>10 DEF Step

\* What the administrator does changes the sources of a server only where he
\* disturbs the runs that are there.
LEMMA ByHandStep ==
  ASSUME SInv,
         UNCHANGED <<nets, root, at, pc, left, item, failed>>,
         user' = user \/ \E v \in Server, r \in Registry : user' = [user EXCEPT ![v] = @ \cup {r}],
         disturbed \subseteq disturbed', synced' \subseteq synced,
         \A v \in Server : \/ sources'[v] = sources[v]
                           \/ v \notin synced' /\ \A p \in Process : at[p] = v => p \in disturbed'
  PROVE  SoFarSoGood'
<1>1. \A v \in Server : user[v] \subseteq user'[v]
  <2>1. user \in [Server -> SUBSET Registry]
    BY DEF SInv, TypeOK
  <2> QED
    BY <2>1
<1>2. ASSUME NEW p \in Process, at[p] # None, p \notin disturbed', failed[p] = {}
      PROVE  Established(p, at[p])'
  <2>1. PICK v \in Server : at[p] = v
    BY <1>2 DEF SInv, TypeOK
  <2>2. Established(p, v) /\ sources'[v] = sources[v]
    BY <1>2, <2>1 DEF SInv, SoFarSoGood
  <2>3. Established(p, v)'
    BY <1>1, <2>2, StaysEstablished
  <2> QED
    BY <2>1, <2>3
<1>3. ASSUME NEW v \in synced' PROVE AllRight(v)'
  <2>1. v \in Server /\ AllRight(v) /\ sources'[v] = sources[v]
    BY DEF SInv, SoFarSoGood, TypeOK
  <2> QED
    BY <1>1, <2>1, StaysRight
<1> QED
  BY <1>2, <1>3 DEF SoFarSoGood

LEMMA SoFarSoGoodStep == SInv /\ [Next]_vars => SoFarSoGood'
<1> SUFFICES ASSUME SInv, [Next]_vars PROVE SoFarSoGood'
  OBVIOUS
<1> USE DEF host, result, history
<1>1. ASSUME NEW p \in Process, Step(p) PROVE SoFarSoGood'
  <2>1. at' \in [Process -> Server \cup {None}]
    <3>0. at \in [Process -> Server \cup {None}]
      BY DEF SInv, TypeOK
    <3>1. CASE Connect(p)
      <4>1. todo[p] \subseteq Server
        BY DEF SInv, TypeOK
      <4>2. at' = at \/ \E v \in todo[p] : at' = [at EXCEPT ![p] = v]
        BY <3>1 DEF Connect
      <4> QED
        BY <3>0, <4>1, <4>2
    <3>2. CASE Checked(p) \/ SyncDone(p)
      <4>1. at' = at \/ at' = [at EXCEPT ![p] = None]
        BY <3>2 DEF Checked, SyncDone
      <4> QED
        BY <3>0, <4>1
    <3>3. CASE Begin(p) \/ CheckHost(p) \/ CheckRegistries(p) \/ Backup(p) \/ Upload(p)
      BY <3>0, <3>3 DEF Begin, CheckHost, CheckRegistries, Backup, Upload
    <3>4. CASE Rollback(p) \/ Update(p) \/ ListNetworks(p) \/ CreateNetwork(p)
               \/ NetworksDone(p) \/ SyncRegistry(p)
      BY <3>0, <3>4 DEF Rollback, Update, ListNetworks, CreateNetwork, NetworksDone,
         SyncRegistry
    <3> QED
      BY <1>1, <3>1, <3>2, <3>3, <3>4 DEF Step
  <2>2. ASSUME NEW v \in Server, at'[p] = v, p \notin disturbed', failed'[p] = {}
        PROVE  Established(p, v)'
    <3>1. CASE Connect(p)
      <4>1. /\ pc' = [pc EXCEPT ![p] = IF kind[p] = "sync" THEN "backup" ELSE "host"]
            /\ pc \in [Process -> Steps]
        BY <2>2, <3>1, Bounds DEF Connect, SInv, TypeOK
      <4>2. pc'[p] \in {"backup", "host"}
        BY <4>1
      <4> QED
        BY <4>2 DEF Established
    <3> QED
      BY <1>1, <2>2, <3>1, OwnStep
  <2>3. ASSUME NEW q \in Process, at'[q] # None, q \notin disturbed', failed'[q] = {}
        PROVE  Established(q, at[q])'
    <3>1. PICK v \in Server : at'[q] = v
      BY <2>1, <2>3
    <3>2. Established(q, v)'
      BY <1>1, <2>2, <2>3, <3>1, OthersStayEstablished
    <3> QED
      BY <3>1, <3>2
  <2>4. ASSUME NEW v \in synced' PROVE AllRight(v)'
    <3>1. CASE v \in synced
      BY <1>1, <3>1, SyncedStays
    <3>2. CASE v \notin synced
      <4>1. SyncDone(p)
        BY <1>1, <3>2 DEF Step, Begin, Connect, CheckHost, CheckRegistries, Checked, Backup,
           Upload, Rollback, Update, ListNetworks, CreateNetwork, NetworksDone, SyncRegistry
      <4>2. /\ at[p] = v /\ v # None /\ failed[p] = {} /\ p \notin disturbed
            /\ pc[p] = "registries" /\ left[p] = {} /\ UNCHANGED <<sources, nets, root, user>>
        BY <3>2, <4>1 DEF SyncDone
      <4>3. Established(p, v)
        BY <4>2 DEF SInv, SoFarSoGood
      <4>4. AllRight(v)
        BY <4>2, <4>3 DEF Established, AllRight
      <4> QED
        BY <4>2, <4>4, StaysRight
    <3> QED
      BY <3>1, <3>2
  <2> QED
    BY <2>3, <2>4 DEF SoFarSoGood
<1>2. ASSUME NEW v \in Server, EditSources(v) PROVE SoFarSoGood'
  <2>1. \A w \in Server : \/ sources'[w] = sources[w]
                          \/ w = v
    BY <1>2 DEF EditSources, SInv, TypeOK
  <2> QED
    BY <1>2, <2>1, ByHandStep DEF EditSources
<1>3. ASSUME NEW v \in Server, NEW r \in Registry, LogInByHand(v, r) PROVE SoFarSoGood'
  BY <1>3, ByHandStep DEF LogInByHand
<1>4. CASE UNCHANGED vars
  BY <1>4, ByHandStep DEF vars
<1> QED
  BY <1>1, <1>2, <1>3, <1>4 DEF Next

LEMMA SInvStep == IInv /\ SInv /\ [Next]_vars => SInv'
BY TypesStep, LocatedStep, AloneStep, SoFarSoGoodStep DEF SInv

\* What a run knows of the networks of the server it is at: those it has been
\* through are there, or will be reported.
NetworksAt(p) ==
  /\ pc[p] \in {"upload", "rollback", "update"} => left[p] = Wanted(at[p])
  /\ pc[p] = "networks" => Wanted(at[p]) \ left[p] \subseteq nets[at[p]] \cup failed[p]
  /\ pc[p] = "create" =>
       Wanted(at[p]) \ (left[p] \cup {item[p]}) \subseteq nets[at[p]] \cup failed[p]
  /\ pc[p] = "registries" => Wanted(at[p]) \subseteq nets[at[p]] \cup failed[p]

NInv == \A p \in Process : at[p] # None => NetworksAt(p)

\* What a run knows of the networks after its own step.
LEMMA OwnNetworks ==
  ASSUME SInv, NEW p \in Process, at[p] # None => NetworksAt(p), Step(p), at'[p] # None
  PROVE  NetworksAt(p)'
<1> USE DEF SInv, Expect, Fails, Missing, host, result, history
<1>1. CASE Begin(p) \/ SyncDone(p)
  BY <1>1 DEF Begin, SyncDone, TypeOK
<1>2. CASE Connect(p)
  <2>1. \/ pc' = pc /\ at' = at
        \/ \E step \in {"backup", "host"} : pc' = [pc EXCEPT ![p] = step]
    BY <1>2 DEF Connect
  <2>2. pc'[p] \in {"backup", "host"}
    BY <1>2, <2>1 DEF Connect, TypeOK
  <2> QED
    BY <2>2 DEF NetworksAt
<1>3. CASE CheckHost(p) \/ CheckRegistries(p) \/ Checked(p)
  <2>1. pc'[p] \in {"next", "logins", "backup"}
    BY <1>3 DEF CheckHost, CheckRegistries, Checked, TypeOK
  <2> QED
    BY <2>1 DEF NetworksAt
<1>4. CASE Backup(p)
  <2>1. \E step \in {"upload", "networks"} : pc' = [pc EXCEPT ![p] = step]
    BY <1>4 DEF Backup, NoTemplate
  <2>2. pc'[p] \in {"upload", "networks"} /\ at' = at /\ left'[p] = Wanted(at[p])
    BY <1>4, <2>1 DEF Backup, TypeOK
  <2> QED
    BY <2>2 DEF NetworksAt
<1>5. CASE Upload(p) \/ Rollback(p) \/ Update(p)
  <2>1. \E step \in {"update", "rollback", "networks"} : pc' = [pc EXCEPT ![p] = step]
    BY <1>5 DEF Upload, Rollback, Update
  <2>2. /\ pc[p] \in {"upload", "rollback", "update"} /\ UNCHANGED <<at, left>>
        /\ at[p] # None
    BY <1>5 DEF Upload, Rollback, Update
  <2>3. pc'[p] \in {"update", "rollback", "networks"} /\ left[p] = Wanted(at[p])
    BY <2>1, <2>2 DEF NetworksAt, TypeOK
  <2> QED
    BY <2>2, <2>3 DEF NetworksAt
<1>6. CASE ListNetworks(p)
  <2>1. PICK n \in left[p], o \in {"done", "refused"} :
          /\ left' = [left EXCEPT ![p] = left[p] \ {n}]
          /\ IF o = "done" /\ n \notin nets[at[p]]
               THEN /\ pc' = [pc EXCEPT ![p] = "create"] /\ item' = [item EXCEPT ![p] = n]
                    /\ UNCHANGED failed
               ELSE /\ UNCHANGED <<pc, item>>
                    /\ failed' = [failed EXCEPT ![p] = @ \cup IF o = "done" THEN {} ELSE {n}]
    BY <1>6 DEF ListNetworks
  <2>2. /\ pc[p] = "networks" /\ UNCHANGED <<at, nets>> /\ left'[p] = left[p] \ {n}
        /\ Wanted(at[p]) \ left[p] \subseteq nets[at[p]] \cup failed[p]
    BY <1>6, <2>1 DEF ListNetworks, NetworksAt, TypeOK
  <2>3. CASE o = "done" /\ n \notin nets[at[p]]
    <3>1. pc'[p] = "create" /\ item'[p] = n /\ failed' = failed
      BY <2>1, <2>3 DEF TypeOK
    <3> QED
      BY <2>2, <3>1 DEF NetworksAt
  <2>4. CASE ~(o = "done" /\ n \notin nets[at[p]])
    <3>1. pc' = pc /\ n \in nets[at[p]] \cup failed'[p] /\ failed[p] \subseteq failed'[p]
      BY <2>1, <2>4 DEF TypeOK
    <3> QED
      BY <2>2, <3>1 DEF NetworksAt
  <2> QED
    BY <2>3, <2>4
<1>7. CASE CreateNetwork(p)
  <2>1. /\ pc[p] = "create" /\ pc' = [pc EXCEPT ![p] = "networks"] /\ UNCHANGED <<at, left>>
        /\ Wanted(at[p]) \ (left[p] \cup {item[p]}) \subseteq nets[at[p]] \cup failed[p]
        /\ at[p] \in Server
    BY <1>7 DEF CreateNetwork, NetworksAt, TypeOK
  <2>2. \/ nets' = nets /\ failed' = [failed EXCEPT ![p] = @ \cup {item[p]}]
        \/ /\ nets' = [nets EXCEPT ![at[p]] = @ \cup {item[p]}]
           /\ \E items : failed' = [failed EXCEPT ![p] = @ \cup items]
    BY <1>7 DEF CreateNetwork, Happened, Outcome
  <2>3. /\ item[p] \in nets'[at[p]] \cup failed'[p]
        /\ nets[at[p]] \subseteq nets'[at[p]] /\ failed[p] \subseteq failed'[p]
    BY <2>1, <2>2 DEF TypeOK
  <2>4. pc'[p] = "networks"
    BY <2>1 DEF TypeOK
  <2> QED
    BY <2>1, <2>3, <2>4 DEF NetworksAt
<1>8. CASE NetworksDone(p)
  <2>1. /\ pc[p] = "networks" /\ left[p] = {} /\ UNCHANGED <<at, nets, failed>>
        /\ pc' = [pc EXCEPT ![p] = "registries"] /\ at[p] # None
    BY <1>8 DEF NetworksDone
  <2>2. pc'[p] = "registries" /\ Wanted(at[p]) \subseteq nets[at[p]] \cup failed[p]
    BY <2>1 DEF NetworksAt, TypeOK
  <2> QED
    BY <2>1, <2>2 DEF NetworksAt
<1>9. CASE SyncRegistry(p)
  <2>1. /\ pc[p] = "registries" /\ UNCHANGED <<at, pc, nets>> /\ at[p] # None
        /\ failed' = failed \/ \E items : failed' = [failed EXCEPT ![p] = @ \cup items]
    BY <1>9 DEF SyncRegistry
  <2>2. failed[p] \subseteq failed'[p] /\ Wanted(at[p]) \subseteq nets[at[p]] \cup failed[p]
    BY <2>1 DEF NetworksAt, TypeOK
  <2> QED
    BY <2>1, <2>2 DEF NetworksAt
<1> QED
  BY <1>1, <1>2, <1>3, <1>4, <1>5, <1>6, <1>7, <1>8, <1>9 DEF Step

LEMMA NInvStep == SInv /\ NInv /\ [Next]_vars => NInv'
<1> SUFFICES ASSUME SInv, NInv, [Next]_vars, NEW q \in Process, at'[q] # None
    PROVE  NetworksAt(q)'
  BY DEF NInv
<1>1. ASSUME NEW p \in Process, Step(p) PROVE NetworksAt(q)'
  <2>1. CASE q = p
    BY <1>1, <2>1, OwnNetworks DEF NInv
  <2>2. CASE q # p
    <3>1. /\ at'[q] = at[q] /\ pc'[q] = pc[q] /\ left'[q] = left[q]
          /\ item'[q] = item[q] /\ failed'[q] = failed[q]
      BY <1>1, <2>2, OthersStay DEF SInv
    <3>2. at[q] \in Server /\ nets[at[q]] \subseteq nets'[at[q]]
      BY <1>1, <3>1, HostKeeps DEF SInv, TypeOK
    <3> QED
      BY <3>1, <3>2 DEF NInv, NetworksAt
  <2> QED
    BY <2>1, <2>2
<1>2. CASE (\E v \in Server : EditSources(v)) \/ \E v \in Server, r \in Registry : LogInByHand(v, r)
  BY <1>2 DEF EditSources, LogInByHand, result, NInv, NetworksAt
<1>3. CASE UNCHANGED vars
  BY <1>3 DEF vars, host, result, NInv, NetworksAt
<1> QED
  BY <1>1, <1>2, <1>3 DEF Next

\* A run that is done with the networks of a server has found or made each of them,
\* or will report it as failed, with any number of runs making the same networks.
THEOREM NetworksAreAccountedFor == Spec => []NetworksAreThereOrReported
<1>1. Init => NInv
  BY DEF Init, NInv
<1>2. SInv /\ NInv => NetworksAreThereOrReported
  BY DEF SInv, Located, LocatedAt, NInv, NetworksAt, NetworksAreThereOrReported
<1> QED
  BY <1>1, <1>2, NInvStep, Initially, InvStep, SInitially, SInvStep, PTL DEF Spec

\* What the variables hold, with any number of servers and of runs at once.
THEOREM TypeCorrect == Spec => []TypeOK
<1>1. SInv => TypeOK
  BY DEF SInv
<1> QED
  BY <1>1, Initially, InvStep, SInitially, SInvStep, PTL DEF Spec

\* What a sync of a server that nobody else was at has reported as a success is there
\* as far as a check would see it, whatever other runs have done since.
THEOREM SyncIsWhatACheckSees == Spec => []SyncedChecksOut
<1>1. SInv => SyncedChecksOut
  <2> SUFFICES ASSUME SInv, NEW v \in synced, AllRight(v)
      PROVE  /\ Ready(v) /\ SourcesRight(v) /\ Wanted(v) \subseteq nets[v]
             /\ apt[v] \in {"tuna", "aliyun"} /\ extra[v] \notin Template
                  => Detected({sources[v], extra[v]}) = apt[v]
             /\ \A r \in registries[v] : LoginRight(v, r)
    BY DEF SInv, SoFarSoGood, SyncedChecksOut, Ready, SourcesRight, LoginRight
  <2>1. ASSUME apt[v] \in {"tuna", "aliyun"}, extra[v] \notin Template
        PROVE  Detected({sources[v], extra[v]}) = apt[v]
    <3>1. sources[v] = apt[v] /\ extra[v] \notin {"tuna", "aliyun"}
      BY <2>1 DEF AllRight, SourcesRight, Template
    <3> QED
      BY <2>1, <3>1 DEF Detected
  <2> QED
    BY <2>1 DEF AllRight
<1> QED
  BY <1>1, Initially, InvStep, SInitially, SInvStep, PTL DEF Spec
=============================================================================
