--------------------------- MODULE TerminalUIProofs ---------------------------
(***************************************************************************)
(* The terminal interface shows and applies what its operator meant, for   *)
(* plans, lists and sessions of any length.                                *)
(***************************************************************************)
EXTENDS TerminalUI, FiniteSetTheorems, TLAPS

Alive == view \in View

\* A job has its types, and its number tells an apply from a command and the
\* first load from both.
JobTyped(j) ==
  /\ j = [id |-> j.id, op |-> j.op, config |-> j.config, plan |-> j.plan]
  /\ j.id \in Nat /\ j.op \in Op /\ j.plan \in Plan \cup {None}
  /\ j.op # "apply" => j.plan = None
  /\ j.op = "apply" => j.id > MaxJobs
  /\ j.op \notin {"apply", "load"} => j.id \in 1..MaxJobs

\* What TypeOK says of the variables.
ShowsTyped ==
  /\ view \in View \cup {"quit", "crashed"}
  /\ source \in {"ServiceManagement", "DNSManagement"}
  /\ loading \in BOOLEAN /\ error \in BOOLEAN /\ config \in BOOLEAN
  /\ hasty \in BOOLEAN /\ complete \in BOOLEAN /\ inProgress \in BOOLEAN
  /\ plan \in Plan \cup {None} /\ results \in Plan \cup {None}
  /\ view \in {"Plan", "ApplyConfirm", "ApplyProgress"} => plan # None

JobsTyped ==
  /\ \A j \in jobs : JobTyped(j)
  /\ nextJob \in 0..MaxJobs + 1 /\ (Alive => nextJob >= 1)
  /\ loading => \E j \in jobs : j.op # "apply"

\* Every tick under way and every apply begun belongs to one that was confirmed.
Counted ==
  /\ ticks \in Nat /\ launches \in Nat /\ confirms \in 0..MaxRuns
  /\ ticks + launches <= confirms

DiffsTyped ==
  /\ domainDiffs \in 0..MaxDiffs /\ recordDiffs \in 0..MaxDiffs
  /\ ticked \subseteq 1..MaxDiffs

Typed == ShowsTyped /\ JobsTyped /\ Counted /\ DiffsTyped

\* What an operator who waits is doing: nothing is under way, or the first load,
\* or a command of the view shown, or an apply that is counted up or carried out.
Idle == jobs = {} /\ ticks = 0 /\ ~loading /\ view # "ApplyProgress"

FirstLoad ==
  /\ \E j : jobs = {j} /\ j.id = 0 /\ j.op = "load"
  /\ ticks = 0 /\ ~loading /\ plan = None

InCommand ==
  /\ \E j : jobs = {j} /\ j.id # 0 /\ (j.op = "load" \/ <<view, j.op>> \in Commands)
  /\ ticks = 0 /\ loading /\ view # "ApplyProgress"

Counting ==
  /\ jobs = {} /\ ticks = 1 /\ ~complete /\ inProgress
  /\ ~loading /\ view = "ApplyProgress" /\ meant = plan

Applying ==
  /\ \E j : jobs = {j} /\ j.op = "apply" /\ j.plan \in {None, meant}
  /\ ticks = 0 /\ ~loading /\ view = "ApplyProgress" /\ meant = plan

Patient ==
  Alive /\ ~hasty =>
    /\ Idle \/ FirstLoad \/ InCommand \/ Counting \/ Applying
    /\ view = "ApplyComplete" => results = meant
    /\ IF view = "DNSPullDiff"
         THEN (domainDiffs = 0 \/ recordDiffs = 0) /\ ticked \subseteq 1..Shown
         ELSE domainDiffs = 0 /\ recordDiffs = 0 /\ ticked = {}

\* The program that has ended works on nothing.
Ended == ~Alive => jobs = {} /\ ~hasty

IInv == Typed /\ Patient /\ Ended

USE DEF Alive

LEMMA Bounds ==
  MaxChanges \in Nat /\ MaxDiffs \in Nat /\ MaxJobs \in Nat /\ MaxRuns \in Nat
BY BoundsAssumption

\* No plan is None.
LEMMA PlansAreSome == None \notin Plan
BY NoneAssumption, Bounds DEF Plan

LEMMA Pairs == \A c \in Commands : c = <<c[1], c[2]>>
<1>1. \A c \in Commands : \E v, op : c = <<v, op>>
  BY Zenon DEF Commands
<1>2. \A c : (\E v, op : c = <<v, op>>) => c = <<c[1], c[2]>>
  OBVIOUS
<1> QED
  BY <1>1, <1>2

LEMMA JobFields ==
  ASSUME NEW i, NEW op
  PROVE  /\ Job(i, op) = [id |-> i, op |-> op, config |-> config, plan |-> None]
         /\ Job(i, op).id = i /\ Job(i, op).op = op
         /\ Job(i, op).config = config /\ Job(i, op).plan = None
BY DEF Job

LEMMA Ops ==
  Op = {"plan", "stop status", "restart status", "scan", "domains", "records", "check",
        "sync", "setup", "cleanup", "stop", "restart"} \cup {"load", "apply"}
<1> DEFINE named ==
      {"plan", "stop status", "restart status", "scan", "domains", "records", "check",
       "sync", "setup", "cleanup", "stop", "restart"}
<1>1. ASSUME NEW c \in Commands PROVE c[2] \in named
  <2>1. \A v, op : <<v, op>> \in Commands => op \in named
    BY DEF Commands
  <2> QED
    BY <2>1, Pairs
<1>2. ASSUME NEW op \in named PROVE \E c \in Commands : c[2] = op
  <2> DEFINE from(v, o) == <<v, o>> \in Commands /\ <<v, o>>[2] = o
  <2>1. /\ from("Tree", "plan") /\ from("ServiceManagement", "stop status")
        /\ from("ServiceManagement", "restart status") /\ from("ServiceManagement", "scan")
        /\ from("DNSPullDomains", "domains") /\ from("DNSPullRecords", "records")
        /\ from("ServerSetup", "check") /\ from("ServerSetup", "sync")
        /\ from("ServerSetup", "setup") /\ from("CleanupConfirm", "cleanup")
        /\ from("StopConfirm", "stop") /\ from("RestartConfirm", "restart")
    BY DEF Commands
  <2> HIDE DEF from
  <2>2. \A v, o : from(v, o) => \E c \in Commands : c[2] = o
    BY DEF from
  <2> QED
    BY <2>1, <2>2
<1> HIDE DEF named
<1>3. {c[2] : c \in Commands} = named
  BY <1>1, <1>2
<1> QED
  BY <1>3 DEF Op, named
-----------------------------------------------------------------------------
\* Where the keys lead.

\* Enter and p lead neither to an apply or its results nor to differences found,
\* and to a plan only from a plan.
LEMMA MoveTargets ==
  ASSUME NEW m \in Moves
  PROVE  /\ m[2] \in View \ {"ApplyProgress", "ApplyComplete", "DNSPullDiff"}
         /\ m[1] \notin {"ApplyProgress", "DNSPullDiff"}
         /\ m[2] \in {"Plan", "ApplyConfirm"} => m[1] \in {"Plan", "ApplyConfirm"}
         /\ m[2] = "Tree" => m[1] # "MainMenu"
BY DEF Moves, View, Menus, Confirms, Completes

\* The same of Esc.
LEMMA EscapeTargets ==
  ASSUME source \in {"ServiceManagement", "DNSManagement"}, NEW v \in View
  PROVE  /\ EscapeTo(v) \in View \ {"ApplyProgress", "ApplyComplete", "DNSPullDiff"}
         /\ EscapeTo(v) \in {"Plan", "ApplyConfirm"} => v \in {"Plan", "ApplyConfirm"}
BY DEF EscapeTo, View, Menus, Confirms, Completes

\* A command is begun neither during an apply nor where differences are shown.
LEMMA CommandViews ==
  ASSUME NEW v, NEW op, <<v, op>> \in Commands
  PROVE  /\ v \in View \ {"ApplyProgress", "ApplyComplete", "DNSPullDiff"}
         /\ op \in Op \ {"apply", "load"}
BY DEF Commands, Op, View, Menus, Confirms, Completes

LEMMA Leads ==
  /\ LeadsTo["plan"] = "Plan"
  /\ LeadsTo["domains"] = "DNSPullDiff" /\ LeadsTo["records"] = "DNSPullDiff"
  /\ \A op \in Op \ {"plan", "domains", "records", "load", "apply"} :
       LeadsTo[op] \in View \ {"Plan", "ApplyConfirm", "ApplyProgress", "ApplyComplete",
                               "DNSPullDiff"}
BY Ops DEF LeadsTo, View, Menus, Confirms, Completes
-----------------------------------------------------------------------------
LEMMA Initially == Init => IInv
<1> SUFFICES ASSUME Init PROVE IInv
  OBVIOUS
<1> USE Bounds DEF Init
<1>1. ShowsTyped
  BY DEF ShowsTyped, View, Menus
<1>2. JobsTyped
  <2>1. JobTyped(Job(0, "load"))
    BY Ops DEF JobTyped, Job
  <2> QED
    BY <2>1 DEF JobsTyped
<1>3. Counted /\ DiffsTyped
  BY DEF Counted, DiffsTyped
<1>4. Patient
  <2>1. FirstLoad
    <3>1. jobs = {Job(0, "load")} /\ Job(0, "load").id = 0 /\ Job(0, "load").op = "load"
      BY JobFields
    <3> QED
      BY <3>1 DEF FirstLoad
  <2> QED
    BY <2>1 DEF Patient
<1>5. Ended
  BY DEF Ended, View, Menus
<1> QED
  BY <1>1, <1>2, <1>3, <1>4, <1>5 DEF IInv, Typed

\* Whichever way the program ends.
LEMMA EndsIt ==
  ASSUME NEW how \in {"quit", "crashed"}, Ends(how)
  PROVE  IInv'
<1> USE Bounds DEF Ends
<1>1. how \notin View
  BY DEF View, Menus, Confirms, Completes
<1>2. ShowsTyped'
  BY DEF ShowsTyped
<1>3. JobsTyped'
  BY <1>1 DEF JobsTyped
<1>4. Counted' /\ DiffsTyped'
  BY DEF Counted, DiffsTyped
<1>5. Patient' /\ Ended'
  BY <1>1 DEF Patient, Ended
<1> QED
  BY <1>2, <1>3, <1>4, <1>5 DEF IInv, Typed

\* What a patient operator finds when a key acts.
LEMMA AtAKey ==
  ASSUME Patient, Key, ~hasty
  PROVE  Idle \/ FirstLoad \/ Counting \/ Applying
BY DEF Patient, Key, Running, InCommand

LEMMA MoveStep == ASSUME IInv, Move PROVE IInv'
<1> USE DEF Move, Key, Running, IInv, Typed, action, pull, history
<1> PICK m \in Moves : m[1] = view /\ view' = m[2]
  OBVIOUS
<1>1. /\ view' \in View \ {"ApplyProgress", "ApplyComplete", "DNSPullDiff"}
      /\ view \notin {"ApplyProgress", "DNSPullDiff"}
      /\ view' \in {"Plan", "ApplyConfirm"} => view \in {"Plan", "ApplyConfirm"}
      /\ view' = "Tree" => view # "MainMenu"
  BY MoveTargets
<1>2. ShowsTyped'
  BY <1>1 DEF ShowsTyped, Menus
<1>3. JobsTyped'
  BY DEF JobsTyped
<1>4. Counted' /\ DiffsTyped'
  BY DEF Counted, DiffsTyped
<1>5. Patient'
  <2> SUFFICES ASSUME ~hasty PROVE Patient'
    BY DEF Patient
  <2>1. Idle \/ FirstLoad
    BY <1>1, AtAKey DEF Counting, Applying
  <2>2. (Idle \/ FirstLoad)'
    BY <1>1, <2>1 DEF Idle, FirstLoad
  <2> QED
    BY <2>2, <1>1 DEF Patient
<1>6. Ended'
  BY <1>1 DEF Ended
<1> QED
  BY <1>2, <1>3, <1>4, <1>5, <1>6

\* Esc and x, which go from one view to another.
LEMMA LeaveStep ==
  ASSUME IInv, Key, NEW v, NEW forgives \in BOOLEAN, Leave(v, forgives),
         v \in View \ {"ApplyProgress", "ApplyComplete", "DNSPullDiff"},
         v \in {"Plan", "ApplyConfirm"} => view \in {"Plan", "ApplyConfirm"}
  PROVE  IInv'
<1> USE DEF Leave, Key, Running, IInv, Typed, action, history
<1>1. ShowsTyped'
  BY DEF ShowsTyped
<1>2. JobsTyped'
  BY DEF JobsTyped
<1>3. Counted' /\ DiffsTyped'
  <2>1. CASE view = "DNSPullDiff"
    BY <2>1, Bounds DEF Counted, DiffsTyped, ForgetsDiffs
  <2>2. CASE view # "DNSPullDiff"
    BY <2>2 DEF Counted, DiffsTyped, ForgetsDiffs, pull
  <2> QED
    BY <2>1, <2>2
<1>4. Patient'
  <2> SUFFICES ASSUME ~hasty, view # "ApplyProgress" PROVE Patient'
    BY DEF Patient, ShowsTyped
  <2>1. Idle \/ FirstLoad
    BY AtAKey DEF Counting, Applying
  <2>2. (Idle \/ FirstLoad)'
    BY <2>1 DEF Idle, FirstLoad
  <2>3. domainDiffs' = 0 /\ recordDiffs' = 0 /\ ticked' = {}
    BY DEF Patient, ForgetsDiffs, pull
  <2> QED
    BY <2>2, <2>3 DEF Patient
<1>5. Ended'
  BY DEF Ended
<1> QED
  BY <1>1, <1>2, <1>3, <1>4, <1>5

LEMMA EscapeStep == ASSUME IInv, Escape PROVE IInv'
<1> DEFINE forgives == view \in {"Tree", "ServerSetup", "ServerCheck", "MainMenu",
                                 "ApplyProgress", "ApplyComplete"}
<1>1. Key /\ Leave(EscapeTo(view), forgives) /\ forgives \in BOOLEAN
  BY DEF Escape
<1>2. /\ EscapeTo(view) \in View \ {"ApplyProgress", "ApplyComplete", "DNSPullDiff"}
      /\ EscapeTo(view) \in {"Plan", "ApplyConfirm"} => view \in {"Plan", "ApplyConfirm"}
  BY <1>1, EscapeTargets DEF Key, Running, IInv, Typed, ShowsTyped
<1> HIDE DEF forgives
<1> QED
  BY <1>1, <1>2, LeaveStep

LEMMA CancelStep == ASSUME IInv, Cancel PROVE IInv'
<1> USE DEF Cancel
<1>1. {"MainMenu", "DNSManagement", "Plan"} \subseteq
        View \ {"ApplyProgress", "ApplyComplete", "DNSPullDiff"}
  BY DEF View, Menus
<1>2. CASE view = "ApplyConfirm"
  BY <1>1, <1>2, LeaveStep
<1>3. CASE view = "DNSPullDiff"
  BY <1>1, <1>3, LeaveStep
<1>4. CASE view \notin {"ApplyConfirm", "DNSPullDiff"}
  BY <1>1, <1>4, LeaveStep
<1> QED
  BY <1>2, <1>3, <1>4

LEMMA TickStep == ASSUME IInv, Tick PROVE IInv'
<1> USE DEF Tick, Key, Running, IInv, Typed, action, history
<1>1. ShowsTyped' /\ JobsTyped' /\ Counted'
  BY DEF ShowsTyped, JobsTyped, Counted
<1>2. DiffsTyped'
  BY Bounds DEF DiffsTyped
<1>3. Patient'
  <2> SUFFICES ASSUME ~hasty PROVE Patient'
    BY DEF Patient
  <2>1. Idle \/ FirstLoad
    BY AtAKey DEF Counting, Applying
  <2>2. (Idle \/ FirstLoad)'
    BY <2>1 DEF Idle, FirstLoad
  <2>3. ticked' \subseteq 1..Shown'
    BY DEF Patient, Shown, DiffsTyped
  <2> QED
    BY <2>2, <2>3 DEF Patient
<1>4. Ended'
  BY DEF Ended
<1> QED
  BY <1>1, <1>2, <1>3, <1>4

\* A command or a new load is begun: an operator who waits had nothing under way.
LEMMA Begins ==
  ASSUME IInv, Key, NEW op \in Op, Begin(op),
         op = "load" \/ <<view, op>> \in Commands,
         config' \in BOOLEAN,
         UNCHANGED <<view, source, error, action, ticks, pull, history>>
  PROVE  IInv'
<1> USE DEF Key, Running, IInv, Typed, action, pull, history
<1>1. op # "apply" /\ Job(nextJob, op) \in jobs' /\ loading'
      /\ jobs' = jobs \cup {Job(nextJob, op)} /\ nextJob' = nextJob + 1
      /\ nextJob \in 1..MaxJobs
      /\ hasty' = (hasty \/ view = "ApplyProgress" \/ \E j \in jobs : j.id = 0)
  BY CommandViews, Bounds DEF Begin, JobsTyped
<1>2. ShowsTyped' /\ Counted' /\ DiffsTyped'
  BY <1>1 DEF ShowsTyped, Counted, DiffsTyped, Begin
<1>3. JobsTyped'
  <2>1. JobTyped(Job(nextJob, op))
    BY <1>1, JobFields, Bounds DEF JobTyped
  <2>2. \E j \in jobs' : j.op # "apply"
    BY <1>1, JobFields
  <2> QED
    BY <1>1, <2>1, <2>2, Bounds DEF JobsTyped
<1>4. Patient'
  <2> SUFFICES ASSUME ~hasty' PROVE Patient'
    BY DEF Patient
  <2>1. ~hasty /\ view # "ApplyProgress" /\ \A j \in jobs : j.id # 0
    BY <1>1 DEF ShowsTyped
  <2>2. Idle
    BY <2>1, AtAKey DEF FirstLoad, Counting, Applying
  <2>3. InCommand'
    <3>1. /\ jobs' = {Job(nextJob, op)} /\ Job(nextJob, op).id # 0
          /\ Job(nextJob, op).op = "load" \/ <<view, Job(nextJob, op).op>> \in Commands
      BY <1>1, <2>2, JobFields DEF Idle
    <3> QED
      BY <3>1, <2>2, <1>1 DEF InCommand, Idle
  <2> QED
    BY <2>1, <2>3 DEF Patient, Shown
<1>5. Ended'
  BY DEF Ended
<1> QED
  BY <1>2, <1>3, <1>4, <1>5

LEMMA CommandStep == ASSUME IInv, Command PROVE IInv'
BY Begins DEF Command, IInv, Typed, ShowsTyped

LEMMA RefreshStep == ASSUME IInv, Refresh PROVE IInv'
BY Begins, Ops DEF Refresh

\* The operator who waits confirms when nothing else is under way.
LEMMA ConfirmStep == ASSUME IInv, ConfirmApply PROVE IInv'
<1> USE DEF ConfirmApply, Key, Running, IInv, Typed, action, pull, history
<1>1. ShowsTyped' /\ view' \in View
  BY DEF ShowsTyped, View
<1>2. JobsTyped' /\ Counted' /\ DiffsTyped'
  BY <1>1, Bounds DEF JobsTyped, Counted, DiffsTyped
<1>3. Patient'
  <2> SUFFICES ASSUME ~hasty PROVE Patient'
    BY DEF Patient
  <2>1. Idle
    BY AtAKey DEF FirstLoad, Counting, Applying, ShowsTyped
  <2>2. Counting'
    BY <2>1 DEF Idle, Counting
  <2> QED
    BY <2>2 DEF Patient
<1>4. Ended'
  BY <1>1 DEF Ended
<1> QED
  BY <1>1, <1>2, <1>3, <1>4

LEMMA SaveStep == ASSUME IInv, SavePull PROVE IInv'
<1>1. CASE Ends("crashed")
  BY <1>1, EndsIt
<1>2. CASE ~Ends("crashed")
  <2> USE <1>2 DEF SavePull, Key, Running, IInv, Typed, action, history
  <2>1. /\ Key /\ view = "DNSPullDiff" /\ view' = "DNSManagement"
        /\ config' \in {config, FALSE} /\ error' \in {error, TRUE}
        /\ domainDiffs' = 0 /\ recordDiffs' = 0 /\ ticked' = {}
        /\ UNCHANGED <<source, loading, jobs, nextJob, action, ticks, history, hasty>>
    OBVIOUS
  <2>2. ShowsTyped' /\ view' \in View
    BY <2>1 DEF ShowsTyped, View, Menus
  <2>3. JobsTyped' /\ Counted' /\ DiffsTyped'
    BY <2>1, <2>2, Bounds DEF JobsTyped, Counted, DiffsTyped
  <2>4. Patient'
    <3> SUFFICES ASSUME ~hasty PROVE Patient'
      BY <2>1 DEF Patient
    <3>1. Idle \/ FirstLoad
      BY <2>1, AtAKey DEF Counting, Applying
    <3>2. (Idle \/ FirstLoad)'
      BY <2>1, <3>1 DEF Idle, FirstLoad
    <3> QED
      BY <2>1, <3>2 DEF Patient
  <2>5. Ended'
    BY <2>2 DEF Ended
  <2> QED
    BY <2>2, <2>3, <2>4, <2>5
<1> QED
  BY <1>1, <1>2
-----------------------------------------------------------------------------
\* What an answer does to the view, the plan and the differences.
Shows(j) ==
  /\ view' \in View /\ config' \in BOOLEAN /\ error' \in BOOLEAN
  /\ view' # view => j.op # "load" /\ view' \notin {"ApplyProgress", "ApplyComplete"}
  /\ \/ plan' \in Plan
     \/ plan' = plan /\ (view' = view \/ view' \notin {"Plan", "ApplyConfirm"})
  /\ UNCHANGED <<progress, complete, inProgress, results>>

\* What it does to the differences.
Lists(j) ==
  \/ UNCHANGED pull /\ (view' = view \/ view' # "DNSPullDiff")
  \/ /\ j.op \in {"domains", "records"} /\ view' = "DNSPullDiff"
     /\ \E n \in 0..MaxDiffs :
          /\ IF j.op = "domains" THEN domainDiffs' = n /\ UNCHANGED recordDiffs
             ELSE recordDiffs' = n /\ UNCHANGED domainDiffs
          /\ IF n = 0 THEN UNCHANGED ticked ELSE ticked' \in SUBSET (1..n)

LEMMA ShowsIt ==
  ASSUME IInv, NEW j \in jobs, Result(j)
  PROVE  Shows(j) /\ Lists(j) /\ j.op # "apply"
<1> USE DEF IInv, Typed, ShowsTyped, Running
<1>1. /\ view \in View /\ "DNSManagement" \in View
      /\ config \in BOOLEAN /\ error \in BOOLEAN /\ JobTyped(j)
  BY DEF Result, JobsTyped, View, Menus
<1>2. ASSUME Fails(j), j.op # "apply" PROVE Shows(j) /\ Lists(j)
  BY <1>1, <1>2 DEF Fails, Shows, Lists, action
<1>3. CASE ConfigLoaded(j)
  BY <1>1, <1>2, <1>3 DEF ConfigLoaded, Shows, Lists, action
<1>4. CASE PlanGenerated(j)
  <2>1. PlanOf(j) \subseteq Plan
    BY <1>1, <1>4 DEF PlanGenerated, PlanOf, Plan, JobTyped
  <2>2. "Plan" \in View
    BY DEF View
  <2> QED
    BY <1>1, <1>2, <1>4, <2>1, <2>2, Leads DEF PlanGenerated, Shows, Lists
<1>5. ASSUME j.op \in Op \ {"plan", "domains", "records", "load", "apply"},
             view' \in {view, LeadsTo[j.op]}, UNCHANGED <<config, error, action, pull>>
      PROVE  Shows(j) /\ Lists(j)
  <2>1. LeadsTo[j.op] \in View \ {"Plan", "ApplyConfirm", "ApplyProgress",
                                  "ApplyComplete", "DNSPullDiff"}
    BY <1>5, Leads
  <2> QED
    BY <1>1, <1>5, <2>1 DEF Shows, Lists, action
<1>6. CASE StatusFetched(j)
  BY <1>1, <1>5, <1>6 DEF StatusFetched, JobTyped
<1>7. CASE OrphansScanned(j)
  BY <1>1, <1>2, <1>5, <1>7 DEF OrphansScanned, JobTyped
<1>8. CASE DiffsFetched(j)
  <2>1. "DNSPullDiff" \in View
    BY DEF View
  <2> QED
    BY <1>1, <1>2, <1>8, <2>1, Leads DEF DiffsFetched, Shows, Lists, action
<1>9. CASE Completed(j)
  BY <1>1, <1>5, <1>9 DEF Completed, JobTyped
<1>10. j.op # "apply"
  BY DEF Result, ConfigLoaded, PlanGenerated, StatusFetched, OrphansScanned, DiffsFetched,
         Completed
<1> QED
  BY <1>3, <1>4, <1>6, <1>7, <1>8, <1>9, <1>10 DEF Result

LEMMA ResultStep == ASSUME IInv, NEW j \in jobs, Result(j) PROVE IInv'
<1> USE DEF IInv, Typed, Running
<1>1. /\ view \in View /\ Shows(j) /\ Lists(j) /\ j.op # "apply"
      /\ jobs' = jobs \ {j} /\ loading' = FALSE
      /\ UNCHANGED <<source, nextJob, ticks, history, hasty>>
  BY ShowsIt DEF Result, Handled
<1>2. ShowsTyped'
  BY <1>1, PlansAreSome DEF ShowsTyped, Shows
<1>3. JobsTyped'
  BY <1>1 DEF JobsTyped, Shows
<1>4. Counted'
  BY <1>1 DEF Counted, history
<1>5. DiffsTyped'
  <2>1. CASE UNCHANGED pull
    BY <2>1 DEF DiffsTyped, pull
  <2>2. CASE ~UNCHANGED pull
    <3> PICK n \in 0..MaxDiffs :
               /\ IF j.op = "domains" THEN domainDiffs' = n /\ UNCHANGED recordDiffs
                  ELSE recordDiffs' = n /\ UNCHANGED domainDiffs
               /\ IF n = 0 THEN UNCHANGED ticked ELSE ticked' \in SUBSET (1..n)
      BY <1>1, <2>2 DEF Lists
    <3>1. 1..n \subseteq 1..MaxDiffs
      BY Bounds
    <3> QED
      BY <3>1 DEF DiffsTyped
  <2> QED
    BY <2>1, <2>2
<1>6. Patient'
  <2> SUFFICES ASSUME ~hasty PROVE Patient'
    BY <1>1 DEF Patient
  <2>1. /\ jobs = {j} /\ ticks = 0 /\ view # "ApplyProgress"
        /\ j.op = "load" \/ <<view, j.op>> \in Commands
    BY <1>1 DEF Patient, Idle, FirstLoad, InCommand, Counting, Applying, ShowsTyped
  <2>2. Idle'
    BY <1>1, <2>1 DEF Idle, Shows
  <2>3. view' = "ApplyComplete" => results' = meant'
    BY <1>1 DEF Shows, Patient, history
  <2>4. CASE view' = view /\ UNCHANGED pull
    BY <2>2, <2>3, <2>4 DEF Patient, Shown, pull
  <2>5. CASE view' # view \/ ~UNCHANGED pull
    <3>1. view # "DNSPullDiff"
      BY <1>1, <2>1, <2>5, CommandViews DEF Shows, Lists
    <3>2. domainDiffs = 0 /\ recordDiffs = 0 /\ ticked = {}
      BY <1>1, <3>1 DEF Patient
    <3>3. IF view' = "DNSPullDiff"
            THEN (domainDiffs' = 0 \/ recordDiffs' = 0) /\ ticked' \subseteq 1..Shown'
            ELSE domainDiffs' = 0 /\ recordDiffs' = 0 /\ ticked' = {}
      BY <1>1, <3>1, <3>2 DEF Lists, pull, Shown
    <3> QED
      BY <2>2, <2>3, <3>3 DEF Patient
  <2> QED
    BY <2>4, <2>5
<1>7. Ended'
  BY <1>1 DEF Ended, Shows
<1> QED
  BY <1>2, <1>3, <1>4, <1>5, <1>6, <1>7
-----------------------------------------------------------------------------
\* Counting up begins at most one apply for a tick.
LEMMA ApplyTickStep == ASSUME IInv, ApplyTick PROVE IInv'
<1> USE DEF ApplyTick, Running, IInv, Typed, pull
<1> DEFINE new == Job(MaxJobs + launches + 1, "apply")
<1>1. /\ view \in View /\ ticks > 0
      /\ UNCHANGED <<view, source, loading, error, config, nextJob, plan, complete,
                     inProgress, results, pull, meant, confirms, hasty>>
  OBVIOUS
<1>2. ShowsTyped' /\ DiffsTyped' /\ Ended'
  BY <1>1 DEF ShowsTyped, DiffsTyped, Ended
<1>3. CASE /\ ticks' = ticks - 1 /\ jobs' = jobs \cup {new} /\ launches' = launches + 1
           /\ view = "ApplyProgress"
  <2>1. JobsTyped'
    <3>1. JobTyped(new)
      <4>1. /\ new = [id |-> new.id, op |-> new.op, config |-> new.config, plan |-> new.plan]
            /\ new.id = MaxJobs + launches + 1 /\ new.op = "apply" /\ new.plan = None
        BY JobFields
      <4> HIDE DEF new
      <4> QED
        <5>1. MaxJobs + launches + 1 \in Nat /\ MaxJobs + launches + 1 > MaxJobs
          BY Bounds DEF Counted
        <5>2. "apply" \in Op
          BY Ops
        <5> QED
          BY <4>1, <5>1, <5>2 DEF JobTyped
    <3> HIDE DEF new
    <3> QED
      BY <1>1, <1>3, <3>1 DEF JobsTyped
  <2>2. Counted'
    BY <1>1, <1>3 DEF Counted
  <2>3. Patient'
    <3> SUFFICES ASSUME ~hasty PROVE Patient'
      BY <1>1 DEF Patient
    <3>1. Counting
      BY <1>1, <1>3 DEF Patient, Idle, FirstLoad, InCommand, Applying, ShowsTyped
    <3>2. jobs' = {new} /\ new.op = "apply" /\ new.plan = None
      BY <1>3, <3>1, JobFields DEF Counting
    <3> HIDE DEF new
    <3>3. Applying'
      BY <1>1, <1>3, <3>1, <3>2 DEF Counting, Applying
    <3> QED
      BY <1>1, <1>3, <3>3 DEF Patient
  <2> QED
    BY <1>2, <2>1, <2>2, <2>3
<1>4. CASE /\ ticks' = ticks - 1 /\ UNCHANGED <<jobs, launches>>
           /\ ~(view = "ApplyProgress" /\ ~complete /\ inProgress)
  <2>1. JobsTyped' /\ Counted'
    BY <1>1, <1>4 DEF JobsTyped, Counted
  <2>2. hasty'
    BY <1>1, <1>4 DEF Patient, Idle, FirstLoad, InCommand, Counting, Applying, ShowsTyped
  <2> QED
    BY <1>2, <2>1, <2>2 DEF Patient
<1>5. CASE UNCHANGED <<ticks, jobs, launches>>
  <2>1. JobsTyped' /\ Counted'
    BY <1>1, <1>5 DEF JobsTyped, Counted
  <2>2. Patient'
    BY <1>1, <1>5 DEF Patient, Idle, FirstLoad, InCommand, Counting, Applying, Shown
  <2> QED
    BY <1>2, <2>1, <2>2
<1> QED
  BY <1>3, <1>4, <1>5

\* The apply is handed the plan that is there, which is the one confirmed.
LEMMA ApplyBeginsStep == ASSUME IInv, NEW j \in jobs, ApplyBegins(j) PROVE IInv'
<1> USE DEF ApplyBegins, Running, IInv, Typed, action, pull, history
<1> DEFINE begun == [j EXCEPT !.plan = plan]
<1>1. /\ view \in View /\ JobTyped(j) /\ j.op = "apply" /\ plan \in Plan
      /\ jobs' = (jobs \ {j}) \cup {begun}
  BY DEF JobsTyped, ShowsTyped
<1>2. /\ begun = [id |-> j.id, op |-> j.op, config |-> j.config, plan |-> plan]
      /\ begun.id = j.id /\ begun.op = j.op /\ begun.plan = plan
      /\ begun.config = j.config
  BY <1>1 DEF JobTyped
<1>3. JobTyped(begun)
  BY <1>1, <1>2 DEF JobTyped
<1> HIDE DEF begun
<1>4. ShowsTyped' /\ Counted' /\ DiffsTyped' /\ Ended'
  BY <1>1 DEF ShowsTyped, Counted, DiffsTyped, Ended
<1>5. JobsTyped'
  BY <1>1, <1>3 DEF JobsTyped
<1>6. Patient'
  <2> SUFFICES ASSUME ~hasty PROVE Patient'
    BY DEF Patient
  <2>1. Applying /\ jobs = {j}
    BY <1>1, CommandViews DEF Patient, Idle, FirstLoad, InCommand, Counting, Applying
  <2>2. jobs' = {begun} /\ begun.op = "apply" /\ begun.plan = meant'
    BY <1>1, <1>2, <2>1 DEF Applying
  <2>3. Applying'
    BY <2>1, <2>2 DEF Applying
  <2> QED
    BY <2>3 DEF Patient, Shown
<1> QED
  BY <1>4, <1>5, <1>6

LEMMA ApplyCompletesStep == ASSUME IInv, NEW j \in jobs, ApplyCompletes(j) PROVE IInv'
<1> USE DEF ApplyCompletes, Handled, Running, IInv, Typed, pull, history
<1>1. /\ view \in View /\ JobTyped(j) /\ j.plan \in Plan /\ view' \in View
      /\ j.op = "apply" /\ view' = "ApplyComplete"
  BY DEF JobsTyped, JobTyped, ShowsTyped, View, Completes
<1>2. ShowsTyped'
  BY <1>1 DEF ShowsTyped
<1>3. JobsTyped' /\ Counted' /\ DiffsTyped' /\ Ended'
  BY <1>1 DEF JobsTyped, Counted, DiffsTyped, Ended
<1>4. Patient'
  <2> SUFFICES ASSUME ~hasty PROVE Patient'
    BY DEF Patient
  <2>1. Applying /\ jobs = {j}
    BY <1>1, CommandViews DEF Patient, Idle, FirstLoad, InCommand, Counting, Applying
  <2>2. Idle'
    BY <1>1, <2>1 DEF Applying, Idle
  <2>3. results' = meant'
    BY <1>1, <2>1, PlansAreSome DEF Applying
  <2> QED
    BY <1>1, <2>1, <2>2, <2>3 DEF Patient, Applying
<1> QED
  BY <1>2, <1>3, <1>4
-----------------------------------------------------------------------------
LEMMA Inductive == IInv /\ [Next]_vars => IInv'
<1> SUFFICES ASSUME IInv, [Next]_vars PROVE IInv'
  OBVIOUS
<1>1. CASE Background
  <2>1. ASSUME NEW j \in jobs, Panic(j) PROVE IInv'
    BY <2>1, EndsIt DEF Panic
  <2> QED
    BY <1>1, <2>1, ApplyTickStep, ResultStep, ApplyBeginsStep, ApplyCompletesStep
       DEF Background
<1>2. CASE Draw \/ Quit
  BY <1>2, EndsIt DEF Draw, Quit
<1>3. CASE Move \/ Escape \/ Cancel \/ Tick
  BY <1>3, MoveStep, EscapeStep, CancelStep, TickStep
<1>4. CASE Command \/ Refresh \/ ConfirmApply \/ SavePull
  BY <1>4, CommandStep, RefreshStep, ConfirmStep, SaveStep
<1>5. CASE UNCHANGED vars
  BY <1>5 DEF vars, action, pull, history, IInv, Typed, ShowsTyped, JobsTyped, Counted,
     DiffsTyped, Patient, Ended, Idle, FirstLoad, InCommand, Counting, Applying, Shown
<1> QED
  BY <1>1, <1>2, <1>3, <1>4, <1>5 DEF Next

LEMMA Always == Spec => []IInv
BY Initially, Inductive, PTL DEF Spec

\* The variables keep their types for plans, lists and sessions of any length,
\* and the spinner is only shown while a command or a load is being worked on.
THEOREM TypeCorrect == Spec => []TypeOK
<1>1. IInv => TypeOK
  BY Bounds DEF IInv, Typed, ShowsTyped, JobsTyped, JobTyped, Counted, DiffsTyped, TypeOK
<1> QED
  BY <1>1, Always, PTL

\* While the operator waits for the first configuration and for a running apply,
\* the interface works on one thing at a time, and the spinner and the view show
\* which.
THEOREM OneThing == Spec => []OneAtATime
<1>1. IInv => OneAtATime
  <2> SUFFICES ASSUME IInv, view \in View, ~hasty, \A j \in jobs : j.id # 0
               PROVE  /\ Cardinality(jobs) + ticks <= 1
                      /\ loading <=> jobs \ Applies # {}
                      /\ view = "ApplyProgress" <=> Applies # {} \/ ticks > 0
    BY DEF OneAtATime
  <2>1. Idle \/ InCommand \/ Counting \/ Applying
    BY DEF IInv, Patient, FirstLoad
  <2>2. CASE Idle \/ Counting
    BY <2>2, FS_EmptySet DEF Idle, Counting, Applies
  <2>3. CASE InCommand
    <3> PICK j : jobs = {j} /\ (j.op = "load" \/ <<view, j.op>> \in Commands)
      BY <2>3 DEF InCommand
    <3>1. j.op # "apply"
      BY CommandViews
    <3>2. Applies = {} /\ jobs \ Applies = {j}
      BY <3>1 DEF Applies
    <3>3. Cardinality(jobs) = 1
      BY FS_Singleton
    <3> QED
      BY <2>3, <3>2, <3>3 DEF InCommand
  <2>4. CASE Applying
    BY <2>4, FS_Singleton DEF Applying, Applies
  <2> QED
    BY <2>1, <2>2, <2>3, <2>4
<1> QED
  BY <1>1, Always, PTL

\* Never are more applies begun than confirmed, and what is applied for an operator
\* who waits is the plan that was confirmed.
THEOREM AppliesWhatWasConfirmed == Spec => []OnlyConfirmedIsApplied
<1>1. IInv => OnlyConfirmedIsApplied
  <2> SUFFICES ASSUME IInv PROVE OnlyConfirmedIsApplied
    OBVIOUS
  <2>1. launches <= confirms
    BY DEF IInv, Typed, Counted
  <2>2. ASSUME ~hasty, NEW j \in Applies PROVE j.plan \in {None, meant}
    <3>1. j \in jobs /\ j.op = "apply" /\ view \in View
      BY <2>2 DEF Applies, IInv, Ended
    <3>2. Applying
      BY <2>2, <3>1, CommandViews DEF IInv, Patient, Idle, FirstLoad, InCommand, Counting
    <3> QED
      BY <3>1, <3>2 DEF Applying
  <2> QED
    BY <2>1, <2>2 DEF OnlyConfirmedIsApplied
<1> QED
  BY <1>1, Always, PTL

\* The results an operator who waits sees are those of the plan confirmed last, and
\* the marks are on the differences shown.
THEOREM ShowsWhatWasMeant == Spec => []ShownIsMeant
<1>1. IInv => ShownIsMeant
  BY DEF IInv, Patient, Ended, Typed, ShowsTyped, ShownIsMeant, View, Menus, Completes
<1> QED
  BY <1>1, Always, PTL
=============================================================================
