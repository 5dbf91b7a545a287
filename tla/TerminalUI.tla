----------------------------- MODULE TerminalUI -----------------------------
(***************************************************************************)
(* The terminal interface: the view it shows, the keys it acts on and the  *)
(* commands it runs in the background, whose results are messages that     *)
(* arrive whenever they are ready.  What is selected in a list is left     *)
(* open here; ServiceOps has the selections and what the commands do.      *)
(***************************************************************************)
EXTENDS Naturals, FiniteSets

CONSTANTS
  MaxChanges,  \* changes in a plan, at most
  MaxDiffs,    \* differences a pull finds, at most
  MaxJobs,     \* bound: commands begun with the spinner shown
  MaxRuns,     \* bound: applies confirmed
  None

ASSUME BoundsAssumption == {MaxChanges, MaxDiffs, MaxJobs, MaxRuns} \subseteq Nat
ASSUME NoneAssumption == None \notin [id : Nat, changes : Nat]

VARIABLES
  view,       \* ViewState; "quit" and "crashed" are the end
  source,     \* TreeSource: where Esc leads from the tree
  loading,    \* Loading.Active: every key but the one to quit is ignored
  error,      \* whether ErrorMessage is set
  config,     \* whether there is a Config
  jobs,       \* commands whose result has not been handled
  nextJob,
  plan,       \* Action.PlanResult
  progress, complete, inProgress, results,  \* the rest of Action
  ticks,      \* applyProgressMsg under way
  domainDiffs, recordDiffs,  \* how many DNSPullDiffs and DNSRecordDiffs
  ticked,     \* the indices that are true in DNSPullSelected
  meant,      \* the plan confirmed last
  confirms, launches,        \* applies confirmed, applies begun
  hasty       \* the operator gave a command before the first configuration
              \* was there or during an apply, or left a running apply

action == <<plan, progress, complete, inProgress, results>>
pull == <<domainDiffs, recordDiffs, ticked>>
history == <<meant, confirms, launches>>
vars == <<view, source, loading, error, config, jobs, nextJob, action, ticks,
          pull, history, hasty>>

Menus == {"MainMenu", "ServiceManagement", "DNSManagement"}
Confirms == {"ApplyConfirm", "CleanupConfirm", "StopConfirm", "RestartConfirm"}
Completes == {"ApplyComplete", "CleanupComplete", "StopComplete", "RestartComplete"}
View == Menus \cup Confirms \cup Completes \cup
  {"Tree", "Plan", "ApplyProgress", "ServerSetup", "ServerCheck",
   "DNSPullDomains", "DNSPullRecords", "DNSPullDiff", "ServiceCleanup",
   "ServiceStop", "ServiceRestart"}

\* The view Enter or p leads to without a command.
Moves == {
  <<"MainMenu", "ServiceManagement">>, <<"MainMenu", "DNSManagement">>,
  <<"ServiceManagement", "Tree">>, <<"ServiceManagement", "ServerSetup">>,
  <<"ServiceManagement", "MainMenu">>,
  <<"DNSManagement", "DNSPullDomains">>, <<"DNSManagement", "DNSPullRecords">>,
  <<"DNSManagement", "Tree">>, <<"DNSManagement", "MainMenu">>,
  <<"ServerCheck", "ServerSetup">>,
  <<"Plan", "ApplyConfirm">>, <<"ApplyConfirm", "Plan">>, <<"ApplyComplete", "Tree">>,
  <<"ServiceCleanup", "CleanupConfirm">>, <<"CleanupConfirm", "ServiceCleanup">>,
  <<"ServiceStop", "StopConfirm">>, <<"StopConfirm", "ServiceStop">>,
  <<"ServiceRestart", "RestartConfirm">>, <<"RestartConfirm", "ServiceRestart">>,
  <<"CleanupComplete", "ServiceManagement">>, <<"StopComplete", "ServiceManagement">>,
  <<"RestartComplete", "ServiceManagement">>}

\* The commands a key begins in a view, and the view their success leads to.
Commands == {
  <<"Tree", "plan">>,
  <<"ServiceManagement", "stop status">>, <<"ServiceManagement", "restart status">>,
  <<"ServiceManagement", "scan">>,
  <<"DNSPullDomains", "domains">>, <<"DNSPullRecords", "records">>,
  <<"ServerSetup", "check">>, <<"ServerSetup", "sync">>, <<"ServerSetup", "setup">>,
  <<"ServerCheck", "check">>, <<"ServerCheck", "sync">>,
  <<"CleanupConfirm", "cleanup">>, <<"StopConfirm", "stop">>,
  <<"RestartConfirm", "restart">>}
Op == {c[2] : c \in Commands} \cup {"load", "apply"}
LeadsTo ==
  [op \in Op |->
     CASE op = "plan" -> "Plan"
       [] op = "stop status" -> "ServiceStop"
       [] op = "restart status" -> "ServiceRestart"
       [] op = "scan" -> "ServiceCleanup"
       [] op \in {"domains", "records"} -> "DNSPullDiff"
       [] op \in {"check", "sync", "setup"} -> "ServerCheck"
       [] op = "cleanup" -> "CleanupComplete"
       [] op = "stop" -> "StopComplete"
       [] op = "restart" -> "RestartComplete"
       [] OTHER -> None]

\* The commands that begin by reading Config, and so panic without one.
NeedsConfig == {"scan", "check", "sync", "setup", "cleanup", "stop", "restart"}

Job(id, op) == [id |-> id, op |-> op, config |-> config, plan |-> None]

Init ==
  /\ view = "MainMenu" /\ source = "ServiceManagement"
  /\ loading = FALSE /\ error = FALSE /\ config = FALSE
  /\ jobs = {Job(0, "load")} /\ nextJob = 1
  /\ plan = None /\ progress = 0 /\ complete = FALSE /\ inProgress = FALSE
  /\ results = None /\ ticks = 0
  /\ domainDiffs = 0 /\ recordDiffs = 0 /\ ticked = {}
  /\ meant = None /\ confirms = 0 /\ launches = 0
  /\ hasty = FALSE
-----------------------------------------------------------------------------
(* Keys. *)

\* The list of providers is drawn from Config.
Undrawable == view = "DNSPullDomains" /\ ~config /\ ~loading
Running == view \in View /\ ~Undrawable
Key == Running /\ ~loading

\* The program ends, and nothing of what it held is left.
Ends(how) ==
  /\ view' = how /\ source' = "ServiceManagement"
  /\ loading' = FALSE /\ error' = FALSE /\ config' = FALSE
  /\ jobs' = {} /\ nextJob' = 0
  /\ plan' = None /\ progress' = 0 /\ complete' = FALSE /\ inProgress' = FALSE
  /\ results' = None /\ ticks' = 0
  /\ domainDiffs' = 0 /\ recordDiffs' = 0 /\ ticked' = {}
  /\ meant' = None /\ confirms' = 0 /\ launches' = 0 /\ hasty' = FALSE

Draw == Undrawable /\ Ends("crashed")

Quit == Running /\ Ends("quit")

\* Enter, or p in the lists of services; the confirmations need a selection.
Move ==
  /\ Key
  /\ \E m \in Moves : m[1] = view /\ view' = m[2]
  /\ source' = IF view' = "Tree" /\ view \in Menus THEN view ELSE source
  /\ UNCHANGED <<loading, error, config, jobs, nextJob, action, ticks, pull,
                 history, hasty>>

\* Esc.
EscapeTo(v) ==
  CASE v = "Tree" -> source
    [] v = "Plan" -> "Tree"
    [] v = "ApplyConfirm" -> "Plan"
    [] v = "ServerCheck" -> "ServerSetup"
    [] v \in {"DNSPullDomains", "DNSPullRecords", "DNSPullDiff"} -> "DNSManagement"
    [] v = "CleanupConfirm" -> "ServiceCleanup"
    [] v = "StopConfirm" -> "ServiceStop"
    [] v = "RestartConfirm" -> "ServiceRestart"
    [] v \in {"ServerSetup", "ServiceCleanup", "CleanupComplete", "ServiceStop",
              "StopComplete", "ServiceRestart", "RestartComplete"} -> "ServiceManagement"
    [] OTHER -> "MainMenu"

\* A mutant of ForgetsDiffs.
ForgetsNothing == UNCHANGED pull

ForgetsDiffs ==
  IF view = "DNSPullDiff"
    THEN domainDiffs' = 0 /\ recordDiffs' = 0 /\ ticked' = {}
    ELSE UNCHANGED pull

Leave(v, forgives) ==
  /\ view' = v
  /\ error' = (error /\ ~forgives)
  /\ hasty' = (hasty \/ view = "ApplyProgress")
  /\ ForgetsDiffs
  /\ UNCHANGED <<source, loading, config, jobs, nextJob, action, ticks, history>>

Escape ==
  /\ Key
  /\ Leave(EscapeTo(view), view \in {"Tree", "ServerSetup", "ServerCheck", "MainMenu",
                                     "ApplyProgress", "ApplyComplete"})

\* x
Cancel ==
  /\ Key
  /\ CASE view = "ApplyConfirm" -> Leave("Plan", FALSE)
       [] view = "DNSPullDiff" -> Leave("DNSManagement", FALSE)
       [] OTHER -> Leave("MainMenu", TRUE)

\* Space, a and n on the differences found.
Shown == IF domainDiffs > 0 THEN domainDiffs ELSE recordDiffs

Tick ==
  /\ Key /\ view = "DNSPullDiff"
  /\ ticked' \in SUBSET (1..(IF recordDiffs > 0 THEN recordDiffs ELSE domainDiffs))
  /\ UNCHANGED <<view, source, loading, error, config, jobs, nextJob, action, ticks,
                 domainDiffs, recordDiffs, history, hasty>>

\* A mutant of Begin: the spinner is not started for a plan.
BeginUnlocked(op) ==
  /\ nextJob <= MaxJobs
  /\ nextJob' = nextJob + 1
  /\ jobs' = jobs \cup {Job(nextJob, op)}
  /\ hasty' = (hasty \/ view = "ApplyProgress" \/ \E j \in jobs : j.id = 0)
  /\ loading' = (op # "plan")

Begin(op) ==
  /\ nextJob <= MaxJobs
  /\ nextJob' = nextJob + 1
  /\ jobs' = jobs \cup {Job(nextJob, op)}
  /\ hasty' = (hasty \/ view = "ApplyProgress" \/ \E j \in jobs : j.id = 0)
  /\ loading' = TRUE

Command ==
  /\ Key
  /\ \E op \in Op : <<view, op>> \in Commands /\ Begin(op)
  /\ view = "DNSPullRecords" => config
  /\ UNCHANGED <<view, source, error, config, action, ticks, pull, history>>

\* r
Refresh ==
  /\ Key /\ view # "ServerCheck"
  /\ config' = FALSE
  /\ Begin("load")
  /\ UNCHANGED <<view, source, error, action, ticks, pull, history>>

\* A mutant of ConfirmApply: Complete is still that of the apply before.
ConfirmKeepsComplete ==
  /\ Key /\ view = "ApplyConfirm" /\ confirms < MaxRuns
  /\ view' = "ApplyProgress"
  /\ progress' = 0 /\ results' = None /\ inProgress' = TRUE
  /\ ticks' = ticks + 1
  /\ meant' = plan /\ confirms' = confirms + 1
  /\ UNCHANGED <<source, loading, error, config, jobs, nextJob, plan, complete, pull,
                 launches, hasty>>

\* Enter on "Yes" when asked about the plan.
ConfirmApply ==
  /\ Key /\ view = "ApplyConfirm" /\ confirms < MaxRuns
  /\ view' = "ApplyProgress"
  /\ progress' = 0 /\ complete' = FALSE /\ results' = None /\ inProgress' = TRUE
  /\ ticks' = ticks + 1
  /\ meant' = plan /\ confirms' = confirms + 1
  /\ UNCHANGED <<source, loading, error, config, jobs, nextJob, plan, pull,
                 launches, hasty>>

\* Enter on the differences: the marked ones are saved and Config is loaded
\* anew, at once.
SavePull ==
  /\ Key /\ view = "DNSPullDiff"
  /\ LET nothing == ticked = {} \/ Shown = 0 IN
     \/ /\ nothing \/ config
        /\ view' = "DNSManagement"
        /\ \/ UNCHANGED <<config, error>>
           \/ ~nothing /\ config' = FALSE /\ error' = TRUE
        /\ domainDiffs' = 0 /\ recordDiffs' = 0 /\ ticked' = {}
        /\ UNCHANGED <<source, loading, jobs, nextJob, action, ticks, history, hasty>>
     \/ ~nothing /\ ~config /\ Ends("crashed")
-----------------------------------------------------------------------------
(* Results. *)

\* A mutant of Handled: the spinner goes on.
StaysLoading(j) == jobs' = jobs \ {j} /\ UNCHANGED loading

Handled(j) == jobs' = jobs \ {j} /\ loading' = FALSE

Fails(j) ==
  /\ error' = TRUE
  /\ view' = IF j.op \in {"domains", "records"} THEN "DNSManagement" ELSE view
  /\ UNCHANGED <<config, action, pull>>

ConfigLoaded(j) ==
  /\ j.op = "load"
  /\ \/ /\ config' = TRUE
        /\ UNCHANGED <<view, error, action, pull>>
     \/ Fails(j)

PlanOf(j) == [id : {j.id}, changes : 0..MaxChanges]

PlanGenerated(j) ==
  /\ j.op = "plan"
  /\ \/ /\ plan' \in PlanOf(j)
        /\ view' = LeadsTo[j.op]
        /\ UNCHANGED <<config, error, progress, complete, inProgress, results, pull>>
     \/ Fails(j)

\* Neither has an error to report; the trees are built from what Config is now.
StatusFetched(j) ==
  /\ j.op \in {"stop status", "restart status"}
  /\ view' = LeadsTo[j.op]
  /\ UNCHANGED <<config, error, action, pull>>

\* With an earlier message still set the view does not change.
OrphansScanned(j) ==
  /\ j.op = "scan"
  /\ \/ /\ view' = IF error THEN view ELSE LeadsTo[j.op]
        /\ UNCHANGED <<config, error, action, pull>>
     \/ Fails(j)

\* Creates are marked from the start; of records also updates.
DiffsFetched(j) ==
  /\ j.op \in {"domains", "records"}
  /\ \/ /\ view' = LeadsTo[j.op]
        /\ \E n \in 0..MaxDiffs :
             /\ IF j.op = "domains" THEN domainDiffs' = n /\ UNCHANGED recordDiffs
                ELSE recordDiffs' = n /\ UNCHANGED domainDiffs
             /\ IF n = 0 THEN UNCHANGED ticked ELSE ticked' \in SUBSET (1..n)
        /\ UNCHANGED <<config, error, action>>
     \/ Fails(j)

\* The results of the others name what failed, but are no error.
Completed(j) ==
  /\ j.op \in {"check", "sync", "setup", "cleanup", "stop", "restart"}
  /\ view' = LeadsTo[j.op]
  /\ UNCHANGED <<config, error, action, pull>>

Result(j) ==
  /\ Running
  /\ ~(j.op \in NeedsConfig /\ ~j.config)
  /\ \/ ConfigLoaded(j) \/ PlanGenerated(j) \/ StatusFetched(j)
     \/ OrphansScanned(j) \/ DiffsFetched(j) \/ Completed(j)
  /\ Handled(j)
  /\ UNCHANGED <<source, nextJob, ticks, history, hasty>>

Panic(j) ==
  /\ Running
  /\ j.op \in NeedsConfig /\ ~j.config
  /\ Ends("crashed")

Total == IF plan = None \/ plan.changes = 0 THEN 1 ELSE plan.changes

\* A mutant of ApplyTick: the ticks go on after the apply has begun.
TickGoesOn ==
  /\ Running /\ ticks > 0
  /\ IF view = "ApplyProgress" /\ ~complete /\ inProgress
       THEN /\ progress' = progress + 1
            /\ IF progress' >= Total
                 THEN /\ UNCHANGED ticks
                      /\ jobs' = jobs \cup {Job(MaxJobs + launches + 1, "apply")}
                      /\ launches' = launches + 1
                 ELSE UNCHANGED <<ticks, jobs, launches>>
       ELSE ticks' = ticks - 1 /\ UNCHANGED <<progress, jobs, launches>>
  /\ UNCHANGED <<view, source, loading, error, config, nextJob, plan, complete,
                 inProgress, results, pull, meant, confirms, hasty>>

\* applyProgressMsg: counts up, then begins the apply or asks for another one.
ApplyTick ==
  /\ Running /\ ticks > 0
  /\ IF view = "ApplyProgress" /\ ~complete /\ inProgress
       THEN /\ progress' = progress + 1
            /\ IF progress' >= Total
                 THEN /\ ticks' = ticks - 1
                      /\ jobs' = jobs \cup {Job(MaxJobs + launches + 1, "apply")}
                      /\ launches' = launches + 1
                 ELSE UNCHANGED <<ticks, jobs, launches>>
       ELSE ticks' = ticks - 1 /\ UNCHANGED <<progress, jobs, launches>>
  /\ UNCHANGED <<view, source, loading, error, config, nextJob, plan, complete,
                 inProgress, results, pull, meant, confirms, hasty>>

\* The background command reads PlanResult when it comes to run.
ApplyBegins(j) ==
  /\ Running /\ j.op = "apply" /\ j.plan = None /\ plan # None
  /\ jobs' = (jobs \ {j}) \cup {[j EXCEPT !.plan = plan]}
  /\ UNCHANGED <<view, source, loading, error, config, nextJob, action, ticks, pull,
                 history, hasty>>

\* The result takes the view along from wherever it is.
ApplyCompletes(j) ==
  /\ Running /\ j.op = "apply" /\ j.plan # None
  /\ Handled(j)
  /\ results' = j.plan /\ complete' = TRUE /\ inProgress' = FALSE
  /\ error' \in {error, TRUE}
  /\ view' = "ApplyComplete"
  /\ UNCHANGED <<source, config, nextJob, plan, progress, ticks, pull, history, hasty>>

Background ==
  \/ ApplyTick
  \/ \E j \in jobs : Result(j) \/ Panic(j) \/ ApplyBegins(j) \/ ApplyCompletes(j)

Next ==
  \/ Background \/ Draw
  \/ Move \/ Escape \/ Cancel \/ Tick \/ Command \/ Refresh \/ ConfirmApply \/ SavePull
  \/ Quit

\* Every command answers and every tick comes, unless the program ends.
Spec == Init /\ [][Next]_vars /\ WF_vars(Background)
-----------------------------------------------------------------------------
Plan == [id : 1..MaxJobs, changes : 0..MaxChanges]

\* The variables have their types, and loading is only shown while something
\* is being worked on.
TypeOK ==
  /\ view \in View \cup {"quit", "crashed"}
  /\ source \in {"ServiceManagement", "DNSManagement"}
  /\ loading \in BOOLEAN /\ error \in BOOLEAN /\ config \in BOOLEAN
  /\ \A j \in jobs : j.op \in Op /\ j.plan \in Plan \cup {None}
  /\ plan \in Plan \cup {None} /\ results \in Plan \cup {None}
  /\ view \in {"Plan", "ApplyConfirm", "ApplyProgress"} => plan # None
  /\ complete \in BOOLEAN /\ inProgress \in BOOLEAN
  /\ ticks \in 0..MaxRuns /\ launches \in 0..MaxRuns /\ confirms \in 0..MaxRuns
  /\ domainDiffs \in 0..MaxDiffs /\ recordDiffs \in 0..MaxDiffs
  /\ ticked \subseteq 1..MaxDiffs
  /\ loading => \E j \in jobs : j.op # "apply"

Applies == {j \in jobs : j.op = "apply"}

\* As long as the operator waits for the first configuration and for a running
\* apply, the interface does one thing at a time: no key but the one to quit
\* acts while a command is being worked on, and of one confirmed apply there is
\* one tick under way or one command.
OneAtATime ==
  (view \in View /\ ~hasty /\ \A j \in jobs : j.id # 0) =>
    /\ Cardinality(jobs) + ticks <= 1
    /\ loading <=> jobs \ Applies # {}
    /\ view = "ApplyProgress" <=> Applies # {} \/ ticks > 0

\* Whatever the operator does, no more applies begin than were confirmed; and as
\* long as the operator waits, what is applied is the plan confirmed last.
OnlyConfirmedIsApplied ==
  /\ launches <= confirms
  /\ ~hasty => \A j \in Applies : j.plan \in {None, meant}

\* As long as the operator waits: the results on the screen are those of the
\* plan confirmed last, and the differences that are marked and saved are those
\* of the list on the screen.
ShownIsMeant ==
  ~hasty =>
    /\ view = "ApplyComplete" => results = meant
    /\ view = "DNSPullDiff" =>
         (domainDiffs = 0 \/ recordDiffs = 0) /\ ticked \subseteq 1..Shown

\* The interface does not stay locked, and an apply that is waited for ends.
AlwaysAnswers ==
  /\ loading ~> ~loading \/ view \notin View
  /\ view = "ApplyProgress" ~> view # "ApplyProgress"
=============================================================================
