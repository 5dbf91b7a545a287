------------------------------ MODULE DNSRecords ------------------------------
(***************************************************************************)
(* The DNS records of the configuration and of the providers: dns apply,   *)
(* the plan and apply of the terminal interface, dns pull of both, and     *)
(* EnsureRecord with its retries.  One operator gives commands; others     *)
(* edit dns.yaml and the providers' consoles meanwhile.                    *)
(***************************************************************************)
EXTENDS Naturals, FiniteSets, SequencesExt

CONSTANTS
  Domain, Name, Value,
  TTL,          \* the ttls a configuration gives; 0 asks for the default
  Cloudflare,   \* the domains whose provider lists full names and every page
  DefaultTTL,   \* DefaultTTL[d]: what its provider makes of a ttl of 0
  Hosted,       \* the domains the providers have
  PageSize,     \* records and domains in the first page of the other providers
  Files,        \* the contents others may give dns.yaml
  Zones,        \* the records the providers may have at first
  MaxAttempts,  \* of one call under retry
  MaxId, MaxTurns,  \* bounds: entries ever made; commands and edits by others
  None

\* Name stands for a name relative to its domain together with a record type.
Record == [name : Name, value : Value, ttl : Nat]
Given == [name : Name, value : Value, ttl : TTL]
Entry == [id : Nat, name : Name, value : Value, ttl : Nat]

\* A file gives records by their domain; a provider numbers its entries, each
\* with a ttl of its own, and no full name is a relative one.
ASSUME PagesAssumption == PageSize \in Nat \ {0} /\ MaxTurns \in Nat
ASSUME NoneAssumption == None \notin Nat /\ None # "ok"
ASSUME DomainsAssumption ==
  /\ Cloudflare \subseteq Domain /\ Hosted \subseteq Domain
  /\ TTL \subseteq Nat /\ DefaultTTL \in [Domain -> Nat \ {0}]
  /\ \A n \in Name, d \in Domain : [sub |-> n, of |-> d] \notin Name
ASSUME FilesAssumption ==
  \A f \in Files : /\ f = [d \in DOMAIN f |-> f[d]] /\ DOMAIN f \subseteq Domain
                   /\ \A d \in DOMAIN f : f[d] \in Seq(Given)
ASSUME ZonesAssumption ==
  \A z \in Zones :
    /\ z \in [Domain -> SUBSET Entry]
    /\ LET all == UNION {z[d] : d \in Domain} IN
       /\ IsFiniteSet(all)
       /\ \A e \in all : e.id \in 1..Cardinality(all) /\ e.ttl # 0
       /\ \A e, f \in all : e.id = f.id => e = f

VARIABLES
  dnsYaml,    \* the file: for each domain in it, its records in order
  held,       \* the configuration the terminal interface has loaded
  zone,       \* zone[d]: the entries at the provider
  nextId,     \* the provider's next entry
  turns,      \* commands and edits there may still be
  cmd,        \* where the running command is
  cfg,        \* the configuration it uses
  scope,      \* the domains it is about
  plan,       \* the changes still to be carried out
  call,       \* the change, or the ensured record, that is being worked on
  diffs,      \* what a pull found
  before,     \* the zones when the command listed or was given
  listed,     \* whether it has listed all it plans about
  touched,    \* whether others made an edit since what it uses was read
  failed,     \* provider calls of this command that failed
  lost        \* those of them that were done all the same

vars == <<dnsYaml, held, zone, nextId, turns, cmd, cfg, scope, plan, call,
          diffs, before, listed, touched, failed, lost>>
others == <<turns, touched>>

Init ==
  /\ dnsYaml \in Files /\ held = dnsYaml /\ cfg = dnsYaml
  /\ zone \in Zones /\ before = zone
  /\ nextId = 1 + Cardinality(UNION {zone[d] : d \in Domain})
  /\ turns = MaxTurns /\ touched = FALSE
  /\ cmd = "idle" /\ scope = {} /\ plan = {} /\ call = None /\ diffs = {}
  /\ listed = FALSE /\ failed = 0 /\ lost = 0
-----------------------------------------------------------------------------
(* The providers. *)

\* The first page of an answer, if there are more than one.
FirstPage(S) ==
  IF Cardinality(S) <= PageSize THEN {S}
  ELSE {P \in SUBSET S : Cardinality(P) = PageSize}

\* What ListRecords may answer: Cloudflare is read page by page.
Listings(d) == IF d \in Cloudflare THEN {zone[d]} ELSE FirstPage(zone[d])

\* ListDomains of the provider that has the domains D.
DomainListings(D) ==
  IF D \subseteq Cloudflare THEN {D \cap Hosted} ELSE FirstPage(D \cap Hosted)

AlwaysDefault(d, r) == DefaultTTL[d]

StoredTTL(d, r) == IF r.ttl = 0 THEN DefaultTTL[d] ELSE r.ttl

\* The name an entry is listed under.
ListedName(d, n) == IF d \in Cloudflare THEN [sub |-> n, of |-> d] ELSE n

\* The provider does a call, refuses it, or does it and the answer is lost.
Outcome == {"done", "refused", "lost"}
Count(o) ==
  /\ failed' = IF o = "done" THEN failed ELSE failed + 1
  /\ lost' = IF o = "lost" THEN lost + 1 ELSE lost

AsFullEntry(d, id, r) ==
  [id |-> id, name |-> ListedName(d, r.name), value |-> r.value,
   ttl |-> StoredTTL(d, r)]

AsEntry(d, id, r) ==
  [id |-> id, name |-> r.name, value |-> r.value, ttl |-> StoredTTL(d, r)]

Create(d, r, o) ==
  IF o = "refused" THEN UNCHANGED <<zone, nextId>>
  ELSE /\ nextId <= MaxId
       /\ zone' = [zone EXCEPT ![d] = @ \cup {AsEntry(d, nextId, r)}]
       /\ nextId' = nextId + 1

\* Update and delete by entry; one that is gone meanwhile is an error.
Has(d, id) == \E e \in zone[d] : e.id = id
Without(d, id) == {e \in zone[d] : e.id # id}

Update(d, id, r, o) ==
  /\ o # "refused" => Has(d, id)
  /\ zone' = IF o = "refused" THEN zone
             ELSE [zone EXCEPT ![d] = Without(d, id) \cup {AsEntry(d, id, r)}]
  /\ UNCHANGED nextId

Delete(d, id, o) ==
  /\ o # "refused" => Has(d, id)
  /\ zone' = IF o = "refused" THEN zone ELSE [zone EXCEPT ![d] = Without(d, id)]
  /\ UNCHANGED nextId
-----------------------------------------------------------------------------
(* Planning. *)

\* Of several records of one name the last one in the file is planned for.
Wanted(c, d) ==
  IF d \notin DOMAIN c THEN {}
  ELSE {c[d][i] : i \in {j \in DOMAIN c[d] :
          \A k \in DOMAIN c[d] : k > j => c[d][k].name # c[d][j].name}}

\* The terminal interface keeps one of the entries listed under a name.
Views(S) ==
  {V \in SUBSET S : \A e \in S : Cardinality({v \in V : v.name = e.name}) = 1}

SameButTTL(e, r) == e.value = r.value

\* RecordEquals; the names are equal already.
SameRecord(e, r) == e.value = r.value /\ e.ttl = r.ttl

ChangeOf(type, d, r) == [type |-> type, domain |-> d, record |-> r]

RecordPlan(d, want, view) ==
  {ChangeOf("create", d, r) : r \in {w \in want :
     \A e \in view : e.name # w.name}}
  \cup {ChangeOf("update", d, r) : r \in {w \in want :
          \E e \in view : e.name = w.name /\ ~SameRecord(e, w)}}
  \cup {ChangeOf("delete", d, e) : e \in {v \in view :
          \A w \in want : w.name # v.name}}

TakeTurn == turns > 0 /\ turns' = turns - 1

Start(c, D) ==
  /\ cmd = "idle" /\ TakeTurn
  /\ cfg' = c /\ scope' = D
  /\ before' = zone /\ touched' = (c # dnsYaml) /\ failed' = 0 /\ lost' = 0

Filtered(changes, N) == {ch \in changes : ch.record.name \in N}

\* dns plan and dns apply: the state they plan against has no records, so
\* every configured record is to be created.  --domain and --record keep the
\* changes whose name contains them.
DNSPlan(D, N) ==
  /\ Start(dnsYaml, D)
  /\ cmd' = "confirm"
  /\ listed' = FALSE
  /\ plan' = Filtered(UNION {RecordPlan(d, Wanted(dnsYaml, d), {}) : d \in D}, N)
  /\ UNCHANGED <<dnsYaml, held, zone, nextId, call, diffs>>

\* The plan of the terminal interface: it lists the domains that have a
\* selected record and plans for one of them.  A listing that fails counts as
\* an empty one.
GeneratePlan(d) ==
  /\ d \in DOMAIN held /\ held[d] # <<>>
  /\ Start(held, {d})
  /\ cmd' = "confirm"
  /\ \/ /\ d \in Hosted
        /\ listed' = TRUE
        /\ \E S \in Listings(d) : \E V \in Views(S) :
             plan' = RecordPlan(d, Wanted(held, d), V)
     \/ /\ listed' = FALSE
        /\ plan' = RecordPlan(d, Wanted(held, d), {})
  /\ UNCHANGED <<dnsYaml, held, zone, nextId, call, diffs>>

\* With no record selected nothing is listed and everything is planned for.
GeneratePlanOfAll ==
  /\ Start(held, DOMAIN held)
  /\ cmd' = "confirm"
  /\ listed' = FALSE
  /\ plan' = UNION {RecordPlan(d, Wanted(held, d), {}) : d \in DOMAIN held}
  /\ UNCHANGED <<dnsYaml, held, zone, nextId, call, diffs>>

End ==
  /\ cmd' = "idle"
  /\ cfg' = held /\ scope' = {} /\ plan' = {} /\ call' = None /\ diffs' = {}
  /\ listed' = FALSE /\ failed' = 0 /\ lost' = 0 /\ touched' = FALSE
  /\ before' = zone
  /\ UNCHANGED <<dnsYaml, held, zone, nextId, turns>>

\* Nothing to do, or the operator does not confirm.
Abandon == cmd = "confirm" /\ End
Dismiss == cmd \in {"applied", "saved", "ensured"} /\ End

Confirm ==
  /\ cmd = "confirm" /\ plan # {}
  /\ cmd' = "apply"
  /\ UNCHANGED <<dnsYaml, held, zone, nextId, others, cfg, scope, plan, call,
                 diffs, before, listed, failed, lost>>
-----------------------------------------------------------------------------
(* Carrying out, one change after the other whatever became of the last. *)

NextCommand(rest) == cmd' = IF rest = {} THEN "applied" ELSE "apply"
HandlerFrame == UNCHANGED <<dnsYaml, held, others, cfg, scope, diffs, before,
                            listed>>

MatchingAnyName(d, S, r) == {e \in S : d \notin Cloudflare}

\* The entries the handler takes for the record: it compares the listed names.
Matching(d, S, r) == {e \in S : ListedName(d, e.name) = r.name}

\* A create is one call, without a look at what is there.
CreateRecord(ch) ==
  /\ cmd = "apply" /\ ch.type = "create"
  /\ \E o \in Outcome :
       /\ ch.domain \notin Hosted => o = "refused"
       /\ Create(ch.domain, ch.record, o)
       /\ Count(o)
  /\ plan' = plan \ {ch}
  /\ NextCommand(plan')
  /\ HandlerFrame /\ UNCHANGED call

\* Update and delete list first ...
ListRecords(ch) ==
  /\ cmd = "apply" /\ ch.type # "create"
  /\ \/ /\ ch.domain \in Hosted
        /\ \E S \in Listings(ch.domain) :
             LET found == Matching(ch.domain, S, ch.record) IN
             \/ /\ found = {}
                /\ call' = [change |-> ch, id |-> None]
             \/ \E e \in found : call' = [change |-> ch, id |-> e.id]
        /\ cmd' = "act"
        /\ UNCHANGED <<plan, failed, lost>>
     \/ /\ plan' = plan \ {ch}
        /\ NextCommand(plan')
        /\ Count("refused")
        /\ UNCHANGED call
  /\ HandlerFrame /\ UNCHANGED <<zone, nextId>>

\* ... and then change the first match.
UpdateRecord(o) ==
  IF call.id # None
    THEN Update(call.change.domain, call.id, call.change.record, o) /\ Count(o)
    ELSE Create(call.change.domain, call.change.record, o) /\ Count(o)

DeleteRecord(o) ==
  IF call.id # None
    THEN Delete(call.change.domain, call.id, o) /\ Count(o)
    ELSE UNCHANGED <<zone, nextId, failed, lost>>

ActOnRecord ==
  /\ cmd = "act"
  /\ \E o \in Outcome :
       IF call.change.type = "update" THEN UpdateRecord(o) ELSE DeleteRecord(o)
  /\ plan' = plan \ {call.change}
  /\ NextCommand(plan')
  /\ call' = None
  /\ HandlerFrame
-----------------------------------------------------------------------------
(* dns pull *)

RecordDiff(type, d, id, r) ==
  [type |-> type, domain |-> d, id |-> id,
   name |-> r.name, value |-> r.value, ttl |-> r.ttl]

SameValue(x, y) == x.name = y.name /\ x.value = y.value

\* The file's records by name and value, of several the last.
LocalMap(c, d) ==
  {c[d][i] : i \in {j \in DOMAIN c[d] :
     \A k \in DOMAIN c[d] : k > j => ~SameValue(c[d][k], c[d][j])}}

\* The entries that come first in the listing under their name and value.
Firsts(S) ==
  {F \in SUBSET S : \A e \in S : Cardinality({f \in F : SameValue(e, f)}) = 1}

\* Of a name and value listed twice only the first can be the file's; the
\* second is new.
RecordDiffs(c, d, S, F) ==
  LET local == LocalMap(c, d)
      new == {e \in S : e \notin F \/ \A r \in local : ~SameValue(e, r)}
  IN {RecordDiff("create", d, e.id, e) : e \in new}
     \cup {RecordDiff("update", d, e.id, e) : e \in {x \in S \ new :
             \E r \in local : SameValue(x, r) /\ r.ttl # x.ttl}}
     \cup {RecordDiff("delete", d, 0, r) : r \in {x \in local :
             \A e \in S : ~SameValue(e, x)}}

DomainDiff(type, d) == [type |-> type, domain |-> d]

\* Only domains the configuration keeps at this provider are dropped.
DomainDiffs(c, D, S) ==
  {DomainDiff("create", d) : d \in S \ DOMAIN c}
  \cup {DomainDiff("delete", d) : d \in (DOMAIN c \cap D) \ S}

\* What is loaded and listed is compared at once; edits come before or after.
Pulled(c, D, by, what, found) ==
  /\ Start(c, D)
  /\ listed' = TRUE
  /\ diffs' = found /\ call' = [by |-> by, what |-> what]
  /\ cmd' = IF found = {} THEN "saved" ELSE "pulled"
  /\ UNCHANGED <<dnsYaml, held, zone, nextId, plan>>

PullRecordsOf(c, d, by) ==
  /\ d \in DOMAIN c \cap Hosted
  /\ \E S \in Listings(d) : \E F \in Firsts(S) :
       Pulled(c, {d}, by, "records", RecordDiffs(c, d, S, F))

PullDomainsOf(c, D, by) ==
  \E S \in DomainListings(D) :
    Pulled(c, D, by, "domains", DomainDiffs(c, D, S))

PullRecords(d) == PullRecordsOf(dnsYaml, d, "command")
PullDomains(D) == PullDomainsOf(dnsYaml, D, "command")

\* In the terminal interface, with the configuration it holds.
FetchRecordDiffs(d) == PullRecordsOf(held, d, "terminal")
FetchDomainDiffs(D) == PullDomainsOf(held, D, "terminal")

\* New domains without records first, then those that are not dropped.
SavedDomains(c, sel) ==
  LET new == {x.domain : x \in {y \in sel : y.type = "create"}}
      gone == {x.domain : x \in {y \in sel : y.type = "delete"}}
  IN [d \in new \cup (DOMAIN c \ gone) |-> IF d \in new THEN <<>> ELSE c[d]]

DroppedIfDeleted(d, r, sel) ==
  \E x \in sel : x.domain = d /\ x.name = r.name /\ x.type = "delete"

\* A deleted or updated record takes every record of its name along.
Dropped(d, r, sel) ==
  \E x \in sel : x.domain = d /\ x.name = r.name /\ x.type \in {"delete", "update"}

AsRecord(x) == [name |-> x.name, value |-> x.value, ttl |-> x.ttl]

\* The records that stay, and after them the created and updated ones; of
\* their order only that within a name is told apart, and that is any.
SavedRecords(c, sel) ==
  {[d \in DOMAIN c |->
      FlattenSeq([i \in DOMAIN c[d] |->
                   IF Dropped(d, c[d][i], sel) THEN <<>> ELSE <<c[d][i]>>])
      \o IF \E x \in sel : x.domain = d
           THEN [i \in DOMAIN added |-> AsRecord(added[i])] ELSE <<>>] :
     added \in SetToSeqs({y \in sel : y.type # "delete"})}

Save(sel) ==
  /\ sel # {} /\ sel \subseteq diffs
  /\ IF call.what = "domains"
       THEN dnsYaml' = SavedDomains(cfg, sel)
       ELSE dnsYaml' \in SavedRecords(cfg, sel)
  /\ diffs' = diffs \ sel
  /\ cmd' = "saved"
  /\ UNCHANGED <<zone, nextId, others, cfg, scope, plan, call, before, listed,
                 failed, lost>>

\* The command ends; the terminal interface reads the file again.
SaveSelected ==
  /\ cmd = "pulled" /\ call.by = "command"
  /\ \E sel \in SUBSET diffs : Save(sel)
  /\ UNCHANGED held

SaveSelectedDiffs ==
  /\ cmd = "pulled" /\ call.by = "terminal"
  /\ \E sel \in SUBSET diffs : Save(sel)
  /\ held' = dnsYaml'

AbandonPull == cmd = "pulled" /\ End
-----------------------------------------------------------------------------
(* EnsureRecord: list, and then update the first match or create, each call  *)
(* repeated while its error passes for a temporary one.                      *)

EnsureFrame == UNCHANGED <<dnsYaml, held, others, cfg, scope, plan, diffs,
                           before, listed>>

EnsureRecord(d, r) ==
  /\ cmd = "idle" /\ TakeTurn /\ d \in Hosted
  /\ cmd' = "ensure"
  /\ call' = [op |-> "list", domain |-> d, record |-> r, id |-> None, attempt |-> 1,
              result |-> None]
  /\ scope' = {d}
  /\ before' = zone /\ touched' = FALSE /\ failed' = 0 /\ lost' = 0
  /\ UNCHANGED <<dnsYaml, held, zone, nextId, cfg, plan, diffs, listed>>

Return(result) ==
  /\ cmd' = "ensured"
  /\ call' = [call EXCEPT !.result = result]

\* A next operation begins again with its first attempt.
Then(op, id) ==
  /\ call' = [call EXCEPT !.op = op, !.id = id, !.attempt = 1]
  /\ UNCHANGED cmd

RetryOrForget ==
  \/ Return("ok")
  \/ /\ call.attempt < MaxAttempts
     /\ call' = [call EXCEPT !.attempt = @ + 1]
     /\ UNCHANGED cmd

\* Do after an error: a lasting one is returned, and so is the last one.
RetryOrReturn ==
  \/ Return("error")
  \/ /\ call.attempt < MaxAttempts
     /\ call' = [call EXCEPT !.attempt = @ + 1]
     /\ UNCHANGED cmd

MayTry(op) == cmd = "ensure" /\ call.op = op /\ call.attempt <= MaxAttempts

EnsureList ==
  /\ MayTry("list")
  /\ \/ \E S \in Listings(call.domain) :
          LET found == Matching(call.domain, S, call.record) IN
          \/ /\ found = {}
             /\ Then("create", None)
          \/ \E e \in found :
               IF SameRecord(e, call.record) THEN Return("ok")
               ELSE Then("update", e.id)
        /\ UNCHANGED <<failed, lost>>
     \/ RetryOrReturn /\ Count("refused")
  /\ EnsureFrame /\ UNCHANGED <<zone, nextId>>

EnsureWrite ==
  /\ MayTry("create") \/ MayTry("update")
  /\ \E o \in Outcome :
       /\ IF call.op = "create" THEN Create(call.domain, call.record, o)
          ELSE Update(call.domain, call.id, call.record, o)
       /\ Count(o)
       /\ IF o = "done" THEN Return("ok") ELSE RetryOrReturn
  /\ EnsureFrame

\* The context ends before an attempt or during the delay after it; and with
\* no attempts allowed there is none.
EnsureStops ==
  /\ cmd = "ensure"
  /\ Return("error")
  /\ EnsureFrame /\ UNCHANGED <<zone, nextId, failed, lost>>
-----------------------------------------------------------------------------
(* Others, and the terminal interface's reload. *)

Reload ==
  /\ cmd = "idle" /\ held # dnsYaml
  /\ held' = dnsYaml /\ cfg' = dnsYaml
  /\ UNCHANGED <<dnsYaml, zone, nextId, others, cmd, scope, plan, call, diffs,
                 before,
                 listed, failed, lost>>

EditFrame ==
  /\ TakeTurn
  /\ touched' = TRUE
  /\ UNCHANGED <<held, cmd, cfg, scope, plan, call, diffs, before, listed, failed, lost>>

EditFile ==
  /\ dnsYaml' \in Files \ {dnsYaml}
  /\ EditFrame /\ UNCHANGED <<zone, nextId>>

EditZone(d) ==
  /\ \/ \E r \in Given : Create(d, r, "done")
     \/ \E e \in zone[d] : Delete(d, e.id, "done")
  /\ EditFrame /\ UNCHANGED dnsYaml

Command ==
  \/ \E D \in {DOMAIN dnsYaml} \cup {{d} : d \in DOMAIN dnsYaml},
        N \in SUBSET Name : DNSPlan(D, N)
  \/ \E d \in Domain : GeneratePlan(d) \/ PullRecords(d) \/ FetchRecordDiffs(d)
  \/ GeneratePlanOfAll
  \/ \E D \in {Cloudflare, Domain \ Cloudflare} : PullDomains(D) \/ FetchDomainDiffs(D)
  \/ \E d \in Domain, r \in Given : EnsureRecord(d, r)

Step ==
  \/ Confirm \/ (\E ch \in plan : CreateRecord(ch) \/ ListRecords(ch)) \/ ActOnRecord
  \/ SaveSelected \/ SaveSelectedDiffs
  \/ EnsureList \/ EnsureWrite \/ EnsureStops
  \/ Abandon \/ AbandonPull \/ Dismiss

Next == Command \/ Step \/ Reload \/ EditFile \/ \E d \in Domain : EditZone(d)

Spec == Init /\ [][Next]_vars
-----------------------------------------------------------------------------
\* The variables have their types.
TypeOK ==
  /\ DOMAIN dnsYaml \subseteq Domain /\ DOMAIN held \subseteq Domain
  /\ DOMAIN cfg \subseteq Domain
  /\ \A d \in DOMAIN dnsYaml : dnsYaml[d] \in Seq(Record)
  /\ \A d \in Domain : zone[d] \in SUBSET Entry
  /\ nextId \in Nat /\ turns \in 0..MaxTurns
  /\ cmd \in {"idle", "confirm", "apply", "act", "applied", "pulled", "saved",
              "ensure", "ensured"}
  /\ scope \subseteq Domain
  /\ \A ch \in plan : ch.type \in {"create", "update", "delete"} /\ ch.domain \in scope
  /\ cmd = "act" => call.change \in plan

OnePerName(R) == \A x, y \in R : x.name = y.name => x = y
FitsPage(d) == d \in Cloudflare \/ Cardinality(zone[d]) <= PageSize
Serves(d, r) ==
  \E e \in zone[d] : e.name = r.name /\ e.value = r.value /\ e.ttl = r.ttl

\* A plan of the terminal interface that lists and finds nothing to do means
\* the provider serves every record planned for, and no other name.
QuietMeansServed ==
  (cmd = "confirm" /\ plan = {} /\ listed /\ ~touched) =>
    \A d \in scope :
      /\ \A r \in Wanted(cfg, d) : Serves(d, r)
      /\ FitsPage(d) =>
           \A e \in zone[d] : \E r \in Wanted(cfg, d) : r.name = e.name

NamesOf(R) == {r.name : r \in R}

\* After an apply every call of which was answered, the terminal interface
\* plans nothing more: if the names are listed as they are configured, had one
\* entry each, no ttl is left to the provider, and the names that were there
\* and those configured fit the first page together (what is created first may
\* push what is still to be updated off the page, and then it is made twice).
RepeatIsQuiet ==
  (cmd = "applied" /\ listed /\ failed = 0 /\ ~touched) =>
    \A d \in scope :
      (/\ d \notin Cloudflare /\ OnePerName(before[d])
       /\ Cardinality(NamesOf(before[d]) \cup NamesOf(Wanted(cfg, d))) <= PageSize
       /\ \A r \in Wanted(cfg, d) : r.ttl # 0) =>
         \A V \in Views(zone[d]) : RecordPlan(d, Wanted(cfg, d), V) = {}

\* While a plan is carried out and nobody else edits, an entry that was there
\* disappears only if the configuration has no record of its name, and gets
\* other data only if it has one; entries of domains out of scope stay.
RemovesOnlyUnconfigured ==
  (cmd \in {"apply", "act", "applied"} /\ ~touched) =>
    \A d \in Domain : \A e \in before[d] \ zone[d] :
      /\ d \in scope
      /\ Has(d, e.id) <=> \E r \in Wanted(cfg, d) : r.name = e.name

\* After a pull that was saved whole, with no edit meanwhile: where the provider
\* has no value of a name twice, the file has what it lists of every name all or
\* none of whose values were right before; and where all the provider's domains
\* were listed it has those, and those it had with their records.
PullTakesOver ==
  (cmd = "saved" /\ diffs = {} /\ ~touched) =>
    IF call.what = "domains"
    THEN Cardinality(scope \cap Hosted) <= PageSize =>
           /\ scope \cap DOMAIN dnsYaml = scope \cap Hosted
           /\ \A d \in DOMAIN cfg \cap Hosted : dnsYaml[d] = cfg[d]
    ELSE \A d \in scope :
           FitsPage(d) /\ (\A x, y \in zone[d] : SameValue(x, y) => x = y) =>
             \A n \in Name :
               LET of(R) == {[value |-> r.value, ttl |-> r.ttl] :
                               r \in {x \in R : x.name = n}}
                   here == of(Range(cfg[d]))  there == of(zone[d])
               IN here \cap there \in {{}, here} => of(Range(dnsYaml[d])) = there

\* EnsureRecord leaves the record served when it says so; every entry it makes
\* beyond that needs a lost answer; and where the name is listed as it is
\* configured and is there, it makes none.
EnsureAddsOne ==
  (cmd \in {"ensure", "ensured"} /\ ~touched) =>
    LET d == call.domain  r == call.record
        served == {e \in zone[d] : e.value = r.value /\ e.ttl = StoredTTL(d, r)}
    IN /\ Cardinality(zone[d]) <= Cardinality(before[d]) + lost
            + (IF call.result = "ok" THEN 1 ELSE 0)
       /\ call.result = "ok" => \E e \in served : e.name = r.name
       /\ (/\ d \notin Cloudflare /\ Cardinality(before[d]) <= PageSize
           /\ \E e \in before[d] : e.name = r.name) =>
             Cardinality(zone[d]) = Cardinality(before[d])
-----------------------------------------------------------------------------
(* What the documentation says and the code does not do. *)

\* docs/system-design.md:1002 forbids two records of one type, name and value only,
\* so records of one name with different values are configured side by side: with
\* nothing left to plan, the provider should serve every one of them (the map of
\* differ_records.go:12 has no value in its key).
EveryValueIsServed ==
  (cmd = "confirm" /\ plan = {} /\ listed /\ ~touched) =>
    \A d \in scope : \A i \in DOMAIN cfg[d] :
      \E e \in zone[d] : e.name = cfg[d][i].name /\ e.value = cfg[d][i].value

\* README.md:734 calls CREATE the change of a resource that does not exist: a record
\* the provider already serves as configured would not be created (dns plan and
\* apply plan against a state without records, dns.go; a listing that fails counts
\* as an empty one, tui_tree.go:328).
CreatesTheAbsent ==
  (cmd = "confirm" /\ ~touched) =>
    \A ch \in plan : ch.type = "create" => ~Serves(ch.domain, ch.record)
=============================================================================
