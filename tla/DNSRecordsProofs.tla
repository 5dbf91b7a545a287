--------------------------- MODULE DNSRecordsProofs ---------------------------
(***************************************************************************)
(* What dns apply, the plans and pulls of the terminal interface and       *)
(* EnsureRecord leave at the providers and in the file, for all domains,   *)
(* files and zones, pages of any size and any number of commands.          *)
(***************************************************************************)
EXTENDS DNSRecords, FiniteSetTheorems, WellFoundedInduction, TLAPS

-----------------------------------------------------------------------------
(* Types.                                                                  *)

FileOK(f) ==
  /\ f = [d \in DOMAIN f |-> f[d]] /\ DOMAIN f \subseteq Domain
  /\ \A d \in DOMAIN f : f[d] \in Seq(Record)

\* Entries are told apart by their ids, which the provider has given out, and
\* have a ttl.
ZoneOK(S, next) ==
  /\ S \subseteq Entry /\ IsFiniteSet(S)
  /\ \A e \in S : e.id < next /\ e.ttl # 0
  /\ \A e, f \in S : e.id = f.id => e = f

FilesOK == FileOK(dnsYaml) /\ FileOK(held) /\ FileOK(cfg)

ZonesOK ==
  /\ nextId \in Nat \ {0}
  /\ zone = [d \in Domain |-> zone[d]] /\ before = [d \in Domain |-> before[d]]
  /\ \A d \in Domain : ZoneOK(zone[d], nextId) /\ ZoneOK(before[d], nextId)

\* A change writes a record the configuration has, or deletes an entry whose
\* name it does not have.
Planned(ch, c, D) ==
  /\ ch.type \in {"create", "update", "delete"} /\ ch.domain \in D
  /\ ch = ChangeOf(ch.type, ch.domain, ch.record)
  /\ IF ch.type = "delete"
       THEN \A w \in Wanted(c, ch.domain) : w.name # ch.record.name
       ELSE ch.record \in Wanted(c, ch.domain)
  /\ ch.record.name \in Name

\* Changes are left only while they are carried out.
PlanOK ==
  /\ plan # {} => cmd \in {"confirm", "apply", "act"}
  /\ \A ch \in plan : Planned(ch, cfg, scope)

ActOK ==
  cmd = "act" => /\ call.change \in plan /\ call.change.type # "create"
                 /\ call.id \in Nat \cup {None}

EnsureCall ==
  [op : {"list", "create", "update"}, domain : Hosted, record : Given,
   id : Nat \cup {None}, attempt : Nat, result : {None, "ok", "error"}]

EnsureOK ==
  cmd \in {"ensure", "ensured"} =>
    /\ call \in EnsureCall
    /\ cmd = "ensure" => /\ call.result = None
                         /\ call.op = "update" => call.id \in Nat

\* What a pull may find.
RecordFound(x) ==
  /\ x.type \in {"create", "update", "delete"}
  /\ x.name \in Name /\ x.value \in Value /\ x.ttl \in Nat

PullOK ==
  cmd = "pulled" =>
    IF call.what = "domains"
    THEN \A x \in diffs : x.domain \in Domain
    ELSE IsFiniteSet(diffs) /\ \A x \in diffs : RecordFound(x)

CountsOK ==
  /\ turns \in 0..MaxTurns /\ failed \in Nat /\ lost \in Nat
  /\ cmd \in {"idle", "confirm", "apply", "act", "applied", "pulled", "saved",
              "ensure", "ensured"}
  /\ scope \subseteq Domain

Typed == FilesOK /\ ZonesOK /\ PlanOK /\ ActOK /\ EnsureOK /\ PullOK /\ CountsOK

LEMMA TypedIsType == Typed => TypeOK
BY DEF Typed, FilesOK, ZonesOK, PlanOK, Planned, ActOK, CountsOK, FileOK,
       ZoneOK, TypeOK
-----------------------------------------------------------------------------
(* What is wanted, written and listed.                                     *)

LEMMA WantedRecords ==
  ASSUME NEW c, FileOK(c), NEW d
  PROVE  Wanted(c, d) \subseteq Record /\ OnePerName(Wanted(c, d))
<1>1. CASE d \notin DOMAIN c
  BY <1>1 DEF Wanted, OnePerName
<1>2. CASE d \in DOMAIN c
  <2>1. c[d] \in Seq(Record)
    BY <1>2 DEF FileOK
  <2>2. \A j \in DOMAIN c[d] : j \in Nat /\ c[d][j] \in Record
    BY <2>1
  <2>3. Wanted(c, d) =
          {c[d][i] : i \in {j \in DOMAIN c[d] :
             \A k \in DOMAIN c[d] : k > j => c[d][k].name # c[d][j].name}}
    BY <1>2 DEF Wanted
  <2> QED
    BY <2>2, <2>3 DEF OnePerName
<1> QED
  BY <1>1, <1>2

LEMMA EntryWritten ==
  ASSUME NEW d \in Domain, NEW id \in Nat, NEW r, r \in Record \/ r \in Given
  PROVE  /\ AsEntry(d, id, r) \in Entry
         /\ AsEntry(d, id, r).id = id /\ AsEntry(d, id, r).name = r.name
         /\ AsEntry(d, id, r).value = r.value
         /\ AsEntry(d, id, r).ttl = StoredTTL(d, r)
         /\ StoredTTL(d, r) # 0
         /\ r.ttl # 0 => StoredTTL(d, r) = r.ttl
BY DomainsAssumption DEF AsEntry, StoredTTL, Record, Given, Entry

\* A full name is no relative one: what matches is listed by its own name.
LEMMA MatchesByName ==
  ASSUME NEW d \in Domain, NEW S, NEW r, r.name \in Name,
         NEW e \in Matching(d, S, r), e.name \in Name
  PROVE  e \in S /\ d \notin Cloudflare /\ e.name = r.name
BY DomainsAssumption DEF Matching, ListedName

LEMMA ListsEntries ==
  ASSUME NEW d \in Domain, NEW S \in Listings(d)
  PROVE  /\ S \subseteq zone[d]
         /\ FitsPage(d) => S = zone[d]
BY DEF Listings, FirstPage, FitsPage

LEMMA ZoneGrows ==
  ASSUME NEW S, NEW next \in Nat, ZoneOK(S, next),
         NEW e \in Entry, e.id = next, e.ttl # 0
  PROVE  ZoneOK(S \cup {e}, next + 1)
<1>1. IsFiniteSet(S \cup {e})
  BY FS_AddElement DEF ZoneOK
<1>2. \A f \in S : f.id \in Nat /\ f.id < next
  BY DEF ZoneOK, Entry
<1> QED
  BY <1>1, <1>2 DEF ZoneOK

LEMMA ZoneShrinks ==
  ASSUME NEW S, NEW next, ZoneOK(S, next), NEW T \in SUBSET S
  PROVE  ZoneOK(T, next)
BY FS_Subset DEF ZoneOK

LEMMA ZoneLater ==
  ASSUME NEW S, NEW next \in Nat, ZoneOK(S, next)
  PROVE  ZoneOK(S, next + 1)
BY DEF ZoneOK, Entry

LEMMA ZoneRewrites ==
  ASSUME NEW S, NEW next \in Nat, ZoneOK(S, next), NEW x \in S,
         NEW e \in Entry, e.id = x.id, e.ttl # 0
  PROVE  ZoneOK({f \in S : f.id # x.id} \cup {e}, next)
<1> DEFINE T == {f \in S : f.id # x.id}
<1>1. ZoneOK(T, next)
  BY ZoneShrinks
<1>2. IsFiniteSet(T \cup {e})
  BY <1>1, FS_AddElement DEF ZoneOK
<1>3. \A f \in T : f.id # e.id
  OBVIOUS
<1>4. e.id < next
  BY DEF ZoneOK
<1> QED
  BY <1>1, <1>2, <1>3, <1>4 DEF ZoneOK
-----------------------------------------------------------------------------
(* The provider's calls keep the types.                                    *)

LEMMA CreateTyped ==
  ASSUME ZonesOK, NEW d \in Domain, NEW r, r \in Record \/ r \in Given, NEW o,
         Create(d, r, o), UNCHANGED before
  PROVE  ZonesOK'
<1>1. CASE o = "refused"
  BY <1>1 DEF Create, ZonesOK
<1>2. CASE o # "refused"
  <2> DEFINE e == AsEntry(d, nextId, r)
  <2>1. /\ zone' = [zone EXCEPT ![d] = zone[d] \cup {e}]
        /\ nextId' = nextId + 1
    BY <1>2 DEF Create
  <2>2. e \in Entry /\ e.id = nextId /\ e.ttl # 0
    BY EntryWritten DEF ZonesOK
  <2> HIDE DEF e
  <2>3. \A q \in Domain : zone'[q] = IF q = d THEN zone[d] \cup {e} ELSE zone[q]
    BY <2>1 DEF ZonesOK
  <2>4. zone' = [q \in Domain |-> zone'[q]]
    BY <2>1 DEF ZonesOK
  <2>5. \A q \in Domain : ZoneOK(zone'[q], nextId')
    <3> SUFFICES ASSUME NEW q \in Domain PROVE ZoneOK(zone'[q], nextId')
      OBVIOUS
    <3>1. nextId \in Nat /\ ZoneOK(zone[q], nextId)
      BY DEF ZonesOK
    <3>2. CASE q = d
      BY <2>1, <2>2, <2>3, <3>1, <3>2, ZoneGrows
    <3>3. CASE q # d
      BY <2>1, <2>3, <3>1, <3>3, ZoneLater
    <3> QED
      BY <3>2, <3>3
  <2>6. \A q \in Domain : ZoneOK(before[q], nextId')
    BY <2>1, ZoneLater DEF ZonesOK
  <2>7. nextId' \in Nat \ {0} /\ before' = [q \in Domain |-> before'[q]]
    BY <2>1 DEF ZonesOK
  <2> QED
    BY <2>4, <2>5, <2>6, <2>7 DEF ZonesOK
<1> QED
  BY <1>1, <1>2

LEMMA UpdateTyped ==
  ASSUME ZonesOK, NEW d \in Domain, NEW id \in Nat,
         NEW r, r \in Record \/ r \in Given, NEW o,
         Update(d, id, r, o), UNCHANGED before
  PROVE  ZonesOK'
<1>1. CASE o = "refused"
  BY <1>1 DEF Update, ZonesOK
<1>2. CASE o # "refused"
  <2> DEFINE e == AsEntry(d, id, r)
  <2>1. PICK x \in zone[d] : x.id = id
    BY <1>2 DEF Update, Has
  <2>2. /\ zone' = [zone EXCEPT ![d] = {f \in zone[d] : f.id # x.id} \cup {e}]
        /\ nextId' = nextId
    BY <1>2, <2>1 DEF Update, Without
  <2>3. e \in Entry /\ e.id = x.id /\ e.ttl # 0
    BY <2>1, EntryWritten
  <2> HIDE DEF e
  <2>4. \A q \in Domain : zone'[q] = IF q = d THEN {f \in zone[d] : f.id # x.id} \cup {e}
                                     ELSE zone[q]
    BY <2>2 DEF ZonesOK
  <2>5. zone' = [q \in Domain |-> zone'[q]]
    BY <2>2 DEF ZonesOK
  <2>6. \A q \in Domain : ZoneOK(zone'[q], nextId')
    BY <2>2, <2>3, <2>4, ZoneRewrites DEF ZonesOK
  <2> QED
    BY <2>2, <2>5, <2>6 DEF ZonesOK
<1> QED
  BY <1>1, <1>2

LEMMA DeleteTyped ==
  ASSUME ZonesOK, NEW d \in Domain, NEW id, NEW o,
         Delete(d, id, o), UNCHANGED before
  PROVE  ZonesOK'
<1>1. CASE o = "refused"
  BY <1>1 DEF Delete, ZonesOK
<1>2. CASE o # "refused"
  <2>1. /\ zone' = [zone EXCEPT ![d] = {f \in zone[d] : f.id # id}]
        /\ nextId' = nextId
    BY <1>2 DEF Delete, Without
  <2>2. \A q \in Domain : zone'[q] \in SUBSET zone[q]
    BY <2>1 DEF ZonesOK
  <2>3. zone' = [q \in Domain |-> zone'[q]]
    BY <2>1 DEF ZonesOK
  <2>4. \A q \in Domain : ZoneOK(zone'[q], nextId')
    BY <2>1, <2>2, ZoneShrinks DEF ZonesOK
  <2> QED
    BY <2>1, <2>3, <2>4 DEF ZonesOK
<1> QED
  BY <1>1, <1>2
-----------------------------------------------------------------------------
(* At first.                                                               *)

LEMMA FilesTyped == \A f \in Files : FileOK(f)
<1> SUFFICES ASSUME NEW f \in Files, NEW d \in DOMAIN f
             PROVE  f[d] \in Seq(Given) => f[d] \in Seq(Record)
  BY FilesAssumption DEF FileOK
<1>1. Given \subseteq Record
  BY DomainsAssumption DEF Given, Record
<1> QED
  BY <1>1

LEMMA InitTyped == Init => Typed
<1> SUFFICES ASSUME Init PROVE Typed
  OBVIOUS
<1> DEFINE all == UNION {zone[d] : d \in Domain}
<1>1. /\ zone \in [Domain -> SUBSET Entry] /\ IsFiniteSet(all)
      /\ \A e \in all : e.id \in 1..Cardinality(all) /\ e.ttl # 0
      /\ \A e, f \in all : e.id = f.id => e = f
  BY ZonesAssumption DEF Init
<1>2. nextId = 1 + Cardinality(all) /\ before = zone
  BY DEF Init
<1>3. Cardinality(all) \in Nat
  BY <1>1, FS_CardinalityType
<1>4. \A d \in Domain : zone[d] \subseteq all
  OBVIOUS
<1> HIDE DEF all
<1>5. nextId \in Nat \ {0}
  BY <1>2, <1>3
<1>6. \A d \in Domain : ZoneOK(zone[d], nextId)
  <2> SUFFICES ASSUME NEW d \in Domain PROVE ZoneOK(zone[d], nextId)
    OBVIOUS
  <2>1. zone[d] \subseteq Entry
    BY <1>1
  <2>2. IsFiniteSet(zone[d])
    BY <1>1, <1>4, FS_Subset
  <2>3. \A e \in zone[d] : e.id < nextId
    <3> SUFFICES ASSUME NEW e \in zone[d] PROVE e.id < nextId
      OBVIOUS
    <3>1. e.id \in 1..Cardinality(all)
      BY <1>1, <1>4
    <3> QED
      BY <1>2, <1>3, <3>1
  <2> QED
    BY <1>1, <1>4, <2>1, <2>2, <2>3 DEF ZoneOK
<1>7. ZonesOK
  BY <1>1, <1>2, <1>5, <1>6 DEF ZonesOK
<1>8. FilesOK
  BY FilesTyped DEF Init, FilesOK
<1> QED
  BY <1>7, <1>8, PagesAssumption
     DEF Init, Typed, PlanOK, ActOK, EnsureOK, PullOK, CountsOK
-----------------------------------------------------------------------------
(* Commands begin with typed plans and findings.                           *)

LEMMA PlannedFromConfiguration ==
  ASSUME NEW c, FileOK(c), NEW D, NEW d \in D, NEW V, V \subseteq Entry,
         NEW ch \in RecordPlan(d, Wanted(c, d), V)
  PROVE  Planned(ch, c, D)
<1> DEFINE W == Wanted(c, d)
<1>1. W \subseteq Record
  BY WantedRecords
<1>2. \A r \in W : r.name \in Name
  BY <1>1 DEF Record
<1>3. \A e \in V : e.name \in Name
  BY DEF Entry
<1> HIDE DEF W
<1>4. \/ \E r \in W : ch = ChangeOf("create", d, r)
      \/ \E r \in W : ch = ChangeOf("update", d, r)
      \/ \E e \in V : ch = ChangeOf("delete", d, e) /\ \A w \in W : w.name # e.name
  BY DEF RecordPlan, W
<1>5. ASSUME NEW r \in W, NEW t \in {"create", "update"}, ch = ChangeOf(t, d, r)
      PROVE  Planned(ch, c, D)
  BY <1>2, <1>5 DEF Planned, ChangeOf, W
<1>6. ASSUME NEW e \in V, ch = ChangeOf("delete", d, e), \A w \in W : w.name # e.name
      PROVE  Planned(ch, c, D)
  BY <1>3, <1>6 DEF Planned, ChangeOf, W
<1> QED
  BY <1>4, <1>5, <1>6

\* What a command starts with is typed, and no zone changes.
LEMMA StartTyped ==
  ASSUME Typed, NEW c, FileOK(c), NEW D, D \subseteq Domain, Start(c, D),
         UNCHANGED <<dnsYaml, held, zone, nextId>>,
         cmd' \in {"confirm", "saved", "pulled"}, PullOK',
         plan' # {} => cmd' = "confirm",
         \A ch \in plan' : Planned(ch, c, D)
  PROVE  Typed'
<1>1. FilesOK'
  BY DEF Typed, FilesOK, Start
<1>2. ZonesOK'
  BY DEF Typed, ZonesOK, Start
<1>3. PlanOK' /\ ActOK' /\ EnsureOK'
  BY DEF Start, PlanOK, ActOK, EnsureOK
<1>4. CountsOK'
  <2>1. turns' = turns - 1 /\ turns > 0 /\ turns \in 0..MaxTurns
    BY DEF Typed, CountsOK, Start, TakeTurn
  <2>2. turns' \in 0..MaxTurns
    BY <2>1, PagesAssumption
  <2> QED
    BY <2>2 DEF Start, CountsOK
<1> QED
  BY <1>1, <1>2, <1>3, <1>4 DEF Typed

LEMMA IdlePlansNothing == ASSUME Typed, cmd = "idle" PROVE plan = {}
BY DEF Typed, PlanOK

LEMMA DNSPlanTyped ==
  ASSUME Typed, NEW D, D \subseteq DOMAIN dnsYaml, NEW N, DNSPlan(D, N)
  PROVE  Typed'
<1>1. FileOK(dnsYaml) /\ D \subseteq Domain
  BY DEF Typed, FilesOK, FileOK
<1>2. ASSUME NEW ch \in plan' PROVE Planned(ch, dnsYaml, D)
  <2>1. PICK d \in D : ch \in RecordPlan(d, Wanted(dnsYaml, d), {})
    BY <1>2 DEF DNSPlan, Filtered
  <2> QED
    BY <1>1, <2>1, PlannedFromConfiguration
<1>3. Start(dnsYaml, D) /\ cmd' = "confirm"
      /\ UNCHANGED <<dnsYaml, held, zone, nextId>>
  BY DEF DNSPlan
<1>4. PullOK'
  BY <1>3 DEF PullOK
<1> QED
  BY <1>1, <1>2, <1>3, <1>4, StartTyped

LEMMA GeneratePlanTyped ==
  ASSUME Typed, NEW d \in Domain, GeneratePlan(d)
  PROVE  Typed'
<1>1. FileOK(held)
  BY DEF Typed, FilesOK
<1>2. PICK V : V \subseteq Entry /\ plan' = RecordPlan(d, Wanted(held, d), V)
  <2>1. \A S \in Listings(d) : \A V \in Views(S) : V \subseteq Entry
    BY ListsEntries DEF Typed, ZonesOK, ZoneOK, Views
  <2> QED
    BY <2>1 DEF GeneratePlan
<1>3. \A ch \in plan' : Planned(ch, held, {d})
  BY <1>1, <1>2, PlannedFromConfiguration
<1>4. Start(held, {d}) /\ cmd' = "confirm"
      /\ UNCHANGED <<dnsYaml, held, zone, nextId>>
  BY DEF GeneratePlan
<1>5. PullOK'
  BY <1>4 DEF PullOK
<1> QED
  BY <1>1, <1>3, <1>4, <1>5, StartTyped

LEMMA GeneratePlanOfAllTyped ==
  ASSUME Typed, GeneratePlanOfAll
  PROVE  Typed'
<1>1. FileOK(held) /\ DOMAIN held \subseteq Domain
  BY DEF Typed, FilesOK, FileOK
<1>2. ASSUME NEW ch \in plan' PROVE Planned(ch, held, DOMAIN held)
  <2>1. PICK d \in DOMAIN held : ch \in RecordPlan(d, Wanted(held, d), {})
    BY <1>2 DEF GeneratePlanOfAll
  <2> QED
    BY <1>1, <2>1, PlannedFromConfiguration
<1>3. Start(held, DOMAIN held) /\ cmd' = "confirm"
      /\ UNCHANGED <<dnsYaml, held, zone, nextId>>
  BY DEF GeneratePlanOfAll
<1>4. PullOK'
  BY <1>3 DEF PullOK
<1> QED
  BY <1>1, <1>2, <1>3, <1>4, StartTyped
-----------------------------------------------------------------------------
(* What a pull finds.                                                      *)

LEMMA ImageIsFinite ==
  ASSUME NEW S, IsFiniteSet(S), NEW f, f = [x \in S |-> f[x]]
  PROVE  IsFiniteSet({f[x] : x \in S})
<1>1. f \in Surjection(S, {f[x] : x \in S})
  BY DEF Surjection
<1> QED
  BY <1>1, FS_Surjection

LEMMA LocalRecords ==
  ASSUME NEW c, FileOK(c), NEW d \in DOMAIN c
  PROVE  /\ IsFiniteSet(LocalMap(c, d))
         /\ LocalMap(c, d) \subseteq Record
<1> DEFINE J == {j \in DOMAIN c[d] :
                   \A k \in DOMAIN c[d] : k > j => ~SameValue(c[d][k], c[d][j])}
<1> DEFINE f == [i \in J |-> c[d][i]]
<1>1. c[d] \in Seq(Record)
  BY DEF FileOK
<1>2. DOMAIN c[d] = 1..Len(c[d]) /\ Len(c[d]) \in Nat
  BY <1>1
<1>3. IsFiniteSet(DOMAIN c[d])
  BY <1>2, FS_Interval
<1>4. J \subseteq DOMAIN c[d]
  OBVIOUS
<1>5. LocalMap(c, d) = {c[d][i] : i \in J}
  BY DEF LocalMap
<1> HIDE DEF J
<1>6. IsFiniteSet(J)
  BY <1>3, <1>4, FS_Subset
<1>7. IsFiniteSet({f[i] : i \in J})
  BY <1>6, ImageIsFinite
<1>8. {f[i] : i \in J} = LocalMap(c, d)
  BY <1>5
<1>9. \A i \in J : c[d][i] \in Record
  BY <1>1, <1>4
<1> QED
  BY <1>5, <1>7, <1>8, <1>9

LEMMA RecordsFound ==
  ASSUME NEW c, FileOK(c), NEW d \in DOMAIN c,
         NEW S, S \subseteq Entry, IsFiniteSet(S), NEW F
  PROVE  /\ IsFiniteSet(RecordDiffs(c, d, S, F))
         /\ \A x \in RecordDiffs(c, d, S, F) : RecordFound(x)
<1> DEFINE local == LocalMap(c, d)
           new == {e \in S : e \notin F \/ \A r \in local : ~SameValue(e, r)}
           changed == {x \in S \ new : \E r \in local : SameValue(x, r) /\ r.ttl # x.ttl}
           gone == {x \in local : \A e \in S : ~SameValue(e, x)}
           A == [e \in new |-> RecordDiff("create", d, e.id, e)]
           B == [e \in changed |-> RecordDiff("update", d, e.id, e)]
           C == [r \in gone |-> RecordDiff("delete", d, 0, r)]
<1>1. IsFiniteSet(local) /\ local \subseteq Record
  BY LocalRecords
<1>2. new \subseteq S /\ changed \subseteq S /\ gone \subseteq local
  OBVIOUS
<1>3. RecordDiffs(c, d, S, F) =
        {A[e] : e \in new} \cup {B[e] : e \in changed} \cup {C[r] : r \in gone}
  BY DEF RecordDiffs
<1> HIDE DEF new, changed, gone, local
<1>4. IsFiniteSet(new) /\ IsFiniteSet(changed) /\ IsFiniteSet(gone)
  BY <1>1, <1>2, FS_Subset
<1>5. IsFiniteSet({A[e] : e \in new})
  BY <1>4, ImageIsFinite
<1>6. IsFiniteSet({B[e] : e \in changed})
  BY <1>4, ImageIsFinite
<1>7. IsFiniteSet({C[r] : r \in gone})
  BY <1>4, ImageIsFinite
<1>8. \A e \in new : RecordFound(A[e])
  BY <1>2 DEF RecordFound, RecordDiff, Entry
<1>9. \A e \in changed : RecordFound(B[e])
  BY <1>2 DEF RecordFound, RecordDiff, Entry
<1>10. \A r \in gone : RecordFound(C[r])
  BY <1>1, <1>2 DEF RecordFound, RecordDiff, Record
<1>11. IsFiniteSet({A[e] : e \in new} \cup {B[e] : e \in changed} \cup {C[r] : r \in gone})
  BY <1>5, <1>6, <1>7, FS_Union
<1> HIDE DEF A, B, C
<1> QED
  BY <1>3, <1>8, <1>9, <1>10, <1>11

LEMMA DomainsFound ==
  ASSUME NEW c, FileOK(c), NEW D, NEW S \in DomainListings(D)
  PROVE  \A x \in DomainDiffs(c, D, S) : x.domain \in Domain
<1>1. S \subseteq Domain
  BY DomainsAssumption DEF DomainListings, FirstPage
<1> QED
  BY <1>1 DEF FileOK, DomainDiffs, DomainDiff

LEMMA PulledTyped ==
  ASSUME Typed, NEW c, FileOK(c), NEW D, D \subseteq Domain, NEW by,
         NEW what, NEW found, Pulled(c, D, by, what, found),
         IF what = "domains" THEN \A x \in found : x.domain \in Domain
         ELSE IsFiniteSet(found) /\ \A x \in found : RecordFound(x)
  PROVE  Typed'
<1>1. Start(c, D) /\ UNCHANGED <<dnsYaml, held, zone, nextId>>
      /\ cmd' \in {"saved", "pulled"}
  BY DEF Pulled
<1>2. call'.what = what /\ diffs' = found
  BY DEF Pulled
<1>3. PullOK'
  BY <1>2 DEF PullOK
<1>4. plan' = {}
  BY IdlePlansNothing DEF Pulled, Start
<1> QED
  BY <1>1, <1>3, <1>4, StartTyped

LEMMA PullRecordsTyped ==
  ASSUME Typed, NEW c, FileOK(c), NEW d \in Domain, NEW by, PullRecordsOf(c, d, by)
  PROVE  Typed'
<1>1. PICK S \in Listings(d) : \E F \in Firsts(S) :
        Pulled(c, {d}, by, "records", RecordDiffs(c, d, S, F))
  BY DEF PullRecordsOf
<1>2. PICK F : Pulled(c, {d}, by, "records", RecordDiffs(c, d, S, F))
  BY <1>1
<1>3. S \subseteq Entry /\ IsFiniteSet(S)
  BY ListsEntries, FS_Subset DEF Typed, ZonesOK, ZoneOK
<1>4. d \in DOMAIN c
  BY DEF PullRecordsOf
<1> QED
  BY <1>2, <1>3, <1>4, RecordsFound, PulledTyped

LEMMA PullDomainsTyped ==
  ASSUME Typed, NEW c, FileOK(c), NEW D, D \subseteq Domain, NEW by,
         PullDomainsOf(c, D, by)
  PROVE  Typed'
BY DomainsFound, PulledTyped DEF PullDomainsOf
-----------------------------------------------------------------------------
(* Induction over the numbers, as a fact about sets of them, and what       *)
(* FlattenSeq makes of a sequence of sequences.                             *)

LEMMA LeastNumber ==
  ASSUME NEW S \in SUBSET Nat, S # {}
  PROVE  \E m \in S : \A k \in S : ~(k < m)
<1>1. PICK m \in S : \A k \in S : ~(<<k, m>> \in OpToRel(<, Nat))
  BY NatLessThanWellFounded, WFMin
<1>2. ASSUME NEW k \in S, k < m PROVE <<k, m>> \in OpToRel(<, Nat)
  BY <1>2 DEF OpToRel
<1> QED
  BY <1>1, <1>2

LEMMA SetInduction ==
  ASSUME NEW S \in SUBSET Nat, 0 \in S, \A n \in S : n + 1 \in S
  PROVE  S = Nat
<1> SUFFICES ASSUME Nat \ S # {} PROVE FALSE
  OBVIOUS
<1>1. PICK m \in Nat \ S : \A k \in Nat \ S : ~(k < m)
  BY LeastNumber
<1>2. m # 0 /\ m - 1 \in Nat /\ m - 1 < m /\ (m - 1) + 1 = m
  BY <1>1
<1> QED
  BY <1>1, <1>2

\* The recursive function by which FlattenSeq is defined exists.
LEMMA FlattenExists ==
  ASSUME NEW s, NEW n \in Nat
  PROVE  \E g : g = [i \in 1..n |-> IF i = 1 THEN s[i] ELSE g[i-1] \o s[i]]
<1> DEFINE Is(g, k) == g = [i \in 1..k |-> IF i = 1 THEN s[i] ELSE g[i-1] \o s[i]]
           K == {k \in Nat : \E g : Is(g, k)}
<1>1. 0 \in K
  <2>1. Is([i \in 1..0 |-> s], 0)
    OBVIOUS
  <2> QED
    BY <2>1
<1>2. ASSUME NEW k \in K PROVE k + 1 \in K
  <2>1. PICK g : Is(g, k)
    OBVIOUS
  <2> DEFINE h == [i \in 1..(k + 1) |-> IF i \in 1..k THEN g[i]
                                        ELSE IF i = 1 THEN s[i] ELSE g[i-1] \o s[i]]
  <2>2. k \in Nat
    OBVIOUS
  <2>3. \A i \in 1..k : g[i] = IF i = 1 THEN s[i] ELSE g[i-1] \o s[i]
    BY <2>1
  <2>4. \A i \in 1..(k + 1) : i # 1 => i - 1 \in 1..k /\ i - 1 \in 1..(k + 1)
    BY <2>2
  <2>5. \A i \in 1..(k + 1) : h[i] = IF i = 1 THEN s[i] ELSE h[i-1] \o s[i]
    <3> SUFFICES ASSUME NEW i \in 1..(k + 1)
                 PROVE  h[i] = IF i = 1 THEN s[i] ELSE h[i-1] \o s[i]
      OBVIOUS
    <3>1. i # 1 => h[i-1] = g[i-1]
      BY <2>4
    <3>2. h[i] = IF i = 1 THEN s[i] ELSE g[i-1] \o s[i]
      BY <2>3
    <3> QED
      BY <3>1, <3>2
  <2>6. h = [i \in 1..(k + 1) |-> h[i]]
    OBVIOUS
  <2> HIDE DEF h
  <2>7. Is(h, k + 1)
    BY <2>5, <2>6
  <2> HIDE DEF Is
  <2>8. \E f : Is(f, k + 1)
    BY <2>7
  <2> QED
    BY <2>2, <2>8
<1>3. n \in K
  <2> HIDE DEF K
  <2>1. K \in SUBSET Nat
    BY DEF K
  <2> QED
    BY <1>1, <1>2, <2>1, SetInduction
<1> QED
  BY <1>3

LEMMA FlattenByParts ==
  ASSUME NEW T, NEW s \in Seq(Seq(T)), Len(s) # 0
  PROVE  \E g \in [1..Len(s) -> Seq(T)] :
           /\ g[1] = s[1]
           /\ \A i \in 1..Len(s) : i # 1 => g[i] = g[i-1] \o s[i]
           /\ FlattenSeq(s) = g[Len(s)]
<1> DEFINE n == Len(s)
           g == CHOOSE g : g = [i \in 1..n |-> IF i = 1 THEN s[i] ELSE g[i-1] \o s[i]]
<1>1. n \in Nat /\ 1 \in 1..n
  OBVIOUS
<1>2. g = [i \in 1..n |-> IF i = 1 THEN s[i] ELSE g[i-1] \o s[i]]
  BY <1>1, FlattenExists
<1>3. FlattenSeq(s) = g[n]
  BY DEF FlattenSeq
<1>4. \A i \in 1..n : s[i] \in Seq(T)
  OBVIOUS
<1> HIDE DEF g, n
<1>5. g[1] = s[1] /\ \A i \in 1..n : i # 1 => g[i] = g[i-1] \o s[i]
  BY <1>1, <1>2
<1> DEFINE K == {k \in Nat : k \in 1..n => g[k] \in Seq(T)}
<1>6. 0 \in K
  BY <1>1
<1>7. ASSUME NEW k \in K PROVE k + 1 \in K
  <2> SUFFICES ASSUME k + 1 \in 1..n PROVE g[k + 1] \in Seq(T)
    OBVIOUS
  <2>1. CASE k = 0
    BY <1>4, <1>5, <2>1
  <2>2. CASE k # 0
    <3>1. k \in 1..n /\ k + 1 # 1 /\ (k + 1) - 1 = k
      BY <1>1, <2>2
    <3>2. g[k] \in Seq(T) /\ s[k + 1] \in Seq(T)
      BY <1>4, <3>1
    <3>3. g[k + 1] = g[k] \o s[k + 1]
      BY <1>5, <3>1
    <3> QED
      BY <3>2, <3>3
  <2> QED
    BY <2>1, <2>2
<1>8. K = Nat
  <2>1. K \in SUBSET Nat
    OBVIOUS
  <2> HIDE DEF K
  <2> QED
    BY <1>6, <1>7, <2>1, SetInduction
<1>9. ASSUME NEW i \in 1..n PROVE g[i] \in Seq(T)
  <2>1. i \in K
    BY <1>1, <1>8
  <2> QED
    BY <2>1
<1>10. g \in [1..n -> Seq(T)]
  BY <1>2, <1>9
<1> QED
  BY <1>3, <1>5, <1>10 DEF n

LEMMA ConcatRange ==
  ASSUME NEW T, NEW a \in Seq(T), NEW b \in Seq(T), NEW x
  PROVE  x \in Range(a \o b) <=> x \in Range(a) \/ x \in Range(b)
<1>1. /\ DOMAIN a = 1..Len(a) /\ DOMAIN b = 1..Len(b)
      /\ Len(a) \in Nat /\ Len(b) \in Nat
      /\ DOMAIN (a \o b) = 1..(Len(a) + Len(b))
  OBVIOUS
<1>2. \A i \in 1..(Len(a) + Len(b)) :
        (a \o b)[i] = IF i <= Len(a) THEN a[i] ELSE b[i - Len(a)]
  OBVIOUS
<1>3. ASSUME x \in Range(a \o b) PROVE x \in Range(a) \/ x \in Range(b)
  <2>1. PICK i \in 1..(Len(a) + Len(b)) : x = (a \o b)[i]
    BY <1>1, <1>3 DEF Range
  <2>2. i <= Len(a) => i \in DOMAIN a
    BY <1>1
  <2>3. ~(i <= Len(a)) => i - Len(a) \in DOMAIN b
    BY <1>1
  <2> QED
    BY <1>2, <2>1, <2>2, <2>3 DEF Range
<1>4. ASSUME x \in Range(a) PROVE x \in Range(a \o b)
  <2>1. PICK i \in DOMAIN a : x = a[i]
    BY <1>4 DEF Range
  <2>2. i \in 1..(Len(a) + Len(b)) /\ i <= Len(a)
    BY <1>1
  <2> QED
    BY <1>1, <1>2, <2>1, <2>2 DEF Range
<1>5. ASSUME x \in Range(b) PROVE x \in Range(a \o b)
  <2>1. PICK i \in DOMAIN b : x = b[i]
    BY <1>5 DEF Range
  <2>2. i + Len(a) \in 1..(Len(a) + Len(b)) /\ ~(i + Len(a) <= Len(a))
        /\ (i + Len(a)) - Len(a) = i
    BY <1>1
  <2>3. (a \o b)[i + Len(a)] = b[i]
    BY <1>2, <2>2
  <2> QED
    BY <1>1, <2>1, <2>2, <2>3 DEF Range
<1> QED
  BY <1>3, <1>4, <1>5

LEMMA FlattenIn ==
  ASSUME NEW T, NEW s \in Seq(Seq(T))
  PROVE  FlattenSeq(s) \in Seq(T)
<1>1. CASE Len(s) = 0
  <2>1. FlattenSeq(s) = s /\ s = <<>>
    BY <1>1 DEF FlattenSeq
  <2>2. <<>> \in Seq(T)
    OBVIOUS
  <2> QED
    BY <2>1, <2>2
<1>2. CASE Len(s) # 0
  <2>1. Len(s) \in 1..Len(s)
    BY <1>2
  <2>2. PICK g \in [1..Len(s) -> Seq(T)] : FlattenSeq(s) = g[Len(s)]
    BY <1>2, FlattenByParts
  <2> QED
    BY <2>1, <2>2
<1> QED
  BY <1>1, <1>2

\* Each part is in the whole, and the whole has nothing but its parts.
LEMMA FlattenMembers ==
  ASSUME NEW T, NEW s \in Seq(Seq(T)), NEW x
  PROVE  x \in Range(FlattenSeq(s)) <=> \E i \in DOMAIN s : x \in Range(s[i])
<1>1. CASE Len(s) = 0
  <2>1. FlattenSeq(s) = s /\ DOMAIN s = {}
    BY <1>1 DEF FlattenSeq
  <2> QED
    BY <2>1 DEF Range
<1>2. CASE Len(s) # 0
  <2>1. PICK g \in [1..Len(s) -> Seq(T)] :
           /\ g[1] = s[1]
           /\ \A i \in 1..Len(s) : i # 1 => g[i] = g[i-1] \o s[i]
           /\ FlattenSeq(s) = g[Len(s)]
    BY <1>2, FlattenByParts
  <2> DEFINE n == Len(s)
  <2>2. n \in Nat \ {0} /\ DOMAIN s = 1..n /\ \A i \in 1..n : s[i] \in Seq(T)
    BY <1>2
  <2> HIDE DEF n
  <2>3. ASSUME NEW a \in Seq(T), NEW b \in Seq(T)
        PROVE  x \in Range(a \o b) <=> x \in Range(a) \/ x \in Range(b)
    BY ConcatRange
  <2> DEFINE K == {k \in Nat : k \in 1..n =>
                     (x \in Range(g[k]) <=> \E i \in 1..k : x \in Range(s[i]))}
  <2>4. 0 \in K
    BY <2>2
  <2>5. ASSUME NEW k \in K PROVE k + 1 \in K
    <3> SUFFICES ASSUME k + 1 \in 1..n
                 PROVE  x \in Range(g[k + 1]) <=> \E i \in 1..(k + 1) : x \in Range(s[i])
      OBVIOUS
    <3>1. CASE k = 0
      BY <2>1, <2>2, <3>1 DEF n
    <3>2. CASE k # 0
      <4>1. k \in 1..n /\ k + 1 # 1 /\ (k + 1) - 1 = k
        BY <2>2, <3>2
      <4>2. g[k] \in Seq(T) /\ s[k + 1] \in Seq(T) /\ g[k + 1] = g[k] \o s[k + 1]
        BY <2>1, <2>2, <4>1 DEF n
      <4>3. x \in Range(g[k + 1]) <=> x \in Range(g[k]) \/ x \in Range(s[k + 1])
        BY <2>3, <4>2
      <4>4. x \in Range(g[k]) <=> \E i \in 1..k : x \in Range(s[i])
        BY <4>1
      <4>5. 1..(k + 1) = 1..k \cup {k + 1}
        BY <4>1
      <4> QED
        BY <4>3, <4>4, <4>5
    <3> QED
      BY <3>1, <3>2
  <2>6. K = Nat
    <3>1. K \in SUBSET Nat
      OBVIOUS
    <3> HIDE DEF K
    <3> QED
      BY <2>4, <2>5, <3>1, SetInduction
  <2> HIDE DEF K
  <2>7. n \in K /\ n \in 1..n
    BY <2>2, <2>6
  <2>8. x \in Range(g[n]) <=> \E i \in 1..n : x \in Range(s[i])
    BY <2>7 DEF K
  <2> QED
    BY <2>1, <2>2, <2>8 DEF n
<1> QED
  BY <1>1, <1>2
-----------------------------------------------------------------------------
(* What a pull saves.                                                      *)

\* What stays of a domain's records.
Kept(c, d, sel) ==
  FlattenSeq([i \in DOMAIN c[d] |->
               IF Dropped(d, c[d][i], sel) THEN <<>> ELSE <<c[d][i]>>])

LEMMA KeptParts ==
  ASSUME NEW c, FileOK(c), NEW d \in DOMAIN c, NEW sel
  PROVE  [i \in DOMAIN c[d] |-> IF Dropped(d, c[d][i], sel) THEN <<>> ELSE <<c[d][i]>>]
           \in Seq(Seq(Record))
<1> DEFINE part(i) == IF Dropped(d, c[d][i], sel) THEN <<>> ELSE <<c[d][i]>>
<1>1. c[d] \in Seq(Record)
  BY DEF FileOK
<1>2. DOMAIN c[d] = 1..Len(c[d]) /\ Len(c[d]) \in Nat
  BY <1>1
<1>3. <<>> \in Seq(Record)
  OBVIOUS
<1>4. ASSUME NEW i \in 1..Len(c[d]) PROVE part(i) \in Seq(Record)
  <2>1. c[d][i] \in Record
    BY <1>1
  <2>2. <<c[d][i]>> \in Seq(Record)
    BY <2>1
  <2> QED
    BY <1>3, <2>2
<1> HIDE DEF part
<1>5. [i \in 1..Len(c[d]) |-> part(i)] \in Seq(Seq(Record))
  BY <1>2, <1>4
<1> QED
  BY <1>2, <1>5 DEF part

LEMMA AddedAreFound ==
  ASSUME NEW S, IsFiniteSet(S), NEW added \in SetToSeqs(S)
  PROVE  /\ DOMAIN added = 1..Cardinality(S) /\ Cardinality(S) \in Nat
         /\ added \in Seq(S)
         /\ \A x \in S : \E i \in DOMAIN added : added[i] = x
<1>1. Cardinality(S) \in Nat
  BY FS_CardinalityType
<1> DEFINE D == 1..Cardinality(S)
<1>2. added \in [D -> S] /\ \A i, j \in D : i # j => added[i] # added[j]
  BY DEF SetToSeqs
<1>3. added \in Injection(D, S)
  BY <1>2 DEF Injection, IsInjective
<1>4. Cardinality(D) = Cardinality(S)
  BY <1>1, FS_Interval
<1>5. added \in Surjection(D, S)
  BY <1>3, <1>4, FS_Injection
<1> QED
  BY <1>1, <1>2, <1>5 DEF Surjection

LEMMA SavedRecordsTyped ==
  ASSUME NEW c, FileOK(c), NEW sel, IsFiniteSet(sel),
         \A x \in sel : RecordFound(x), NEW f \in SavedRecords(c, sel)
  PROVE  FileOK(f)
<1> DEFINE S == {y \in sel : y.type # "delete"}
<1>1. PICK added \in SetToSeqs(S) :
        f = [d \in DOMAIN c |->
              Kept(c, d, sel)
              \o IF \E x \in sel : x.domain = d
                   THEN [i \in DOMAIN added |-> AsRecord(added[i])] ELSE <<>>]
  BY DEF SavedRecords, Kept
<1>2. IsFiniteSet(S) /\ \A x \in S : RecordFound(x)
  BY FS_Subset
<1> HIDE DEF S
<1>3. DOMAIN added = 1..Cardinality(S) /\ Cardinality(S) \in Nat /\ added \in Seq(S)
  BY <1>2, AddedAreFound
<1> DEFINE more == [i \in DOMAIN added |-> AsRecord(added[i])]
<1>4. \A i \in DOMAIN added : AsRecord(added[i]) \in Record
  BY <1>2, <1>3 DEF AsRecord, RecordFound, Record
<1>5. more \in Seq(Record)
  BY <1>3, <1>4
<1>6. <<>> \in Seq(Record)
  OBVIOUS
<1>7. \A d \in DOMAIN c : Kept(c, d, sel) \in Seq(Record)
  BY KeptParts, FlattenIn DEF Kept
<1> HIDE DEF more
<1>8. \A d \in DOMAIN c : f[d] \in Seq(Record)
  BY <1>1, <1>5, <1>6, <1>7 DEF more
<1>9. DOMAIN f = DOMAIN c /\ f = [d \in DOMAIN f |-> f[d]]
  BY <1>1
<1> QED
  BY <1>8, <1>9 DEF FileOK

LEMMA SavedDomainsTyped ==
  ASSUME NEW c, FileOK(c), NEW sel, \A x \in sel : x.domain \in Domain
  PROVE  FileOK(SavedDomains(c, sel))
<1> DEFINE new == {x.domain : x \in {y \in sel : y.type = "create"}}
           gone == {x.domain : x \in {y \in sel : y.type = "delete"}}
<1>1. SavedDomains(c, sel) =
        [d \in new \cup (DOMAIN c \ gone) |-> IF d \in new THEN <<>> ELSE c[d]]
  BY DEF SavedDomains
<1>2. new \subseteq Domain
  OBVIOUS
<1>3. <<>> \in Seq(Record)
  OBVIOUS
<1> HIDE DEF new, gone
<1> QED
  BY <1>1, <1>2, <1>3 DEF FileOK

LEMMA SaveTyped ==
  ASSUME Typed, cmd = "pulled", NEW sel, Save(sel), held' \in {held, dnsYaml'}
  PROVE  Typed'
<1>1. FileOK(dnsYaml')
  <2>1. sel \subseteq diffs /\ FileOK(cfg)
    BY DEF Save, Typed, FilesOK
  <2>2. CASE call.what = "domains"
    <3>1. \A x \in sel : x.domain \in Domain
      BY <2>1, <2>2 DEF Typed, PullOK
    <3> QED
      BY <2>1, <2>2, <3>1, SavedDomainsTyped DEF Save
  <2>3. CASE call.what # "domains"
    <3>1. IsFiniteSet(sel) /\ \A x \in sel : RecordFound(x)
      BY <2>1, <2>3, FS_Subset DEF Typed, PullOK
    <3> QED
      BY <2>1, <2>3, <3>1, SavedRecordsTyped DEF Save
  <2> QED
    BY <2>2, <2>3
<1>2. FilesOK'
  BY <1>1 DEF Save, Typed, FilesOK
<1>3. ZonesOK'
  BY DEF Save, Typed, ZonesOK
<1>4. PlanOK' /\ ActOK' /\ EnsureOK' /\ PullOK'
  BY DEF Save, Typed, PlanOK, ActOK, EnsureOK, PullOK
<1>5. CountsOK'
  BY DEF Save, Typed, CountsOK, others
<1> QED
  BY <1>2, <1>3, <1>4, <1>5 DEF Typed
-----------------------------------------------------------------------------
(* Carrying out.                                                           *)

LEMMA CountTyped ==
  ASSUME Typed, NEW o, Count(o) \/ UNCHANGED <<failed, lost>>
  PROVE  /\ failed' \in Nat /\ lost' \in Nat
         /\ o # "done" /\ Count(o) => failed' # 0
BY DEF Typed, CountsOK, Count

\* A change that has been carried out is no longer in the plan.
LEMMA CarriedOutTyped ==
  ASSUME Typed, NEW ch, cmd \in {"apply", "act"}, plan' = plan \ {ch},
         NextCommand(plan'), HandlerFrame, ZonesOK', failed' \in Nat, lost' \in Nat
  PROVE  Typed'
<1>1. FilesOK'
  BY DEF HandlerFrame, Typed, FilesOK
<1>2. PlanOK'
  BY DEF HandlerFrame, NextCommand, Typed, PlanOK
<1>3. ActOK' /\ EnsureOK' /\ PullOK'
  BY DEF NextCommand, ActOK, EnsureOK, PullOK
<1>4. CountsOK'
  BY DEF HandlerFrame, NextCommand, others, Typed, CountsOK
<1> QED
  BY <1>1, <1>2, <1>3, <1>4 DEF Typed

\* What a change is about.
LEMMA ChangeTyped ==
  ASSUME Typed, NEW ch \in plan
  PROVE  /\ ch.domain \in Domain /\ ch.domain \in scope /\ ch.record.name \in Name
         /\ ch.type # "delete" => /\ ch.record \in Record
                                  /\ ch.record \in Wanted(cfg, ch.domain)
         /\ ch.type = "delete" =>
              \A w \in Wanted(cfg, ch.domain) : w.name # ch.record.name
         /\ ch = ChangeOf(ch.type, ch.domain, ch.record)
         /\ ch.type \in {"create", "update", "delete"}
<1>1. Planned(ch, cfg, scope) /\ FileOK(cfg) /\ scope \subseteq Domain
  BY DEF Typed, PlanOK, FilesOK, CountsOK
<1>2. Wanted(cfg, ch.domain) \subseteq Record
  BY <1>1, WantedRecords
<1> QED
  BY <1>1, <1>2 DEF Planned

LEMMA CreateRecordTyped ==
  ASSUME Typed, NEW ch \in plan, CreateRecord(ch)
  PROVE  Typed'
<1>1. PICK o \in Outcome : Create(ch.domain, ch.record, o) /\ Count(o)
  BY DEF CreateRecord
<1>2. ZonesOK'
  BY <1>1, ChangeTyped, CreateTyped DEF CreateRecord, HandlerFrame, Typed
<1>3. failed' \in Nat /\ lost' \in Nat
  BY <1>1, CountTyped
<1> QED
  BY <1>2, <1>3, CarriedOutTyped DEF CreateRecord

LEMMA ListRecordsTyped ==
  ASSUME Typed, NEW ch \in plan, ListRecords(ch)
  PROVE  Typed'
<1>1. UNCHANGED <<zone, nextId, before>> /\ HandlerFrame /\ cmd = "apply" /\ ch.type # "create"
  BY DEF ListRecords, HandlerFrame
<1>2. ZonesOK'
  BY <1>1 DEF Typed, ZonesOK
<1>3. CASE plan' = plan \ {ch} /\ NextCommand(plan') /\ Count("refused")
  <2>1. failed' \in Nat /\ lost' \in Nat
    BY <1>3, CountTyped
  <2> QED
    BY <1>1, <1>2, <1>3, <2>1, CarriedOutTyped
<1>4. CASE /\ ch.domain \in Hosted /\ cmd' = "act" /\ UNCHANGED <<plan, failed, lost>>
           /\ \E S \in Listings(ch.domain) :
                LET found == Matching(ch.domain, S, ch.record) IN
                \/ found = {} /\ call' = [change |-> ch, id |-> None]
                \/ \E e \in found : call' = [change |-> ch, id |-> e.id]
  <2>1. PICK S \in Listings(ch.domain) :
                \/ call' = [change |-> ch, id |-> None]
                \/ \E e \in Matching(ch.domain, S, ch.record) :
                     call' = [change |-> ch, id |-> e.id]
    BY <1>4
  <2>2. S \subseteq Entry
    BY ListsEntries, ChangeTyped DEF Typed, ZonesOK, ZoneOK
  <2>3. \A e \in Matching(ch.domain, S, ch.record) : e.id \in Nat
    BY <2>2 DEF Matching, Entry
  <2>4. call'.change = ch /\ call'.id \in Nat \cup {None}
    BY <2>1, <2>3
  <2>5. ActOK' /\ EnsureOK' /\ PullOK'
    BY <1>1, <1>4, <2>4 DEF ActOK, EnsureOK, PullOK
  <2>6. FilesOK'
    BY <1>1 DEF HandlerFrame, Typed, FilesOK
  <2>7. PlanOK'
    BY <1>1, <1>4 DEF HandlerFrame, Typed, PlanOK
  <2>8. CountsOK'
    BY <1>1, <1>4 DEF HandlerFrame, others, Typed, CountsOK
  <2> QED
    BY <1>2, <2>5, <2>6, <2>7, <2>8 DEF Typed
<1> QED
  BY <1>3, <1>4 DEF ListRecords

LEMMA ActOnRecordTyped ==
  ASSUME Typed, ActOnRecord
  PROVE  Typed'
<1> DEFINE ch == call.change
<1>1. ch \in plan /\ ch.type # "create" /\ call.id \in Nat \cup {None}
      /\ UNCHANGED before
  BY DEF ActOnRecord, HandlerFrame, Typed, ActOK
<1>2. ch.domain \in Domain /\ (ch.type # "delete" => ch.record \in Record)
  BY <1>1, ChangeTyped
<1>3. PICK o \in Outcome : IF ch.type = "update" THEN UpdateRecord(o) ELSE DeleteRecord(o)
  BY DEF ActOnRecord
<1>4. ch.type \in {"update", "delete"}
  BY <1>1, ChangeTyped
<1>5. ZonesOK
  BY DEF Typed
<1>6. ZonesOK' /\ failed' \in Nat /\ lost' \in Nat
  <2>1. CASE ch.type = "update" /\ call.id # None
    <3>1. Update(ch.domain, call.id, ch.record, o) /\ Count(o)
      BY <1>3, <2>1 DEF UpdateRecord
    <3>2. ch.record \in Record /\ call.id \in Nat
      BY <1>1, <1>2, <2>1
    <3> HIDE DEF ch
    <3> QED
      BY <1>1, <1>2, <1>5, <3>1, <3>2, UpdateTyped, CountTyped
  <2>2. CASE ch.type = "update" /\ call.id = None
    <3>1. Create(ch.domain, ch.record, o) /\ Count(o)
      BY <1>3, <2>2 DEF UpdateRecord
    <3>2. ch.record \in Record
      BY <1>2, <2>2
    <3> HIDE DEF ch
    <3> QED
      BY <1>1, <1>2, <1>5, <3>1, <3>2, CreateTyped, CountTyped
  <2>3. CASE ch.type # "update" /\ call.id # None
    <3>1. Delete(ch.domain, call.id, o) /\ Count(o)
      BY <1>3, <2>3 DEF DeleteRecord
    <3> HIDE DEF ch
    <3> QED
      BY <1>1, <1>2, <1>5, <3>1, DeleteTyped, CountTyped
  <2>4. CASE ch.type # "update" /\ call.id = None
    <3>1. UNCHANGED <<zone, nextId, failed, lost>>
      BY <1>3, <2>4 DEF DeleteRecord
    <3> QED
      BY <1>1, <1>5, <3>1 DEF ZonesOK, Typed, CountsOK
  <2> QED
    BY <2>1, <2>2, <2>3, <2>4
<1>7. cmd = "act" /\ plan' = plan \ {ch} /\ NextCommand(plan') /\ HandlerFrame
  BY DEF ActOnRecord
<1> HIDE DEF ch
<1> QED
  BY <1>6, <1>7, CarriedOutTyped
-----------------------------------------------------------------------------
(* Ensuring.                                                               *)

LEMMA EnsureRecordTyped ==
  ASSUME Typed, NEW d \in Domain, NEW r \in Given, EnsureRecord(d, r)
  PROVE  Typed'
<1>1. /\ turns' = turns - 1 /\ turns > 0 /\ turns \in 0..MaxTurns
      /\ plan = {} /\ d \in Hosted
  BY IdlePlansNothing DEF EnsureRecord, TakeTurn, Typed, CountsOK
<1>2. turns' \in 0..MaxTurns
  BY <1>1, PagesAssumption
<1>3. call' \in EnsureCall
  BY <1>1 DEF EnsureRecord, EnsureCall
<1>4. EnsureOK'
  BY <1>3 DEF EnsureRecord, EnsureOK
<1>5. PlanOK' /\ ActOK' /\ PullOK'
  BY <1>1 DEF EnsureRecord, PlanOK, ActOK, PullOK
<1>6. CountsOK'
  BY <1>2 DEF EnsureRecord, Typed, CountsOK
<1>7. FilesOK'
  BY DEF EnsureRecord, Typed, FilesOK
<1>8. ZonesOK'
  BY DEF EnsureRecord, Typed, ZonesOK
<1> QED
  BY <1>4, <1>5, <1>6, <1>7, <1>8 DEF Typed

\* The next call under retry.
LEMMA ReturnTyped ==
  ASSUME Typed, cmd = "ensure", NEW result \in {"ok", "error"}, Return(result)
  PROVE  /\ EnsureOK' /\ cmd' = "ensured"
         /\ call'.result = result /\ call'.domain = call.domain
         /\ call'.record = call.record
<1>1. call \in EnsureCall
  BY DEF Typed, EnsureOK
<1>2. call' = [call EXCEPT !.result = result] /\ cmd' = "ensured"
  BY DEF Return
<1>3. call' \in EnsureCall
  BY <1>1, <1>2 DEF EnsureCall
<1> QED
  BY <1>1, <1>2, <1>3 DEF EnsureOK, EnsureCall

LEMMA ThenTyped ==
  ASSUME Typed, cmd = "ensure",
         NEW op \in {"create", "update"}, NEW id \in Nat \cup {None},
         op = "update" => id \in Nat, Then(op, id)
  PROVE  /\ EnsureOK' /\ cmd' = "ensure"
         /\ call'.domain = call.domain /\ call'.record = call.record
         /\ call'.op = op /\ call'.result = None
<1>1. call \in EnsureCall /\ call.result = None
  BY DEF Typed, EnsureOK
<1>2. call' = [call EXCEPT !.op = op, !.id = id, !.attempt = 1] /\ cmd' = "ensure"
  BY DEF Then
<1>3. call' \in EnsureCall
  BY <1>1, <1>2 DEF EnsureCall
<1> QED
  BY <1>1, <1>2, <1>3 DEF EnsureOK, EnsureCall

LEMMA RetryTyped ==
  ASSUME Typed, cmd = "ensure", RetryOrReturn
  PROVE  /\ EnsureOK' /\ cmd' \in {"ensure", "ensured"}
         /\ call'.domain = call.domain /\ call'.record = call.record
         /\ call'.op = call.op /\ call'.result \in {None, "error"}
         /\ cmd' = "ensure" => call'.result = None
<1>1. call \in EnsureCall /\ call.result = None
      /\ (call.op = "update" => call.id \in Nat)
  BY DEF Typed, EnsureOK
<1>2. CASE Return("error")
  <2>1. call'.op = call.op
    BY <1>1, <1>2 DEF Return, EnsureCall
  <2> QED
    BY <1>2, <2>1, ReturnTyped
<1>3. CASE call' = [call EXCEPT !.attempt = @ + 1] /\ UNCHANGED cmd
  <2>1. call' \in EnsureCall
    BY <1>1, <1>3 DEF EnsureCall
  <2> QED
    BY <1>1, <1>3, <2>1 DEF EnsureOK, EnsureCall
<1> QED
  BY <1>2, <1>3 DEF RetryOrReturn

LEMMA EnsureFrameTyped ==
  ASSUME Typed, cmd = "ensure", cmd' \in {"ensure", "ensured"}, EnsureFrame,
         EnsureOK', ZonesOK', failed' \in Nat, lost' \in Nat
  PROVE  Typed'
<1>1. FilesOK'
  BY DEF EnsureFrame, Typed, FilesOK
<1>2. PlanOK' /\ ActOK' /\ PullOK'
  BY DEF EnsureFrame, Typed, PlanOK, ActOK, PullOK
<1>3. CountsOK'
  BY DEF EnsureFrame, others, Typed, CountsOK
<1> QED
  BY <1>1, <1>2, <1>3 DEF Typed

\* What the running operation is about.
LEMMA EnsureTyped ==
  ASSUME Typed, cmd \in {"ensure", "ensured"}
  PROVE  /\ call.domain \in Domain /\ call.record \in Given /\ call.record.name \in Name
         /\ call.op \in {"list", "create", "update"}
         /\ cmd = "ensure" /\ call.op = "update" => call.id \in Nat
         /\ cmd = "ensure" => call.result = None
BY DomainsAssumption DEF Typed, EnsureOK, EnsureCall, Given

\* A listing that finds the record's name hands on the entry's id.
LEMMA EnsureListCases ==
  ASSUME Typed, EnsureList
  PROVE  /\ cmd = "ensure" /\ UNCHANGED <<zone, nextId>> /\ EnsureFrame
         /\ \/ /\ UNCHANGED <<failed, lost>>
               /\ \E S \in Listings(call.domain) :
                    \/ Matching(call.domain, S, call.record) = {} /\ Then("create", None)
                    \/ \E e \in Matching(call.domain, S, call.record) :
                         /\ e \in zone[call.domain] /\ e \in Entry
                         /\ e.name = call.record.name /\ call.domain \notin Cloudflare
                         /\ \/ SameRecord(e, call.record) /\ Return("ok")
                            \/ Then("update", e.id)
            \/ RetryOrReturn /\ Count("refused")
<1>1. cmd = "ensure" /\ UNCHANGED <<zone, nextId>> /\ EnsureFrame
  BY DEF EnsureList, MayTry
<1>2. CASE RetryOrReturn /\ Count("refused")
  BY <1>1, <1>2
<1>3. CASE /\ UNCHANGED <<failed, lost>>
           /\ \E S \in Listings(call.domain) :
                LET found == Matching(call.domain, S, call.record) IN
                \/ found = {} /\ Then("create", None)
                \/ \E e \in found : IF SameRecord(e, call.record) THEN Return("ok")
                                    ELSE Then("update", e.id)
  <2>1. PICK S \in Listings(call.domain) :
          \/ Matching(call.domain, S, call.record) = {} /\ Then("create", None)
          \/ \E e \in Matching(call.domain, S, call.record) :
               IF SameRecord(e, call.record) THEN Return("ok") ELSE Then("update", e.id)
    BY <1>3
  <2>2. call.domain \in Domain /\ call.record.name \in Name
    BY <1>1, EnsureTyped
  <2>3. S \subseteq zone[call.domain] /\ S \subseteq Entry
    BY <2>2, ListsEntries DEF Typed, ZonesOK, ZoneOK
  <2>4. ASSUME NEW e \in Matching(call.domain, S, call.record)
        PROVE  /\ e \in zone[call.domain] /\ e \in Entry
               /\ e.name = call.record.name /\ call.domain \notin Cloudflare
    <3>1. e \in S /\ e.name \in Name
      BY <2>3 DEF Matching, Entry
    <3> QED
      BY <2>2, <2>3, <3>1, MatchesByName
  <2> QED
    BY <1>1, <1>3, <2>1, <2>4
<1> QED
  BY <1>2, <1>3 DEF EnsureList

LEMMA EnsureListTyped ==
  ASSUME Typed, EnsureList
  PROVE  Typed'
<1>1. cmd = "ensure" /\ UNCHANGED <<zone, nextId>> /\ EnsureFrame
  BY EnsureListCases
<1>2. ZonesOK'
  BY <1>1 DEF EnsureFrame, Typed, ZonesOK
<1>3. CASE RetryOrReturn /\ Count("refused")
  BY <1>1, <1>2, <1>3, RetryTyped, CountTyped, EnsureFrameTyped
<1>4. CASE UNCHANGED <<failed, lost>> /\ Then("create", None)
  BY <1>1, <1>2, <1>4, ThenTyped, CountTyped, EnsureFrameTyped
<1>5. CASE UNCHANGED <<failed, lost>> /\ Return("ok")
  BY <1>1, <1>2, <1>5, ReturnTyped, CountTyped, EnsureFrameTyped
<1>6. ASSUME NEW e \in Entry, UNCHANGED <<failed, lost>>, Then("update", e.id)
      PROVE  Typed'
  <2>1. e.id \in Nat
    BY DEF Entry
  <2> QED
    BY <1>1, <1>2, <1>6, <2>1, ThenTyped, CountTyped, EnsureFrameTyped
<1> QED
  BY <1>3, <1>4, <1>5, <1>6, EnsureListCases

LEMMA EnsureWriteTyped ==
  ASSUME Typed, EnsureWrite
  PROVE  Typed'
<1>1. cmd = "ensure" /\ EnsureFrame /\ call.op \in {"create", "update"}
  BY DEF EnsureWrite, MayTry
<1>2. PICK o \in Outcome :
        /\ IF call.op = "create" THEN Create(call.domain, call.record, o)
           ELSE Update(call.domain, call.id, call.record, o)
        /\ Count(o)
        /\ IF o = "done" THEN Return("ok") ELSE RetryOrReturn
  BY DEF EnsureWrite
<1>3. ZonesOK /\ UNCHANGED before
  BY <1>1 DEF Typed, EnsureFrame
<1>4. ZonesOK'
  BY <1>1, <1>2, <1>3, EnsureTyped, CreateTyped, UpdateTyped
<1>5. EnsureOK' /\ cmd' \in {"ensure", "ensured"}
  BY <1>1, <1>2, ReturnTyped, RetryTyped
<1> QED
  BY <1>1, <1>2, <1>4, <1>5, CountTyped, EnsureFrameTyped

LEMMA EnsureStopsTyped ==
  ASSUME Typed, EnsureStops
  PROVE  Typed'
<1>1. ZonesOK'
  BY DEF EnsureStops, EnsureFrame, Typed, ZonesOK
<1> QED
  BY <1>1, ReturnTyped, CountTyped, EnsureFrameTyped DEF EnsureStops
-----------------------------------------------------------------------------
(* Others, and the end of a command.                                       *)

LEMMA EndTyped == ASSUME Typed, End PROVE Typed'
<1>1. FilesOK' /\ ZonesOK'
  BY DEF End, Typed, FilesOK, ZonesOK
<1>2. PlanOK' /\ ActOK' /\ EnsureOK' /\ PullOK'
  BY DEF End, PlanOK, ActOK, EnsureOK, PullOK
<1>3. CountsOK'
  BY DEF End, Typed, CountsOK
<1> QED
  BY <1>1, <1>2, <1>3 DEF Typed

LEMMA ConfirmTyped == ASSUME Typed, Confirm PROVE Typed'
<1>1. FilesOK' /\ ZonesOK'
  BY DEF Confirm, Typed, FilesOK, ZonesOK
<1>2. PlanOK' /\ ActOK' /\ EnsureOK' /\ PullOK'
  BY DEF Confirm, Typed, PlanOK, ActOK, EnsureOK, PullOK
<1>3. CountsOK'
  BY DEF Confirm, others, Typed, CountsOK
<1> QED
  BY <1>1, <1>2, <1>3 DEF Typed

LEMMA ReloadTyped == ASSUME Typed, Reload PROVE Typed'
<1>1. FilesOK' /\ ZonesOK'
  BY DEF Reload, Typed, FilesOK, ZonesOK
<1>2. PlanOK' /\ ActOK' /\ EnsureOK' /\ PullOK'
  BY IdlePlansNothing DEF Reload, PlanOK, ActOK, EnsureOK, PullOK
<1>3. CountsOK'
  BY DEF Reload, others, Typed, CountsOK
<1> QED
  BY <1>1, <1>2, <1>3 DEF Typed

LEMMA EditTyped ==
  ASSUME Typed, EditFrame, FileOK(dnsYaml'), ZonesOK'
  PROVE  Typed'
<1>1. turns' \in 0..MaxTurns
  BY PagesAssumption DEF EditFrame, TakeTurn, Typed, CountsOK
<1>2. FilesOK'
  BY DEF EditFrame, Typed, FilesOK
<1>3. PlanOK' /\ ActOK' /\ EnsureOK' /\ PullOK'
  BY DEF EditFrame, Typed, PlanOK, ActOK, EnsureOK, PullOK
<1>4. CountsOK'
  BY <1>1 DEF EditFrame, Typed, CountsOK
<1> QED
  BY <1>2, <1>3, <1>4 DEF Typed

LEMMA EditFileTyped == ASSUME Typed, EditFile PROVE Typed'
<1>1. FileOK(dnsYaml')
  BY FilesTyped DEF EditFile
<1>2. ZonesOK'
  BY DEF EditFile, EditFrame, Typed, ZonesOK
<1> QED
  BY <1>1, <1>2, EditTyped DEF EditFile

LEMMA EditZoneTyped == ASSUME Typed, NEW d \in Domain, EditZone(d) PROVE Typed'
<1>1. FileOK(dnsYaml')
  BY DEF EditZone, Typed, FilesOK
<1>2. ZonesOK /\ EditFrame
  BY DEF EditZone, Typed
<1>3. UNCHANGED before
  BY <1>2 DEF EditFrame
<1>4. ZonesOK'
  BY <1>2, <1>3, CreateTyped, DeleteTyped DEF EditZone
<1> QED
  BY <1>1, <1>2, <1>4, EditTyped

LEMMA CommandTyped == ASSUME Typed, Command PROVE Typed'
<1>1. /\ FileOK(dnsYaml) /\ FileOK(held)
      /\ \A D \in {Cloudflare, Domain \ Cloudflare} : D \subseteq Domain
  BY DomainsAssumption DEF Typed, FilesOK
<1>2. ASSUME NEW D \in {DOMAIN dnsYaml} \cup {{d} : d \in DOMAIN dnsYaml},
             NEW N \in SUBSET Name, DNSPlan(D, N)
      PROVE  Typed'
  BY <1>2, DNSPlanTyped
<1>3. ASSUME NEW d \in Domain, PullRecords(d) \/ FetchRecordDiffs(d) PROVE Typed'
  BY <1>1, <1>3, PullRecordsTyped DEF PullRecords, FetchRecordDiffs
<1>4. ASSUME NEW D \in {Cloudflare, Domain \ Cloudflare},
             PullDomains(D) \/ FetchDomainDiffs(D)
      PROVE  Typed'
  BY <1>1, <1>4, PullDomainsTyped DEF PullDomains, FetchDomainDiffs
<1> QED
  BY <1>2, <1>3, <1>4, GeneratePlanTyped, GeneratePlanOfAllTyped, EnsureRecordTyped
     DEF Command

LEMMA StepTyped == ASSUME Typed, Step PROVE Typed'
<1>1. CASE SaveSelected \/ SaveSelectedDiffs
  <2>1. PICK sel : Save(sel)
    BY <1>1 DEF SaveSelected, SaveSelectedDiffs
  <2> QED
    BY <1>1, <2>1, SaveTyped DEF SaveSelected, SaveSelectedDiffs
<1>2. CASE Abandon \/ AbandonPull \/ Dismiss
  BY <1>2, EndTyped DEF Abandon, AbandonPull, Dismiss
<1> QED
  BY <1>1, <1>2, ConfirmTyped, CreateRecordTyped, ListRecordsTyped, ActOnRecordTyped,
     EnsureListTyped, EnsureWriteTyped, EnsureStopsTyped DEF Step

LEMMA NextTyped == Typed /\ [Next]_vars => Typed'
<1> SUFFICES ASSUME Typed, [Next]_vars PROVE Typed'
  OBVIOUS
<1>1. CASE UNCHANGED vars
  BY <1>1 DEF vars, Typed, FilesOK, ZonesOK, PlanOK, ActOK, EnsureOK, PullOK, CountsOK
<1> QED
  BY <1>1, CommandTyped, StepTyped, ReloadTyped, EditFileTyped, EditZoneTyped DEF Next

\* The variables have their types: above all, entries keep ids of their own and
\* a ttl, a plan writes only what the configuration has, and what a pull saves
\* is a file again.
THEOREM TypeCorrect == Spec => []TypeOK
<1>1. Spec => []Typed
  BY InitTyped, NextTyped, PTL DEF Spec
<1> QED
  BY <1>1, TypedIsType, PTL
-----------------------------------------------------------------------------
(* Which steps lead where, when nobody else edits.                         *)

PlanBegins ==
  \/ \E D, N : DNSPlan(D, N)
  \/ \E d \in Domain : GeneratePlan(d)
  \/ GeneratePlanOfAll

PullBegins ==
  \E c \in {dnsYaml, held}, by \in {"command", "terminal"} :
    \/ \E d \in Domain : PullRecordsOf(c, d, by)
    \/ \E D \in SUBSET Domain : PullDomainsOf(c, D, by)

CarriesOut == Confirm \/ (\E ch \in plan : CreateRecord(ch) \/ ListRecords(ch)) \/ ActOnRecord
Saves == cmd = "pulled" /\ \E sel : Save(sel)
EnsureBegins == \E d \in Domain, r \in Given : EnsureRecord(d, r)
Ensures == EnsureList \/ EnsureWrite \/ EnsureStops

LEMMA WhereStepsLead ==
  ASSUME Typed, [Next]_vars
  PROVE  \/ UNCHANGED vars
         \/ touched'
         \/ cmd' = "idle"
         \/ cmd' = "confirm" /\ PlanBegins
         \/ cmd' \in {"pulled", "saved"} /\ PullBegins
         \/ cmd' \in {"apply", "act", "applied"} /\ CarriesOut
         \/ cmd' = "saved" /\ Saves
         \/ cmd' = "ensure" /\ EnsureBegins
         \/ cmd' \in {"ensure", "ensured"} /\ Ensures
<1>1. CASE Command
  <2>1. ASSUME NEW D, NEW N, DNSPlan(D, N) PROVE cmd' = "confirm" /\ PlanBegins
    BY <2>1 DEF DNSPlan, PlanBegins
  <2>2. ASSUME NEW d \in Domain, GeneratePlan(d) PROVE cmd' = "confirm" /\ PlanBegins
    BY <2>2 DEF GeneratePlan, PlanBegins
  <2>3. ASSUME GeneratePlanOfAll PROVE cmd' = "confirm" /\ PlanBegins
    BY <2>3 DEF GeneratePlanOfAll, PlanBegins
  <2>4. ASSUME NEW d \in Domain, PullRecords(d) \/ FetchRecordDiffs(d)
        PROVE  cmd' \in {"pulled", "saved"} /\ PullBegins
    BY <2>4 DEF PullRecords, FetchRecordDiffs, PullRecordsOf, Pulled, PullBegins
  <2>5. ASSUME NEW D \in {Cloudflare, Domain \ Cloudflare},
               PullDomains(D) \/ FetchDomainDiffs(D)
        PROVE  cmd' \in {"pulled", "saved"} /\ PullBegins
    <3>1. D \in SUBSET Domain
      BY DomainsAssumption
    <3>2. PICK c \in {dnsYaml, held}, by \in {"command", "terminal"} : PullDomainsOf(c, D, by)
      BY <2>5 DEF PullDomains, FetchDomainDiffs
    <3> QED
      BY <3>1, <3>2 DEF PullDomainsOf, Pulled, PullBegins
  <2>6. ASSUME NEW d \in Domain, NEW r \in Given, EnsureRecord(d, r)
        PROVE  cmd' = "ensure" /\ EnsureBegins
    BY <2>6 DEF EnsureRecord, EnsureBegins
  <2> QED
    BY <1>1, <2>1, <2>2, <2>3, <2>4, <2>5, <2>6 DEF Command
<1>2. CASE Step
  <2>1. ASSUME Confirm PROVE cmd' = "apply" /\ CarriesOut
    BY <2>1 DEF Confirm, CarriesOut
  <2>2. ASSUME NEW ch \in plan, CreateRecord(ch) \/ ListRecords(ch)
        PROVE  cmd' \in {"apply", "act", "applied"} /\ CarriesOut
    BY <2>2 DEF CreateRecord, ListRecords, NextCommand, CarriesOut
  <2>3. ASSUME ActOnRecord PROVE cmd' \in {"apply", "act", "applied"} /\ CarriesOut
    BY <2>3 DEF ActOnRecord, NextCommand, CarriesOut
  <2>4. ASSUME SaveSelected \/ SaveSelectedDiffs PROVE cmd' = "saved" /\ Saves
    BY <2>4 DEF SaveSelected, SaveSelectedDiffs, Save, Saves
  <2>5. ASSUME EnsureList PROVE cmd' \in {"ensure", "ensured"} /\ Ensures
    BY <2>5, EnsureListCases, RetryTyped DEF Then, Return, Ensures
  <2>6. ASSUME EnsureWrite \/ EnsureStops PROVE cmd' \in {"ensure", "ensured"} /\ Ensures
    BY <2>6 DEF EnsureWrite, EnsureStops, MayTry, RetryOrReturn, Return, Ensures
  <2>7. ASSUME Abandon \/ AbandonPull \/ Dismiss PROVE cmd' = "idle"
    BY <2>7 DEF Abandon, AbandonPull, Dismiss, End
  <2> QED
    BY <1>2, <2>1, <2>2, <2>3, <2>4, <2>5, <2>6, <2>7 DEF Step
<1>3. CASE Reload
  BY <1>3 DEF Reload
<1>4. CASE EditFile \/ \E d \in Domain : EditZone(d)
  BY <1>4 DEF EditFile, EditZone, EditFrame
<1> QED
  BY <1>1, <1>2, <1>3, <1>4 DEF Next
-----------------------------------------------------------------------------
(* A plan that finds nothing to do.                                        *)

\* What a plan of the terminal interface that listed has seen.
Seen ==
  (cmd = "confirm" /\ listed /\ ~touched) =>
    \E d \in Domain : \E S \in Listings(d) : \E V \in Views(S) :
      scope = {d} /\ plan = RecordPlan(d, Wanted(cfg, d), V)

Fresh == (cmd = "confirm" /\ ~touched) => before = zone

SeenInv == Typed /\ Seen /\ Fresh

LEMMA SeenNext == SeenInv /\ [Next]_vars => SeenInv'
<1> SUFFICES ASSUME SeenInv, [Next]_vars, Typed' PROVE Seen' /\ Fresh'
  BY NextTyped DEF SeenInv
<1>1. CASE UNCHANGED vars
  BY <1>1 DEF vars, SeenInv, Seen, Fresh, Listings
<1>2. CASE cmd' = "confirm" /\ PlanBegins
  <2>1. Fresh'
    BY <1>2 DEF PlanBegins, DNSPlan, GeneratePlan, GeneratePlanOfAll, Start, Fresh
  <2>2. ASSUME NEW d \in Domain, GeneratePlan(d), listed' PROVE Seen'
    <3>1. PICK S \in Listings(d) : \E V \in Views(S) : plan' = RecordPlan(d, Wanted(held, d), V)
      BY <2>2 DEF GeneratePlan
    <3>2. cfg' = held /\ scope' = {d} /\ zone' = zone
      BY <2>2 DEF GeneratePlan, Start
    <3>3. S \in Listings(d)'
      BY <3>2 DEF Listings
    <3> QED
      BY <3>1, <3>2, <3>3 DEF Seen
  <2>3. ASSUME ~listed' PROVE Seen'
    BY <2>3 DEF Seen
  <2> QED
    BY <1>2, <2>1, <2>2, <2>3 DEF PlanBegins, DNSPlan, GeneratePlanOfAll
<1>3. CASE cmd' # "confirm" \/ touched'
  BY <1>3 DEF Seen, Fresh
<1> QED
  BY <1>1, <1>2, <1>3, WhereStepsLead DEF SeenInv

\* Of every listed name one entry is in view.
LEMMA ViewOf ==
  ASSUME NEW S, IsFiniteSet(S), NEW V \in Views(S)
  PROVE  /\ V \subseteq S
         /\ \A e \in S : \E v \in V : v.name = e.name
         /\ \A u, v \in V : u.name = v.name => u = v
<1>1. V \subseteq S /\ \A e \in S : Cardinality({v \in V : v.name = e.name}) = 1
  BY DEF Views
<1>2. ASSUME NEW e \in S
      PROVE  \E x : {v \in V : v.name = e.name} = {x}
  <2> DEFINE T == {v \in V : v.name = e.name}
  <2>1. IsFiniteSet(T)
    BY <1>1, FS_Subset
  <2>2. Cardinality(T) = 1
    BY <1>1
  <2> HIDE DEF T
  <2>3. \E x : T = {x}
    BY <2>1, <2>2, FS_Singleton
  <2> QED
    BY <2>3 DEF T
<1>3. ASSUME NEW e \in S PROVE \E v \in V : v.name = e.name
  <2>1. PICK x : {v \in V : v.name = e.name} = {x}
    BY <1>2
  <2>2. x \in {v \in V : v.name = e.name}
    BY <2>1
  <2> QED
    BY <2>2
<1>4. ASSUME NEW u \in V, NEW w \in V, u.name = w.name PROVE u = w
  <2>1. PICK x : {v \in V : v.name = u.name} = {x}
    BY <1>1, <1>2
  <2>2. u \in {v \in V : v.name = u.name} /\ w \in {v \in V : v.name = u.name}
    BY <1>4
  <2> QED
    BY <2>1, <2>2
<1> QED
  BY <1>1, <1>3, <1>4

LEMMA PlansNothing ==
  ASSUME NEW d, NEW W, NEW V
  PROVE  RecordPlan(d, W, V) = {} <=>
           /\ \A w \in W : \E e \in V : e.name = w.name
           /\ \A w \in W : \A e \in V : e.name = w.name => SameRecord(e, w)
           /\ \A e \in V : \E w \in W : w.name = e.name
<1> DEFINE A == {w \in W : \A e \in V : e.name # w.name}
           B == {w \in W : \E e \in V : e.name = w.name /\ ~SameRecord(e, w)}
           C == {v \in V : \A w \in W : w.name # v.name}
<1>1. RecordPlan(d, W, V) =
        {ChangeOf("create", d, r) : r \in A} \cup {ChangeOf("update", d, r) : r \in B}
          \cup {ChangeOf("delete", d, e) : e \in C}
  BY DEF RecordPlan
<1>2. A = {} <=> \A w \in W : \E e \in V : e.name = w.name
  OBVIOUS
<1>3. B = {} <=> \A w \in W : \A e \in V : e.name = w.name => SameRecord(e, w)
  OBVIOUS
<1>4. C = {} <=> \A e \in V : \E w \in W : w.name = e.name
  OBVIOUS
<1> HIDE DEF A, B, C
<1>5. RecordPlan(d, W, V) = {} <=> A = {} /\ B = {} /\ C = {}
  BY <1>1
<1> QED
  BY <1>2, <1>3, <1>4, <1>5

LEMMA ZoneFinite == ASSUME Typed, NEW d \in Domain PROVE IsFiniteSet(zone[d])
BY DEF Typed, ZonesOK, ZoneOK

LEMMA SeenMeansServed == ASSUME SeenInv PROVE QuietMeansServed
<1> SUFFICES ASSUME cmd = "confirm", plan = {}, listed, ~touched, NEW d \in scope
             PROVE  /\ \A r \in Wanted(cfg, d) : Serves(d, r)
                    /\ FitsPage(d) =>
                         \A e \in zone[d] : \E r \in Wanted(cfg, d) : r.name = e.name
  BY DEF QuietMeansServed
<1>1. PICK q \in Domain : \E S \in Listings(q) : \E V \in Views(S) :
        scope = {q} /\ plan = RecordPlan(q, Wanted(cfg, q), V)
  BY DEF SeenInv, Seen
<1>2. q = d /\ d \in Domain
  BY <1>1
<1>3. PICK S \in Listings(d) : \E V \in Views(S) : RecordPlan(d, Wanted(cfg, d), V) = {}
  BY <1>1, <1>2
<1>4. PICK V \in Views(S) : RecordPlan(d, Wanted(cfg, d), V) = {}
  BY <1>3
<1>5. S \subseteq zone[d] /\ (FitsPage(d) => S = zone[d])
  BY <1>2, ListsEntries
<1>6. IsFiniteSet(S)
  BY <1>2, <1>5, ZoneFinite, FS_Subset DEF SeenInv
<1>7. V \subseteq S /\ \A e \in S : \E v \in V : v.name = e.name
  BY <1>6, ViewOf
<1> DEFINE W == Wanted(cfg, d)
<1>8. /\ \A w \in W : \E e \in V : e.name = w.name
      /\ \A w \in W : \A e \in V : e.name = w.name => SameRecord(e, w)
      /\ \A e \in V : \E w \in W : w.name = e.name
  BY <1>4, PlansNothing
<1> HIDE DEF W
<1>9. \A r \in W : Serves(d, r)
  BY <1>5, <1>7, <1>8 DEF Serves, SameRecord
<1>10. FitsPage(d) => \A e \in zone[d] : \E r \in W : r.name = e.name
  BY <1>5, <1>7, <1>8
<1> QED
  BY <1>9, <1>10 DEF W

\* A plan of the terminal interface that lists and finds nothing to do says the
\* truth: every record planned for is served, and where the first page was all,
\* no other name is.
THEOREM QuietIsServed == Spec => []QuietMeansServed
<1>1. Init => SeenInv
  BY InitTyped DEF Init, SeenInv, Seen, Fresh
<1>2. Spec => []SeenInv
  BY <1>1, SeenNext, PTL DEF Spec
<1> QED
  BY <1>2, SeenMeansServed, PTL
-----------------------------------------------------------------------------
(* What the provider's calls make of a zone, entry by entry.               *)

IsWritten(e, d, id, r) ==
  /\ e.id = id /\ e.name = r.name /\ e.value = r.value /\ e.ttl = StoredTTL(d, r)
  /\ r.ttl # 0 => e.ttl = r.ttl

LEMMA CreateDoes ==
  ASSUME Typed, NEW d \in Domain, NEW r, r \in Record \/ r \in Given, NEW o,
         Create(d, r, o)
  PROVE  \/ o = "refused" /\ UNCHANGED <<zone, nextId>>
         \/ /\ o # "refused"
            /\ \E e : /\ IsWritten(e, d, nextId, r)
                      /\ zone'[d] = zone[d] \cup {e}
                      /\ \A q \in Domain : q # d => zone'[q] = zone[q]
            /\ \A q \in Domain : \A f \in zone[q] : f.id # nextId
            /\ \A q \in Domain : \A f \in before[q] : f.id # nextId
<1>1. CASE o = "refused"
  BY <1>1 DEF Create
<1>2. CASE o # "refused"
  <2> DEFINE e == AsEntry(d, nextId, r)
  <2>1. zone' = [zone EXCEPT ![d] = zone[d] \cup {e}]
    BY <1>2 DEF Create
  <2>2. IsWritten(e, d, nextId, r)
    BY EntryWritten DEF IsWritten, Typed, ZonesOK
  <2> HIDE DEF e
  <2>3. zone'[d] = zone[d] \cup {e} /\ \A q \in Domain : q # d => zone'[q] = zone[q]
    BY <2>1 DEF Typed, ZonesOK
  <2>4. /\ nextId \in Nat
        /\ \A q \in Domain : \A f \in zone[q] : f.id \in Nat /\ f.id < nextId
        /\ \A q \in Domain : \A f \in before[q] : f.id \in Nat /\ f.id < nextId
    BY DEF Typed, ZonesOK, ZoneOK, Entry
  <2>5. /\ \A q \in Domain : \A f \in zone[q] : f.id # nextId
        /\ \A q \in Domain : \A f \in before[q] : f.id # nextId
    BY <2>4
  <2> QED
    BY <1>2, <2>2, <2>3, <2>5
<1> QED
  BY <1>1, <1>2

LEMMA UpdateDoes ==
  ASSUME Typed, NEW d \in Domain, NEW id \in Nat,
         NEW r, r \in Record \/ r \in Given, NEW o, Update(d, id, r, o)
  PROVE  \/ o = "refused" /\ UNCHANGED zone
         \/ /\ o # "refused"
            /\ \E e : /\ IsWritten(e, d, id, r)
                      /\ zone'[d] = {f \in zone[d] : f.id # id} \cup {e}
                      /\ \A q \in Domain : q # d => zone'[q] = zone[q]
            /\ \E x \in zone[d] : x.id = id
<1>1. CASE o = "refused"
  BY <1>1 DEF Update
<1>2. CASE o # "refused"
  <2> DEFINE e == AsEntry(d, id, r)
  <2>1. zone' = [zone EXCEPT ![d] = {f \in zone[d] : f.id # id} \cup {e}]
        /\ \E x \in zone[d] : x.id = id
    BY <1>2 DEF Update, Without, Has
  <2>2. IsWritten(e, d, id, r)
    BY EntryWritten DEF IsWritten
  <2> HIDE DEF e
  <2>3. /\ zone'[d] = {f \in zone[d] : f.id # id} \cup {e}
        /\ \A q \in Domain : q # d => zone'[q] = zone[q]
    BY <2>1 DEF Typed, ZonesOK
  <2> QED
    BY <1>2, <2>1, <2>2, <2>3
<1> QED
  BY <1>1, <1>2

LEMMA DeleteDoes ==
  ASSUME Typed, NEW d \in Domain, NEW id, NEW o, Delete(d, id, o)
  PROVE  \/ o = "refused" /\ UNCHANGED zone
         \/ /\ o # "refused"
            /\ zone'[d] = {f \in zone[d] : f.id # id}
            /\ \A q \in Domain : q # d => zone'[q] = zone[q]
BY DEF Delete, Without, Typed, ZonesOK

\* How a step that carries out a plan touches the zones.
Touches(ch, o) ==
  \/ ch.type = "create" /\ Create(ch.domain, ch.record, o)
  \/ /\ cmd = "act" /\ ch = call.change
     /\ \/ ch.type = "update" /\ call.id = None /\ Create(ch.domain, ch.record, o)
        \/ ch.type = "update" /\ call.id # None /\ Update(ch.domain, call.id, ch.record, o)
        \/ ch.type = "delete" /\ call.id # None /\ Delete(ch.domain, call.id, o)

\* A delete that found nothing to delete.
Passes(ch) ==
  /\ cmd = "act" /\ ch = call.change /\ ch.type = "delete" /\ call.id = None
  /\ UNCHANGED <<zone, failed>>

LEMMA CarryingOutCases ==
  ASSUME Typed, CarriesOut
  PROVE  \/ Confirm
         \/ \E ch \in plan : ListRecords(ch) /\ UNCHANGED zone
         \/ \E ch \in plan : /\ Passes(ch) \/ \E o : Touches(ch, o) /\ Count(o)
                             /\ plan' = plan \ {ch} /\ cmd' # "act"
<1>1. ASSUME NEW ch \in plan, CreateRecord(ch)
      PROVE  (\E o : Touches(ch, o) /\ Count(o)) /\ plan' = plan \ {ch} /\ cmd' # "act"
  BY <1>1 DEF CreateRecord, Touches, NextCommand
<1>2. ASSUME NEW ch \in plan, ListRecords(ch) PROVE UNCHANGED zone
  BY <1>2 DEF ListRecords
<1>3. ASSUME ActOnRecord
      PROVE  /\ call.change \in plan
             /\ Passes(call.change) \/ \E o : Touches(call.change, o) /\ Count(o)
             /\ plan' = plan \ {call.change} /\ cmd' # "act"
  <2>1. call.change \in plan /\ call.change.type \in {"update", "delete"}
    BY <1>3, ChangeTyped DEF ActOnRecord, Typed, ActOK
  <2>2. cmd = "act" /\ plan' = plan \ {call.change} /\ cmd' # "act"
    BY <1>3 DEF ActOnRecord, NextCommand
  <2>3. PICK o : IF call.change.type = "update" THEN UpdateRecord(o) ELSE DeleteRecord(o)
    BY <1>3 DEF ActOnRecord
  <2>4. Passes(call.change) \/ (Touches(call.change, o) /\ Count(o))
    BY <2>1, <2>2, <2>3 DEF UpdateRecord, DeleteRecord, Touches, Passes
  <2> QED
    BY <2>1, <2>2, <2>4
<1> QED
  BY <1>1, <1>2, <1>3 DEF CarriesOut
-----------------------------------------------------------------------------
(* What an apply removes.                                                  *)

Applying == cmd \in {"apply", "act", "applied"} /\ ~touched

\* An entry keeps its name while it is there.
NamesStay ==
  Applying => \A d \in Domain : \A e \in before[d], f \in zone[d] :
                e.id = f.id => e.name = f.name

\* The entry that is to be updated or deleted is there, under the record's name.
Found ==
  (cmd = "act" /\ ~touched /\ call.id # None) =>
    /\ call.change.domain \notin Cloudflare
    /\ \E x \in zone[call.change.domain] :
         x.id = call.id /\ x.name = call.change.record.name

RemovesInv == SeenInv /\ RemovesOnlyUnconfigured /\ NamesStay /\ Found

\* Listing for a change finds its entry by name.
LEMMA ListingFinds ==
  ASSUME Typed, NEW ch \in plan, ListRecords(ch)
  PROVE  Found'
<1> SUFFICES ASSUME cmd' = "act", call'.id # None PROVE Found'
  BY DEF Found
<1>1. PICK S \in Listings(ch.domain) :
        LET found == Matching(ch.domain, S, ch.record) IN
        \/ found = {} /\ call' = [change |-> ch, id |-> None]
        \/ \E e \in found : call' = [change |-> ch, id |-> e.id]
  BY DEF ListRecords, NextCommand
<1>2. PICK e \in Matching(ch.domain, S, ch.record) : call' = [change |-> ch, id |-> e.id]
  BY <1>1
<1>3. ch.domain \in Domain /\ ch.record.name \in Name
  BY ChangeTyped
<1>4. S \subseteq zone[ch.domain] /\ zone[ch.domain] \subseteq Entry
  BY <1>3, ListsEntries DEF Typed, ZonesOK, ZoneOK
<1>5. e \in S /\ e.name \in Name
  BY <1>4 DEF Matching, Entry
<1>6. ch.domain \notin Cloudflare /\ e.name = ch.record.name
  BY <1>3, <1>5, MatchesByName
<1>7. zone' = zone /\ call'.change = ch /\ call'.id = e.id
  BY <1>2 DEF ListRecords
<1> QED
  BY <1>4, <1>5, <1>6, <1>7 DEF Found

\* The heart of it, for one domain: what a call does to an entry that was there.
LEMMA TouchesRemove ==
  ASSUME RemovesInv, Applying, NEW ch \in plan, NEW o, Touches(ch, o),
         UNCHANGED <<before, cfg, scope>>, NEW d \in Domain
  PROVE  /\ \A e \in before[d], f \in zone'[d] : e.id = f.id => e.name = f.name
         /\ \A e \in before[d] \ zone'[d] :
              /\ d \in scope
              /\ (\E f \in zone'[d] : f.id = e.id) <=>
                   \E r \in Wanted(cfg, d) : r.name = e.name
<1> DEFINE W == Wanted(cfg, d)
           wanted(e) == \E r \in W : r.name = e.name
<1>1. /\ ch.domain \in Domain /\ ch.domain \in scope
      /\ ch.type # "delete" => ch.record \in Record /\ ch.record \in Wanted(cfg, ch.domain)
      /\ ch.type = "delete" => \A w \in Wanted(cfg, ch.domain) : w.name # ch.record.name
  BY ChangeTyped DEF RemovesInv, SeenInv
<1>2. \A e \in before[d], f \in zone[d] : e.id = f.id => e.name = f.name
  BY DEF RemovesInv, NamesStay
<1>3. \A e \in before[d] \ zone[d] :
        d \in scope /\ ((\E f \in zone[d] : f.id = e.id) <=> wanted(e))
  BY DEF RemovesInv, RemovesOnlyUnconfigured, Applying, Has
<1>4. \A e, f \in before[d] : e.id = f.id => e = f
  BY DEF RemovesInv, SeenInv, Typed, ZonesOK, ZoneOK
<1>5. Typed
  BY DEF RemovesInv, SeenInv
<1>6. \A e, f \in zone[d] : e.id = f.id => e = f
  BY <1>5 DEF Typed, ZonesOK, ZoneOK
<1>7. CASE zone'[d] = zone[d]
  BY <1>2, <1>3, <1>7
<1>8. CASE d = ch.domain /\ Create(d, ch.record, o) /\ zone'[d] # zone[d]
           /\ ch.type # "delete"
  <2>1. PICK n : /\ n.id = nextId /\ zone'[d] = zone[d] \cup {n}
                 /\ \A f \in before[d] : f.id # nextId
    BY <1>1, <1>5, <1>8, CreateDoes DEF IsWritten
  <2> HIDE DEF wanted
  <2> QED
    BY <1>2, <1>3, <2>1 DEF wanted
<1>9. CASE /\ d = ch.domain /\ ch.type # "delete" /\ cmd = "act" /\ ch = call.change
           /\ call.id # None /\ Update(d, call.id, ch.record, o) /\ zone'[d] # zone[d]
  <2>1. PICK x \in zone[d] : x.id = call.id /\ x.name = ch.record.name
    BY <1>9 DEF RemovesInv, Found, Applying
  <2>2. call.id \in Nat
    BY <1>5, <1>9 DEF Typed, ActOK
  <2>3. PICK n : /\ n.id = call.id /\ n.name = ch.record.name
                 /\ zone'[d] = {f \in zone[d] : f.id # call.id} \cup {n}
    BY <1>1, <1>5, <1>9, <2>2, UpdateDoes DEF IsWritten
  <2>4. ch.record \in W
    BY <1>1, <1>9
  <2> HIDE DEF W
  <2>5. \A e \in before[d], f \in zone'[d] : e.id = f.id => e.name = f.name
    BY <1>2, <2>1, <2>3
  <2>6. ASSUME NEW e \in before[d] \ zone'[d]
        PROVE  d \in scope /\ ((\E f \in zone'[d] : f.id = e.id) <=> wanted(e))
    <3>1. CASE e.id = call.id
      BY <1>1, <1>2, <1>9, <2>1, <2>3, <2>4, <3>1
    <3>2. CASE e.id # call.id
      <4>1. e \in before[d] \ zone[d]
        BY <2>3, <3>2
      <4>2. (\E f \in zone'[d] : f.id = e.id) <=> (\E f \in zone[d] : f.id = e.id)
        BY <2>3, <3>2
      <4> QED
        BY <1>3, <4>1, <4>2
    <3> QED
      BY <3>1, <3>2
  <2> QED
    BY <2>5, <2>6 DEF W
<1>10. CASE /\ d = ch.domain /\ ch.type = "delete" /\ cmd = "act" /\ ch = call.change
            /\ call.id # None /\ Delete(d, call.id, o) /\ zone'[d] # zone[d]
  <2>1. PICK x \in zone[d] : x.id = call.id /\ x.name = ch.record.name
    BY <1>10 DEF RemovesInv, Found, Applying
  <2>2. zone'[d] = {f \in zone[d] : f.id # call.id}
    BY <1>1, <1>5, <1>10, DeleteDoes
  <2>3. \A w \in W : w.name # ch.record.name
    BY <1>1, <1>10
  <2> HIDE DEF W
  <2>4. ASSUME NEW e \in before[d] \ zone'[d]
        PROVE  d \in scope /\ ((\E f \in zone'[d] : f.id = e.id) <=> wanted(e))
    <3>1. CASE e.id = call.id
      BY <1>1, <1>2, <1>10, <2>1, <2>2, <2>3, <3>1
    <3>2. CASE e.id # call.id
      <4>1. e \in before[d] \ zone[d]
        BY <2>2, <3>2
      <4>2. (\E f \in zone'[d] : f.id = e.id) <=> (\E f \in zone[d] : f.id = e.id)
        BY <2>2, <3>2
      <4> QED
        BY <1>3, <4>1, <4>2
    <3> QED
      BY <3>1, <3>2
  <2> QED
    BY <1>2, <2>2, <2>4 DEF W
<1>11. d # ch.domain => zone'[d] = zone[d]
  <2>1. call.id # None /\ cmd = "act" => call.id \in Nat
    BY <1>5 DEF Typed, ActOK
  <2> QED
    BY <1>1, <1>5, <2>1, CreateDoes, UpdateDoes, DeleteDoes DEF Touches
<1> QED
  BY <1>7, <1>8, <1>9, <1>10, <1>11 DEF Touches

LEMMA RemovesNext == RemovesInv /\ [Next]_vars => RemovesInv'
<1> SUFFICES ASSUME RemovesInv, [Next]_vars, SeenInv', Typed
             PROVE  RemovesOnlyUnconfigured' /\ NamesStay' /\ Found'
  BY SeenNext DEF RemovesInv, SeenInv
<1>1. CASE UNCHANGED vars
  BY <1>1 DEF vars, RemovesInv, RemovesOnlyUnconfigured, NamesStay, Found, Applying, Has
<1>2. CASE ~Applying'
  BY <1>2 DEF RemovesOnlyUnconfigured, NamesStay, Found, Applying
<1>3. CASE CarriesOut /\ Applying'
  <2>1. UNCHANGED <<before, cfg, scope, touched>>
    BY <1>3 DEF CarriesOut, Confirm, CreateRecord, ListRecords, ActOnRecord, HandlerFrame,
               others
  <2>2. ASSUME Confirm PROVE RemovesOnlyUnconfigured' /\ NamesStay' /\ Found'
    <3>1. before' = zone /\ zone' = zone /\ cmd' # "act"
      BY <1>3, <2>1, <2>2 DEF Confirm, RemovesInv, SeenInv, Fresh, Applying
    <3>2. \A d \in Domain : \A e, f \in zone[d] : e.id = f.id => e = f
      BY DEF Typed, ZonesOK, ZoneOK
    <3> QED
      BY <3>1, <3>2 DEF RemovesOnlyUnconfigured, NamesStay, Found
  <2>3. ASSUME NEW ch \in plan, ListRecords(ch), UNCHANGED zone
        PROVE  RemovesOnlyUnconfigured' /\ NamesStay' /\ Found'
    <3>1. Applying
      BY <1>3, <2>1, <2>3 DEF Applying, ListRecords
    <3>2. Found'
      BY <2>3, ListingFinds
    <3>3. RemovesOnlyUnconfigured' /\ NamesStay'
      BY <2>1, <2>3, <3>1 DEF RemovesInv, RemovesOnlyUnconfigured, NamesStay, Applying, Has
    <3> QED
      BY <3>2, <3>3
  <2>4. ASSUME NEW ch \in plan, Passes(ch) \/ \E o : Touches(ch, o) /\ Count(o),
               plan' = plan \ {ch}, cmd' # "act", Applying
        PROVE  RemovesOnlyUnconfigured' /\ NamesStay' /\ Found'
    <3>1. Found'
      BY <2>4 DEF Found
    <3>2. CASE UNCHANGED zone
      BY <2>1, <2>4, <3>1, <3>2
         DEF RemovesInv, RemovesOnlyUnconfigured, NamesStay, Applying, Has
    <3>3. ASSUME NEW o, Touches(ch, o)
          PROVE  RemovesOnlyUnconfigured' /\ NamesStay' /\ Found'
      <4>1. \A d \in Domain :
              /\ \A e \in before[d], f \in zone'[d] : e.id = f.id => e.name = f.name
              /\ \A e \in before[d] \ zone'[d] :
                   /\ d \in scope
                   /\ (\E f \in zone'[d] : f.id = e.id) <=>
                        \E r \in Wanted(cfg, d) : r.name = e.name
        BY <2>1, <2>4, <3>3, TouchesRemove
      <4> QED
        BY <2>1, <3>1, <4>1 DEF RemovesOnlyUnconfigured, NamesStay, Has
    <3> QED
      BY <2>4, <3>2, <3>3 DEF Passes
  <2>5. Confirm \/ Applying
    BY <1>3, <2>1 DEF CarriesOut, CreateRecord, ListRecords, ActOnRecord, Applying
  <2> QED
    BY <1>3, <2>2, <2>3, <2>4, <2>5, CarryingOutCases
<1> QED
  BY <1>1, <1>2, <1>3, WhereStepsLead DEF Applying

\* While a plan is carried out and nobody else edits, no entry goes whose name
\* the configuration has, none is rewritten whose name it does not have, and
\* domains out of scope lose nothing.
THEOREM OnlyUnconfiguredGoes == Spec => []RemovesOnlyUnconfigured
<1>1. Init => RemovesInv
  BY InitTyped DEF Init, RemovesInv, SeenInv, Seen, Fresh, RemovesOnlyUnconfigured,
     NamesStay, Found, Applying
<1>2. Spec => []RemovesInv
  BY <1>1, RemovesNext, PTL DEF Spec
<1>3. RemovesInv => RemovesOnlyUnconfigured
  BY DEF RemovesInv
<1> QED
  BY <1>2, <1>3, PTL
-----------------------------------------------------------------------------
(* A plan after an apply.                                                  *)

Faithful == listed /\ failed = 0 /\ ~touched

\* The domains the theorem is about.
Settles(d) ==
  /\ d \notin Cloudflare /\ OnePerName(before[d])
  /\ Cardinality(NamesOf(before[d]) \cup NamesOf(Wanted(cfg, d))) <= PageSize
  /\ \A r \in Wanted(cfg, d) : r.ttl # 0

Pending(d, type, n) ==
  \E ch \in plan : ch.domain = d /\ ch.type = type /\ ch.record.name = n

\* Every name is as it is wanted to be, or its change is pending: one entry of a
\* name at most; a name to be created is not there, one to be updated is; a
\* name with nothing pending has the wanted entry, or is not there either.
OnCourse(d) ==
  /\ OnePerName(zone[d])
  /\ NamesOf(zone[d]) \subseteq NamesOf(before[d]) \cup NamesOf(Wanted(cfg, d))
  /\ \A w \in Wanted(cfg, d) :
       /\ Pending(d, "create", w.name) => \A e \in zone[d] : e.name # w.name
       /\ Pending(d, "update", w.name) => \E e \in zone[d] : e.name = w.name
       /\ \/ Pending(d, "create", w.name) \/ Pending(d, "update", w.name)
          \/ \E e \in zone[d] : e.name = w.name /\ SameRecord(e, w)
  /\ \A e \in zone[d] :
       (\A w \in Wanted(cfg, d) : w.name # e.name) => Pending(d, "delete", e.name)

Course ==
  (Applying /\ Faithful) => \A d \in scope : Settles(d) => OnCourse(d)

\* What the listing did not find is not there.
NotThere ==
  (cmd = "act" /\ Faithful /\ call.id = None /\ Settles(call.change.domain)) =>
    \A e \in zone[call.change.domain] : e.name # call.change.record.name

CourseInv == SeenInv /\ Found /\ Course /\ NotThere

LEMMA WantedIsFinite ==
  ASSUME NEW c, FileOK(c), NEW d
  PROVE  IsFiniteSet(Wanted(c, d))
<1>1. CASE d \notin DOMAIN c
  BY <1>1, FS_EmptySet DEF Wanted
<1>2. CASE d \in DOMAIN c
  <2> DEFINE J == {j \in DOMAIN c[d] :
                     \A k \in DOMAIN c[d] : k > j => c[d][k].name # c[d][j].name}
             f == [i \in J |-> c[d][i]]
  <2>1. c[d] \in Seq(Record)
    BY <1>2 DEF FileOK
  <2>2. DOMAIN c[d] = 1..Len(c[d]) /\ Len(c[d]) \in Nat
    BY <2>1
  <2>3. IsFiniteSet(DOMAIN c[d])
    BY <2>2, FS_Interval
  <2>4. Wanted(c, d) = {c[d][i] : i \in J} /\ J \subseteq DOMAIN c[d]
    BY <1>2 DEF Wanted
  <2> HIDE DEF J
  <2>5. IsFiniteSet(J)
    BY <2>3, <2>4, FS_Subset
  <2>6. IsFiniteSet({f[i] : i \in J})
    BY <2>5, ImageIsFinite
  <2>7. {f[i] : i \in J} = Wanted(c, d)
    BY <2>4
  <2> QED
    BY <2>6, <2>7
<1> QED
  BY <1>1, <1>2

LEMMA NamesAreFinite ==
  ASSUME NEW R, IsFiniteSet(R)
  PROVE  IsFiniteSet(NamesOf(R))
<1> DEFINE f == [r \in R |-> r.name]
<1>1. IsFiniteSet({f[r] : r \in R})
  BY ImageIsFinite
<1>2. {f[r] : r \in R} = NamesOf(R)
  BY DEF NamesOf
<1> QED
  BY <1>1, <1>2

\* One entry for each of few names fits the page.
LEMMA FewNamesFit ==
  ASSUME Typed, NEW d \in Domain, Settles(d), NEW S, OnePerName(S),
         NamesOf(S) \subseteq NamesOf(before[d]) \cup NamesOf(Wanted(cfg, d))
  PROVE  Cardinality(S) <= PageSize
<1> DEFINE T == NamesOf(before[d]) \cup NamesOf(Wanted(cfg, d))
           f == [e \in S |-> e.name]
<1>1. IsFiniteSet(before[d]) /\ IsFiniteSet(Wanted(cfg, d))
  BY WantedIsFinite DEF Typed, ZonesOK, ZoneOK, FilesOK
<1>2. IsFiniteSet(T)
  BY <1>1, NamesAreFinite, FS_Union
<1>3. \A e \in S : e.name \in T
  BY DEF NamesOf
<1> HIDE DEF T
<1>4. f \in [S -> T]
  BY <1>3
<1>5. \A x, y \in S : f[x] = f[y] => x = y
  BY DEF OnePerName
<1>6. f \in Injection(S, T)
  BY <1>4, <1>5 DEF Injection, IsInjective
<1>7. Cardinality(S) <= Cardinality(T) /\ IsFiniteSet(S)
  BY <1>2, <1>6, FS_Injection
<1>8. Cardinality(T) <= PageSize
  BY DEF Settles, T
<1>9. Cardinality(S) \in Nat /\ Cardinality(T) \in Nat /\ PageSize \in Nat
  BY <1>2, <1>7, FS_CardinalityType, PagesAssumption
<1> QED
  BY <1>7, <1>8, <1>9

LEMMA PlanPends ==
  ASSUME NEW d, NEW V, plan = RecordPlan(d, Wanted(cfg, d), V), NEW n
  PROVE  /\ Pending(d, "create", n) <=>
              \E w \in Wanted(cfg, d) : w.name = n /\ \A e \in V : e.name # w.name
         /\ Pending(d, "update", n) <=>
              \E w \in Wanted(cfg, d) :
                w.name = n /\ \E e \in V : e.name = w.name /\ ~SameRecord(e, w)
         /\ Pending(d, "delete", n) <=>
              \E e \in V : e.name = n /\ \A w \in Wanted(cfg, d) : w.name # e.name
<1> DEFINE W == Wanted(cfg, d)
           A == {w \in W : \A e \in V : e.name # w.name}
           B == {w \in W : \E e \in V : e.name = w.name /\ ~SameRecord(e, w)}
           C == {v \in V : \A w \in W : w.name # v.name}
<1>1. plan = {ChangeOf("create", d, r) : r \in A} \cup {ChangeOf("update", d, r) : r \in B}
               \cup {ChangeOf("delete", d, e) : e \in C}
  BY DEF RecordPlan
<1>2. \A w : w \in A <=> w \in W /\ \A e \in V : e.name # w.name
  OBVIOUS
<1>3. \A w : w \in B <=> w \in W /\ \E e \in V : e.name = w.name /\ ~SameRecord(e, w)
  OBVIOUS
<1>4. \A v : v \in C <=> v \in V /\ \A w \in W : w.name # v.name
  OBVIOUS
<1> HIDE DEF A, B, C, W
<1>5. ASSUME NEW t \in {"create", "update", "delete"}, NEW R,
             \A r \in R : ChangeOf(t, d, r) \in plan,
             \A ch \in plan : ch.type = t => \E r \in R : ch = ChangeOf(t, d, r)
      PROVE  Pending(d, t, n) <=> \E r \in R : r.name = n
  <2>1. \A r : /\ ChangeOf(t, d, r).domain = d /\ ChangeOf(t, d, r).type = t
               /\ ChangeOf(t, d, r).record = r
    BY DEF ChangeOf
  <2> QED
    BY <1>5, <2>1 DEF Pending
<1>6. \A t, r : ChangeOf(t, d, r).type = t
  BY DEF ChangeOf
<1>7. /\ Pending(d, "create", n) <=> \E r \in A : r.name = n
      /\ Pending(d, "update", n) <=> \E r \in B : r.name = n
      /\ Pending(d, "delete", n) <=> \E r \in C : r.name = n
  <2>1. Pending(d, "create", n) <=> \E r \in A : r.name = n
    BY <1>1, <1>5, <1>6
  <2>2. Pending(d, "update", n) <=> \E r \in B : r.name = n
    BY <1>1, <1>5, <1>6
  <2>3. Pending(d, "delete", n) <=> \E r \in C : r.name = n
    BY <1>1, <1>5, <1>6
  <2> QED
    BY <2>1, <2>2, <2>3
<1> QED
  BY <1>2, <1>3, <1>4, <1>7 DEF W

\* At the start every name is on its course.
LEMMA StartsOnCourse ==
  ASSUME SeenInv, cmd = "confirm", listed, ~touched, NEW d \in scope, Settles(d)
  PROVE  OnCourse(d)
<1> DEFINE W == Wanted(cfg, d)
<1>1. PICK q \in Domain : \E S \in Listings(q) : \E V \in Views(S) :
        scope = {q} /\ plan = RecordPlan(q, Wanted(cfg, q), V)
  BY DEF SeenInv, Seen
<1>2. q = d /\ d \in Domain
  BY <1>1
<1>3. PICK S \in Listings(d) : \E V \in Views(S) : plan = RecordPlan(d, W, V)
  BY <1>1, <1>2
<1>4. PICK V \in Views(S) : plan = RecordPlan(d, W, V)
  BY <1>3
<1>5. before = zone /\ Typed
  BY DEF SeenInv, Fresh
<1>6. OnePerName(zone[d]) /\ NamesOf(zone[d]) \subseteq NamesOf(before[d])
  BY <1>5 DEF Settles
<1>7. S = zone[d]
  <2>1. Cardinality(zone[d]) <= PageSize
    BY <1>2, <1>5, <1>6, FewNamesFit
  <2> QED
    BY <1>2, <2>1, ListsEntries DEF FitsPage
<1>8. V \subseteq zone[d] /\ \A e \in zone[d] : \E v \in V : v.name = e.name
  BY <1>2, <1>5, <1>7, ZoneFinite, ViewOf
<1>9. V = zone[d]
  <2>1. ASSUME NEW e \in zone[d] PROVE e \in V
    <3>1. PICK v \in V : v.name = e.name
      BY <1>8
    <3>2. v = e
      BY <1>6, <1>8, <3>1 DEF OnePerName
    <3> QED
      BY <3>2
  <2> QED
    BY <1>8, <2>1
<1>10. OnePerName(W)
  BY <1>5, WantedRecords DEF Typed, FilesOK
<1>11. \A n : /\ Pending(d, "create", n) <=>
                   \E w \in W : w.name = n /\ \A e \in V : e.name # w.name
              /\ Pending(d, "update", n) <=>
                   \E w \in W : w.name = n /\ \E e \in V : e.name = w.name /\ ~SameRecord(e, w)
              /\ Pending(d, "delete", n) <=>
                   \E e \in V : e.name = n /\ \A w \in W : w.name # e.name
  BY <1>4, PlanPends
<1> HIDE DEF W
<1>12. \A w \in W :
       /\ Pending(d, "create", w.name) => \A e \in zone[d] : e.name # w.name
       /\ Pending(d, "update", w.name) => \E e \in zone[d] : e.name = w.name
       /\ \/ Pending(d, "create", w.name) \/ Pending(d, "update", w.name)
          \/ \E e \in zone[d] : e.name = w.name /\ SameRecord(e, w)
  BY <1>9, <1>11
<1>13. \A e \in zone[d] : (\A w \in W : w.name # e.name) => Pending(d, "delete", e.name)
  BY <1>9, <1>11
<1> QED
  BY <1>6, <1>12, <1>13 DEF OnCourse, W

\* A change that is done is the only one of its kind and name.
LEMMA PendingAfter ==
  ASSUME Typed, NEW ch \in plan, plan' = plan \ {ch}, NEW d, NEW t, NEW n
  PROVE  /\ Pending(d, t, n)' => Pending(d, t, n)
         /\ ~(d = ch.domain /\ t = ch.type /\ n = ch.record.name) =>
              (Pending(d, t, n) => Pending(d, t, n)')
         /\ (d = ch.domain /\ t = ch.type /\ n = ch.record.name /\ t # "delete") =>
              ~Pending(d, t, n)'
<1>1. Pending(d, t, n)' <=>
        \E c \in plan \ {ch} : c.domain = d /\ c.type = t /\ c.record.name = n
  BY DEF Pending
<1>2. ASSUME t # "delete", NEW c \in plan, c.domain = ch.domain, c.type = ch.type,
             ch.type = t, c.record.name = ch.record.name
      PROVE  c = ch
  <2>1. /\ c.record \in Wanted(cfg, ch.domain) /\ ch.record \in Wanted(cfg, ch.domain)
        /\ c = ChangeOf(c.type, c.domain, c.record)
        /\ ch = ChangeOf(ch.type, ch.domain, ch.record)
    BY <1>2, ChangeTyped
  <2>2. OnePerName(Wanted(cfg, ch.domain))
    BY WantedRecords DEF Typed, FilesOK
  <2>3. c.record = ch.record
    BY <1>2, <2>1, <2>2 DEF OnePerName
  <2> QED
    BY <1>2, <2>1, <2>3
<1> QED
  BY <1>1, <1>2 DEF Pending

\* Where a change makes the record, or writes it over its entry, its name has
\* come to its end; so has a name whose entry is deleted.
LEMMA StaysOnCourse ==
  ASSUME Typed, NEW ch \in plan, plan' = plan \ {ch}, UNCHANGED <<before, cfg>>,
         Settles(ch.domain), OnCourse(ch.domain),
         \/ /\ ch.type = "create"
            /\ \E e : /\ IsWritten(e, ch.domain, e.id, ch.record)
                      /\ zone'[ch.domain] = zone[ch.domain] \cup {e}
         \/ /\ ch.type = "update"
            /\ \E x \in zone[ch.domain] : \E e :
                 /\ x.name = ch.record.name
                 /\ IsWritten(e, ch.domain, x.id, ch.record)
                 /\ zone'[ch.domain] = {f \in zone[ch.domain] : f.id # x.id} \cup {e}
         \/ /\ ch.type = "delete"
            /\ \E x \in zone[ch.domain] :
                 /\ x.name = ch.record.name
                 /\ zone'[ch.domain] = {f \in zone[ch.domain] : f.id # x.id}
         \/ /\ ch.type = "delete"
            /\ \A e \in zone[ch.domain] : e.name # ch.record.name
            /\ zone'[ch.domain] = zone[ch.domain]
  PROVE  OnCourse(ch.domain)'
<1> DEFINE d == ch.domain
           n == ch.record.name
           W == Wanted(cfg, d)
           Z == zone[d]
           Y == zone'[d]
<1>1. /\ OnePerName(Z) /\ NamesOf(Z) \subseteq NamesOf(before[d]) \cup NamesOf(W)
      /\ \A w \in W :
           /\ Pending(d, "create", w.name) => \A e \in Z : e.name # w.name
           /\ Pending(d, "update", w.name) => \E e \in Z : e.name = w.name
           /\ \/ Pending(d, "create", w.name) \/ Pending(d, "update", w.name)
              \/ \E e \in Z : e.name = w.name /\ SameRecord(e, w)
      /\ \A e \in Z : (\A w \in W : w.name # e.name) => Pending(d, "delete", e.name)
  BY DEF OnCourse
<1>2. /\ d \in Domain
      /\ ch.type # "delete" => ch.record \in W /\ ch.record.ttl # 0
      /\ ch.type = "delete" => \A w \in W : w.name # n
  BY ChangeTyped DEF Settles
<1>3. OnePerName(W) /\ \A e, f \in Z : e.id = f.id => e = f
  BY <1>2, WantedRecords DEF Typed, FilesOK, ZonesOK, ZoneOK
<1>4. \A t, m : /\ Pending(d, t, m)' => Pending(d, t, m)
                /\ ~(t = ch.type /\ m = n) => (Pending(d, t, m) => Pending(d, t, m)')
                /\ t = ch.type /\ m = n /\ t # "delete" => ~Pending(d, t, m)'
  BY PendingAfter
<1>5. Pending(d, ch.type, n)
  BY DEF Pending
<1>6. Wanted(cfg, d)' = W /\ before'[d] = before[d]
  BY DEF Wanted
<1> DEFINE Goal ==
  /\ OnePerName(Y) /\ NamesOf(Y) \subseteq NamesOf(before[d]) \cup NamesOf(W)
  /\ \A w \in W :
       /\ Pending(d, "create", w.name)' => \A e \in Y : e.name # w.name
       /\ Pending(d, "update", w.name)' => \E e \in Y : e.name = w.name
       /\ \/ Pending(d, "create", w.name)' \/ Pending(d, "update", w.name)'
          \/ \E e \in Y : e.name = w.name /\ SameRecord(e, w)
  /\ \A e \in Y : (\A w \in W : w.name # e.name) => Pending(d, "delete", e.name)'
<1>7. SUFFICES Goal
  BY <1>6 DEF OnCourse
<1>8. CASE /\ ch.type = "create"
           /\ \E e : IsWritten(e, d, e.id, ch.record) /\ Y = Z \cup {e}
  <2>1. PICK e : IsWritten(e, d, e.id, ch.record) /\ Y = Z \cup {e}
    BY <1>8
  <2>2. e.name = n /\ SameRecord(e, ch.record)
    BY <1>2, <1>8, <2>1 DEF IsWritten, SameRecord
  <2>3. ch.record \in W /\ \A f \in Z : f.name # n
    BY <1>1, <1>2, <1>5, <1>8
  <2> HIDE DEF W, Z, Y, d
  <2>4. OnePerName(Y) /\ NamesOf(Y) \subseteq NamesOf(before[d]) \cup NamesOf(W)
    BY <1>1, <2>1, <2>2, <2>3 DEF OnePerName, NamesOf
  <2>5. ASSUME NEW w \in W
        PROVE  /\ Pending(d, "create", w.name)' => \A f \in Y : f.name # w.name
               /\ Pending(d, "update", w.name)' => \E f \in Y : f.name = w.name
               /\ \/ Pending(d, "create", w.name)' \/ Pending(d, "update", w.name)'
                  \/ \E f \in Y : f.name = w.name /\ SameRecord(f, w)
    <3>1. CASE w.name = n
      <4>1. w = ch.record
        BY <1>3, <2>3, <3>1 DEF OnePerName
      <4> QED
        BY <1>4, <1>8, <2>1, <2>2, <3>1, <4>1
    <3>2. CASE w.name # n
      BY <1>1, <1>4, <2>1, <2>2, <3>2
    <3> QED
      BY <3>1, <3>2
  <2>6. \A f \in Y : (\A w \in W : w.name # f.name) => Pending(d, "delete", f.name)'
    BY <1>1, <1>4, <1>8, <2>1, <2>2, <2>3
  <2> QED
    BY <2>4, <2>5, <2>6
<1>9. CASE /\ ch.type = "update"
           /\ \E x \in Z : \E e : /\ x.name = n /\ IsWritten(e, d, x.id, ch.record)
                                  /\ Y = {f \in Z : f.id # x.id} \cup {e}
  <2>1. PICK x \in Z : \E e : /\ x.name = n /\ IsWritten(e, d, x.id, ch.record)
                              /\ Y = {f \in Z : f.id # x.id} \cup {e}
    BY <1>9
  <2>2. PICK e : IsWritten(e, d, x.id, ch.record) /\ Y = {f \in Z : f.id # x.id} \cup {e}
    BY <2>1
  <2>3. e.name = n /\ SameRecord(e, ch.record)
    BY <1>2, <1>9, <2>2 DEF IsWritten, SameRecord
  <2>4. ch.record \in W /\ x.name = n
    BY <1>2, <1>9, <2>1
  <2>5. \A f \in Z : f.name = n <=> f.id = x.id
    BY <1>1, <1>3, <2>1 DEF OnePerName
  <2> HIDE DEF W, Z, Y, d
  <2>6. OnePerName(Y)
    BY <1>1, <2>2, <2>3, <2>5 DEF OnePerName
  <2>7. NamesOf(Y) \subseteq NamesOf(before[d]) \cup NamesOf(W)
    <3>1. \A f \in Y : f \in Z \/ f.name = n
      BY <2>2, <2>3
    <3>2. n \in NamesOf(W)
      BY <2>4 DEF NamesOf
    <3>3. \A f \in Z : f.name \in NamesOf(Z)
      BY DEF NamesOf
    <3>4. \A f \in Y : f.name \in NamesOf(before[d]) \cup NamesOf(W)
      BY <1>1, <3>1, <3>2, <3>3
    <3> QED
      BY <3>4 DEF NamesOf
  <2>8. ASSUME NEW w \in W
        PROVE  /\ Pending(d, "create", w.name)' => \A f \in Y : f.name # w.name
               /\ Pending(d, "update", w.name)' => \E f \in Y : f.name = w.name
               /\ \/ Pending(d, "create", w.name)' \/ Pending(d, "update", w.name)'
                  \/ \E f \in Y : f.name = w.name /\ SameRecord(f, w)
    <3>1. CASE w.name = n
      <4>1. w = ch.record
        BY <1>3, <2>4, <3>1 DEF OnePerName
      <4>2. ~Pending(d, "create", w.name)'
        BY <1>1, <1>4, <2>1, <3>1
      <4> QED
        BY <2>2, <2>3, <3>1, <4>1, <4>2
    <3>2. CASE w.name # n
      <4>1. \A f \in Z : f.name = w.name => f \in Y
        BY <2>2, <2>5, <3>2
      <4>2. \A f \in Y : f.name = w.name => f \in Z
        BY <2>2, <2>3, <3>2
      <4> QED
        BY <1>1, <1>4, <3>2, <4>1, <4>2
    <3> QED
      BY <3>1, <3>2
  <2>9. \A f \in Y : (\A w \in W : w.name # f.name) => Pending(d, "delete", f.name)'
    BY <1>1, <1>4, <1>9, <2>2, <2>3, <2>4
  <2> QED
    BY <2>6, <2>7, <2>8, <2>9
<1>10. ASSUME ch.type = "delete", Y \subseteq Z, \A f \in Z : f \in Y <=> f.name # n
       PROVE  Goal
  <2>1. \A w \in W : w.name # n
    BY <1>2, <1>10
  <2> HIDE DEF W, Z, Y, d
  <2>2. OnePerName(Y) /\ NamesOf(Y) \subseteq NamesOf(before[d]) \cup NamesOf(W)
    BY <1>1, <1>10 DEF OnePerName, NamesOf
  <2>3. ASSUME NEW w \in W
        PROVE  /\ Pending(d, "create", w.name)' => \A f \in Y : f.name # w.name
               /\ Pending(d, "update", w.name)' => \E f \in Y : f.name = w.name
               /\ \/ Pending(d, "create", w.name)' \/ Pending(d, "update", w.name)'
                  \/ \E f \in Y : f.name = w.name /\ SameRecord(f, w)
    BY <1>1, <1>4, <1>10, <2>1
  <2>4. \A f \in Y : (\A w \in W : w.name # f.name) => Pending(d, "delete", f.name)'
    BY <1>1, <1>4, <1>10
  <2> QED
    BY <2>2, <2>3, <2>4
<1>11. CASE /\ ch.type = "delete"
            /\ \E x \in Z : x.name = n /\ Y = {f \in Z : f.id # x.id}
  <2>1. PICK x \in Z : x.name = n /\ Y = {f \in Z : f.id # x.id}
    BY <1>11
  <2>2. Y \subseteq Z /\ \A f \in Z : f \in Y <=> f.name # n
    BY <1>1, <1>3, <2>1 DEF OnePerName
  <2> QED
    BY <1>10, <1>11, <2>2
<1>12. CASE ch.type = "delete" /\ (\A e \in Z : e.name # n) /\ Y = Z
  <2>1. Y \subseteq Z /\ \A f \in Z : f \in Y <=> f.name # n
    BY <1>12
  <2> QED
    BY <1>10, <1>12, <2>1
<1> QED
  BY <1>8, <1>9, <1>11, <1>12

\* A change elsewhere changes nothing here.
LEMMA ElsewhereOnCourse ==
  ASSUME Typed, NEW ch \in plan, plan' = plan \ {ch}, UNCHANGED <<before, cfg>>,
         NEW d \in Domain, d # ch.domain, zone'[d] = zone[d], OnCourse(d)
  PROVE  OnCourse(d)'
<1>1. \A t, n : Pending(d, t, n)' <=> Pending(d, t, n)
  BY PendingAfter
<1>2. Wanted(cfg, d)' = Wanted(cfg, d) /\ before'[d] = before[d]
  BY DEF Wanted
<1> QED
  BY <1>1, <1>2 DEF OnCourse

\* Every call that is answered leads to where the change is meant to lead.
LEMMA TouchesOnCourse ==
  ASSUME CourseInv, Applying, Faithful, NEW ch \in plan, plan' = plan \ {ch},
         UNCHANGED <<before, cfg, scope>>, failed' = 0,
         Passes(ch) \/ \E o : Touches(ch, o) /\ Count(o),
         Settles(ch.domain)
  PROVE  /\ OnCourse(ch.domain)'
         /\ \A d \in Domain : d # ch.domain => zone'[d] = zone[d]
<1> DEFINE d == ch.domain
           n == ch.record.name
<1>1. Typed /\ d \in Domain /\ d \in scope
  BY ChangeTyped DEF CourseInv, SeenInv
<1>2. /\ ch.type # "delete" => ch.record \in Record /\ ch.record \in Wanted(cfg, d)
      /\ ch.type \in {"create", "update", "delete"}
  BY <1>1, ChangeTyped
<1>3. OnCourse(d)
  BY <1>1 DEF CourseInv, Course
<1>4. ASSUME cmd = "act", ch = call.change, call.id = None
      PROVE  \A e \in zone[d] : e.name # n
  BY <1>4 DEF CourseInv, NotThere
<1>5. ASSUME cmd = "act", ch = call.change, call.id # None
      PROVE  /\ call.id \in Nat
             /\ \E x \in zone[d] : x.id = call.id /\ x.name = n
  BY <1>1, <1>5 DEF CourseInv, Found, Applying, Typed, ActOK
<1>6. CASE Passes(ch)
  <2>1. zone' = zone /\ ch.type = "delete" /\ \A e \in zone[d] : e.name # n
    BY <1>4, <1>6 DEF Passes
  <2> QED
    BY <1>1, <1>3, <2>1, StaysOnCourse
<1>7. ASSUME NEW o, Touches(ch, o), Count(o) PROVE o = "done"
  BY <1>1, <1>7, CountTyped
<1>8. ASSUME NEW o, Touches(ch, o), o = "done" PROVE
        /\ OnCourse(ch.domain)' /\ \A q \in Domain : q # ch.domain => zone'[q] = zone[q]
  <2>1. CASE ch.type = "create" /\ Create(d, ch.record, o)
    <3>1. /\ \E e : IsWritten(e, d, nextId, ch.record) /\ zone'[d] = zone[d] \cup {e}
          /\ \A q \in Domain : q # d => zone'[q] = zone[q]
      BY <1>1, <1>2, <1>8, <2>1, CreateDoes
    <3>2. \E e : IsWritten(e, d, e.id, ch.record) /\ zone'[d] = zone[d] \cup {e}
      BY <3>1 DEF IsWritten
    <3> QED
      BY <1>1, <1>3, <2>1, <3>1, <3>2, StaysOnCourse
  <2>2. CASE ch.type = "update" /\ cmd = "act" /\ ch = call.change /\ call.id = None
    <3>1. \A e \in zone[d] : e.name # n
      BY <1>4, <2>2
    <3>2. Pending(d, "update", n)
      BY <2>2 DEF Pending
    <3> QED
      BY <1>2, <1>3, <2>2, <3>1, <3>2 DEF OnCourse
  <2>3. CASE /\ ch.type = "update" /\ cmd = "act" /\ ch = call.change /\ call.id # None
             /\ Update(d, call.id, ch.record, o)
    <3>1. PICK x \in zone[d] : x.id = call.id /\ x.name = n
      BY <1>5, <2>3
    <3>2. call.id \in Nat
      BY <1>5, <2>3
    <3>3. /\ \E e : /\ IsWritten(e, d, call.id, ch.record)
                    /\ zone'[d] = {f \in zone[d] : f.id # call.id} \cup {e}
          /\ \A q \in Domain : q # d => zone'[q] = zone[q]
      BY <1>1, <1>2, <1>8, <2>3, <3>2, UpdateDoes
    <3>4. \E e : /\ x.name = n /\ IsWritten(e, d, x.id, ch.record)
                 /\ zone'[d] = {f \in zone[d] : f.id # x.id} \cup {e}
      BY <3>1, <3>3
    <3> QED
      BY <1>1, <1>3, <2>3, <3>3, <3>4, StaysOnCourse
  <2>4. CASE /\ ch.type = "delete" /\ cmd = "act" /\ ch = call.change /\ call.id # None
             /\ Delete(d, call.id, o)
    <3>1. PICK x \in zone[d] : x.id = call.id /\ x.name = n
      BY <1>5, <2>4
    <3>2. /\ zone'[d] = {f \in zone[d] : f.id # x.id}
          /\ \A q \in Domain : q # d => zone'[q] = zone[q]
      BY <1>1, <1>8, <2>4, <3>1, DeleteDoes
    <3> QED
      BY <1>1, <1>3, <2>4, <3>1, <3>2, StaysOnCourse
  <2> QED
    BY <1>8, <2>1, <2>2, <2>3, <2>4 DEF Touches
<1> QED
  BY <1>6, <1>7, <1>8

\* Where the first page is all there is, the listing misses nothing.
LEMMA ListingMissesNothing ==
  ASSUME CourseInv, NEW ch \in plan, ListRecords(ch)
  PROVE  NotThere'
<1> SUFFICES ASSUME cmd' = "act", Faithful', call'.id = None,
                    Settles(call.change.domain)',
                    NEW e \in zone'[call'.change.domain]
             PROVE  e.name # call'.change.record.name
  BY DEF NotThere
<1>1. cmd = "apply" /\ UNCHANGED <<zone, before, cfg, scope, listed, touched>>
  BY DEF ListRecords, HandlerFrame, others
<1>2. /\ UNCHANGED failed
      /\ \E S \in Listings(ch.domain) :
           LET found == Matching(ch.domain, S, ch.record) IN
           \/ found = {} /\ call' = [change |-> ch, id |-> None]
           \/ \E f \in found : call' = [change |-> ch, id |-> f.id]
  BY DEF ListRecords, NextCommand
<1>3. Typed /\ ch.domain \in Domain /\ ch.domain \in scope
  BY ChangeTyped DEF CourseInv, SeenInv
<1>4. PICK S \in Listings(ch.domain) :
           \/ Matching(ch.domain, S, ch.record) = {} /\ call' = [change |-> ch, id |-> None]
           \/ \E f \in Matching(ch.domain, S, ch.record) : call' = [change |-> ch, id |-> f.id]
  BY <1>2
<1>5. S \subseteq zone[ch.domain] /\ zone[ch.domain] \subseteq Entry
  BY <1>3, ListsEntries DEF Typed, ZonesOK, ZoneOK
<1>6. \A f \in Matching(ch.domain, S, ch.record) : f.id \in Nat
  BY <1>5 DEF Matching, Entry
<1>7. call'.change = ch /\ Matching(ch.domain, S, ch.record) = {}
  BY <1>4, <1>6, NoneAssumption
<1>8. Settles(ch.domain)
  BY <1>1, <1>7 DEF Settles, Wanted
<1>9. OnCourse(ch.domain)
  BY <1>1, <1>2, <1>3, <1>8 DEF CourseInv, Course, Applying, Faithful
<1>10. S = zone[ch.domain]
  <2>1. Cardinality(zone[ch.domain]) <= PageSize
    BY <1>3, <1>8, <1>9, FewNamesFit DEF OnCourse
  <2> QED
    BY <1>3, <2>1, ListsEntries DEF FitsPage
<1>11. e \in zone[ch.domain] /\ ch.domain \notin Cloudflare
  BY <1>1, <1>7, <1>8 DEF Settles
<1> QED
  BY <1>7, <1>10, <1>11 DEF Matching, ListedName

LEMMA SameCourse ==
  ASSUME UNCHANGED <<zone, before, cfg, plan>>, NEW d
  PROVE  (OnCourse(d)' <=> OnCourse(d)) /\ (Settles(d)' <=> Settles(d))
<1>1. \A t, n : Pending(d, t, n)' <=> Pending(d, t, n)
  BY DEF Pending
<1>2. /\ Wanted(cfg, d)' = Wanted(cfg, d) /\ zone'[d] = zone[d]
      /\ before'[d] = before[d]
  BY DEF Wanted
<1> QED
  BY <1>1, <1>2 DEF OnCourse, Settles

LEMMA CourseNext == CourseInv /\ [Next]_vars => CourseInv'
<1> SUFFICES ASSUME CourseInv, [Next]_vars, SeenInv', Typed
             PROVE  Found' /\ Course' /\ NotThere'
  BY SeenNext DEF CourseInv, SeenInv
<1>1. CASE UNCHANGED vars
  <2>1. UNCHANGED <<zone, before, cfg, plan>>
    BY <1>1 DEF vars
  <2>2. Course'
    BY <1>1, <2>1, SameCourse DEF vars, CourseInv, Course, Applying, Faithful
  <2>3. Found' /\ NotThere'
    BY <1>1, <2>1, SameCourse DEF vars, CourseInv, Found, NotThere, Faithful
  <2> QED
    BY <2>2, <2>3
<1>2. CASE ~Applying'
  BY <1>2 DEF Found, Course, NotThere, Applying, Faithful
<1>3. CASE CarriesOut /\ Applying'
  <2>1. UNCHANGED <<before, cfg, scope, touched, listed>>
    BY <1>3 DEF CarriesOut, Confirm, CreateRecord, ListRecords, ActOnRecord, HandlerFrame,
               others
  <2>2. ASSUME NEW d PROVE Settles(d)' <=> Settles(d)
    BY <2>1 DEF Settles, Wanted
  <2>3. ASSUME Confirm PROVE Found' /\ Course' /\ NotThere'
    <3>1. cmd = "confirm" /\ cmd' = "apply" /\ UNCHANGED <<zone, plan, failed>>
      BY <2>3 DEF Confirm
    <3>2. ASSUME Faithful', NEW d \in scope, Settles(d)' PROVE OnCourse(d)'
      <4>1. OnCourse(d)
        BY <2>1, <2>2, <3>1, <3>2, StartsOnCourse DEF Faithful, CourseInv
      <4> QED
        BY <2>1, <3>1, <4>1, SameCourse
    <3> QED
      BY <2>1, <3>1, <3>2 DEF Found, Course, NotThere
  <2>4. ASSUME NEW ch \in plan, ListRecords(ch) PROVE Found' /\ Course' /\ NotThere'
    <3>1. Found' /\ NotThere'
      BY <2>4, ListingFinds, ListingMissesNothing
    <3>2. CASE Count("refused")
      BY <3>1, <3>2, CountTyped DEF Course, Faithful
    <3>3. CASE UNCHANGED <<plan, failed>>
      <4>1. UNCHANGED zone /\ Applying
        BY <1>3, <2>1, <2>4 DEF ListRecords, Applying
      <4>2. Course'
        BY <2>1, <3>3, <4>1, SameCourse DEF CourseInv, Course, Applying, Faithful
      <4> QED
        BY <3>1, <4>2
    <3> QED
      BY <2>4, <3>2, <3>3 DEF ListRecords
  <2>5. ASSUME NEW ch \in plan, Passes(ch) \/ \E o : Touches(ch, o) /\ Count(o),
               plan' = plan \ {ch}, cmd' # "act", Applying
        PROVE  Found' /\ Course' /\ NotThere'
    <3>1. Found' /\ NotThere'
      BY <2>5 DEF Found, NotThere
    <3>2. ASSUME Faithful', NEW d \in scope, Settles(d)' PROVE OnCourse(d)'
      <4>1. failed' = 0 /\ failed \in Nat
        BY <3>2 DEF Faithful, Typed, CountsOK
      <4>2. failed = 0
        BY <2>5, <4>1 DEF Passes, Count
      <4>3. Faithful /\ Settles(d) /\ d \in Domain /\ OnCourse(d)
        BY <2>1, <2>2, <2>5, <3>2, <4>2 DEF Faithful, CourseInv, Course, Typed, CountsOK
      <4>4. CASE d = ch.domain
        BY <2>1, <2>5, <4>1, <4>3, <4>4, TouchesOnCourse
      <4>5. CASE d # ch.domain
        <5>1. zone'[d] = zone[d]
          <6>1. call.id # None /\ cmd = "act" => call.id \in Nat
            BY DEF Typed, ActOK
          <6>2. /\ ch.domain \in Domain
                /\ ch.type # "delete" => ch.record \in Record
            BY ChangeTyped
          <6> QED
            BY <2>5, <4>3, <4>5, <6>1, <6>2, CreateDoes, UpdateDoes, DeleteDoes
               DEF Touches, Passes
        <5> QED
          BY <2>1, <2>5, <4>3, <4>5, <5>1, ElsewhereOnCourse
      <4> QED
        BY <4>4, <4>5
    <3> QED
      BY <2>1, <3>1, <3>2 DEF Course
  <2>6. Confirm \/ Applying
    BY <1>3, <2>1 DEF CarriesOut, CreateRecord, ListRecords, ActOnRecord, Applying
  <2> QED
    BY <1>3, <2>3, <2>4, <2>5, <2>6, CarryingOutCases
<1> QED
  BY <1>1, <1>2, <1>3, WhereStepsLead DEF Applying

LEMMA CourseEndsQuiet ==
  ASSUME CourseInv
  PROVE  RepeatIsQuiet
<1> SUFFICES ASSUME cmd = "applied", listed, failed = 0, ~touched, NEW d \in scope,
                    Settles(d), NEW V \in Views(zone[d])
             PROVE  RecordPlan(d, Wanted(cfg, d), V) = {}
  BY DEF RepeatIsQuiet, Settles
<1>1. plan = {} /\ Typed /\ d \in Domain
  BY DEF CourseInv, SeenInv, Typed, PlanOK, CountsOK
<1>2. \A t, n : ~Pending(d, t, n)
  BY <1>1 DEF Pending
<1>3. OnCourse(d)
  BY DEF CourseInv, Course, Applying, Faithful
<1>4. V \subseteq zone[d] /\ \A e \in zone[d] : \E v \in V : v.name = e.name
  BY <1>1, ZoneFinite, ViewOf
<1> DEFINE W == Wanted(cfg, d)
<1>5. /\ OnePerName(zone[d])
      /\ \A w \in W : \E e \in zone[d] : e.name = w.name /\ SameRecord(e, w)
      /\ \A e \in zone[d] : \E w \in W : w.name = e.name
  BY <1>2, <1>3 DEF OnCourse
<1> HIDE DEF W
<1>6. \A w \in W : \E v \in V : v.name = w.name
  BY <1>4, <1>5
<1>7. \A w \in W : \A v \in V : v.name = w.name => SameRecord(v, w)
  BY <1>4, <1>5 DEF OnePerName
<1>8. \A v \in V : \E w \in W : w.name = v.name
  BY <1>4, <1>5
<1> QED
  BY <1>6, <1>7, <1>8, PlansNothing DEF W

\* After an apply with every call answered the terminal interface plans nothing
\* more, however the updates, creates and deletes came about: the listings that
\* look for an entry see all of the zone all along.
THEOREM ApplyIsEnough == Spec => []RepeatIsQuiet
<1>1. Init => CourseInv
  BY InitTyped DEF Init, CourseInv, SeenInv, Seen, Fresh, Found, Course, NotThere, Applying
<1>2. Spec => []CourseInv
  BY <1>1, CourseNext, PTL DEF Spec
<1> QED
  BY <1>2, CourseEndsQuiet, PTL
-----------------------------------------------------------------------------
(* What EnsureRecord leaves.                                               *)

\* Where the record's name was there to be seen.
WasSeen(d, r) ==
  /\ d \notin Cloudflare /\ Cardinality(before[d]) <= PageSize
  /\ \E e \in before[d] : e.name = r.name

EnsuredOne(d, r) ==
  /\ Cardinality(zone[d]) <= Cardinality(before[d]) + lost
                               + (IF call.result = "ok" THEN 1 ELSE 0)
  /\ call.result = "ok" =>
       \E e \in zone[d] : e.name = r.name /\ e.value = r.value /\ e.ttl = StoredTTL(d, r)
  /\ WasSeen(d, r) => /\ Cardinality(zone[d]) = Cardinality(before[d])
                      /\ \E e \in zone[d] : e.name = r.name
                      /\ cmd = "ensure" => call.op # "create"

EnsureInv ==
  /\ Typed
  /\ (cmd \in {"ensure", "ensured"} /\ ~touched) => EnsuredOne(call.domain, call.record)

LEMMA EnsureInvIsOne == EnsureInv => EnsureAddsOne
<1> SUFFICES ASSUME EnsureInv, cmd \in {"ensure", "ensured"}, ~touched
             PROVE  EnsureAddsOne
  BY DEF EnsureAddsOne
<1> DEFINE d == call.domain
           r == call.record
<1>1. EnsuredOne(d, r)
  BY DEF EnsureInv
<1> HIDE DEF d, r
<1>2. /\ Cardinality(zone[d]) <= Cardinality(before[d]) + lost
            + (IF call.result = "ok" THEN 1 ELSE 0)
      /\ call.result = "ok" =>
           \E e \in {f \in zone[d] : f.value = r.value /\ f.ttl = StoredTTL(d, r)} :
             e.name = r.name
      /\ (/\ d \notin Cloudflare /\ Cardinality(before[d]) <= PageSize
          /\ \E e \in before[d] : e.name = r.name) =>
           Cardinality(zone[d]) = Cardinality(before[d])
  BY <1>1 DEF EnsuredOne, WasSeen
<1> QED
  BY <1>2 DEF EnsureAddsOne, d, r

LEMMA CreateAddsOne ==
  ASSUME NEW S, IsFiniteSet(S), NEW e, \A f \in S : f.id # e.id
  PROVE  Cardinality(S \cup {e}) = Cardinality(S) + 1
<1>1. e \notin S
  OBVIOUS
<1> QED
  BY <1>1, FS_AddElement

LEMMA UpdateAddsNone ==
  ASSUME NEW S, IsFiniteSet(S), \A f, g \in S : f.id = g.id => f = g,
         NEW x \in S, NEW e, e.id = x.id
  PROVE  Cardinality({f \in S : f.id # x.id} \cup {e}) = Cardinality(S)
<1> DEFINE T == {f \in S : f.id # x.id}
<1>1. T = S \ {x}
  OBVIOUS
<1>2. IsFiniteSet(T) /\ Cardinality(T) = Cardinality(S) - 1
  BY <1>1, FS_RemoveElement
<1>3. Cardinality(S) \in Nat
  BY FS_CardinalityType
<1>4. e \notin T
  OBVIOUS
<1>5. Cardinality(T \cup {e}) = Cardinality(T) + 1
  BY <1>2, <1>4, FS_AddElement
<1> QED
  BY <1>2, <1>3, <1>5

LEMMA Sizes ==
  ASSUME Typed, NEW d \in Domain
  PROVE  /\ IsFiniteSet(zone[d]) /\ Cardinality(zone[d]) \in Nat
         /\ Cardinality(before[d]) \in Nat /\ lost \in Nat
         /\ \A f, g \in zone[d] : f.id = g.id => f = g
BY FS_CardinalityType DEF Typed, ZonesOK, ZoneOK, CountsOK

\* One call under retry: what it does to the zone, and what it has returned.
LEMMA EnsuresOne ==
  ASSUME EnsureInv, ~touched, cmd = "ensure", UNCHANGED before,
         NEW d \in Domain, NEW r, d = call.domain, r = call.record,
         call'.domain = d, call'.record = r, lost' \in Nat,
         Cardinality(zone'[d]) \in Nat,
         /\ Cardinality(zone'[d]) <= Cardinality(zone[d]) + (lost' - lost)
                                       + (IF call'.result = "ok" THEN 1 ELSE 0),
         call'.result = "ok" =>
           \E e \in zone'[d] : e.name = r.name /\ e.value = r.value /\ e.ttl = StoredTTL(d, r),
         WasSeen(d, r) => /\ Cardinality(zone'[d]) = Cardinality(zone[d])
                          /\ \E e \in zone'[d] : e.name = r.name
                          /\ cmd' = "ensure" => call'.op # "create"
  PROVE  EnsuredOne(call.domain, call.record)'
<1>1. EnsuredOne(d, r) /\ Typed
  BY DEF EnsureInv
<1>2. call.result # "ok"
  BY <1>1, EnsureTyped, NoneAssumption
<1>3. Cardinality(zone[d]) <= Cardinality(before[d]) + lost
  BY <1>1, <1>2, Sizes DEF EnsuredOne
<1>4. Cardinality(zone'[d]) <= Cardinality(before[d]) + lost'
                                 + (IF call'.result = "ok" THEN 1 ELSE 0)
  <2> DEFINE z == Cardinality(zone[d])
             y == Cardinality(zone'[d])
             b == Cardinality(before[d])
             one == IF call'.result = "ok" THEN 1 ELSE 0
             was == lost
             is == lost'
  <2>1. z \in Nat /\ y \in Nat /\ b \in Nat /\ was \in Nat /\ is \in Nat /\ one \in Nat
    BY <1>1, Sizes
  <2>2. z <= b + was /\ y <= z + (is - was) + one
    BY <1>3
  <2> HIDE DEF z, y, b, one, was, is
  <2>3. y <= b + is + one
    BY <2>1, <2>2
  <2> QED
    BY <2>3 DEF y, b, one, is
<1>5. before'[d] = before[d] /\ (WasSeen(d, r)' <=> WasSeen(d, r))
  BY DEF WasSeen
<1>6. WasSeen(d, r) => Cardinality(zone[d]) = Cardinality(before[d])
  BY <1>1 DEF EnsuredOne
<1>7. EnsuredOne(d, r)'
  BY <1>4, <1>5, <1>6 DEF EnsuredOne, StoredTTL
<1> QED
  BY <1>7

LEMMA EnsureBegun ==
  ASSUME Typed, EnsureBegins
  PROVE  EnsuredOne(call.domain, call.record)'
<1>1. PICK d \in Domain, r \in Given : EnsureRecord(d, r)
  BY DEF EnsureBegins
<1>2. /\ call'.domain = d /\ call'.record = r /\ call'.op = "list" /\ call'.result = None
      /\ lost' = 0 /\ zone' = zone /\ before' = zone
  BY <1>1 DEF EnsureRecord
<1>3. Cardinality(zone[d]) \in Nat
  BY Sizes
<1>4. call'.result # "ok"
  BY <1>2, NoneAssumption
<1>5. EnsuredOne(d, r)'
  BY <1>2, <1>3, <1>4 DEF EnsuredOne, WasSeen
<1> QED
  BY <1>2, <1>5

LEMMA EnsureListOne ==
  ASSUME EnsureInv, ~touched, EnsureList
  PROVE  EnsuredOne(call.domain, call.record)'
<1> DEFINE d == call.domain
           r == call.record
<1>1. Typed /\ EnsuredOne(d, r)
  BY EnsureListCases DEF EnsureInv
<1>2. cmd = "ensure" /\ UNCHANGED <<zone, before>>
  BY <1>1, EnsureListCases DEF EnsureFrame
<1>3. d \in Domain /\ r \in Given /\ call.result = None /\ call.result # "ok"
  BY <1>1, <1>2, EnsureTyped, NoneAssumption
<1>4. Cardinality(zone[d]) \in Nat /\ lost \in Nat /\ zone'[d] = zone[d]
  BY <1>1, <1>2, <1>3, Sizes
<1>5. WasSeen(d, r) => /\ Cardinality(zone[d]) <= PageSize
                       /\ \E e \in zone[d] : e.name = r.name
                       /\ call.op # "create"
  BY <1>1, <1>2 DEF EnsuredOne, WasSeen
<1>6. CASE RetryOrReturn /\ Count("refused")
  <2>1. /\ call'.domain = d /\ call'.record = r /\ call'.op = call.op
        /\ call'.result \in {None, "error"}
    BY <1>1, <1>2, <1>6, RetryTyped
  <2>2. lost' = lost /\ call'.result # "ok"
    BY <1>6, <2>1, NoneAssumption DEF Count
  <2> QED
    BY <1>2, <1>3, <1>4, <1>5, <2>1, <2>2, EnsuresOne
<1>7. CASE /\ UNCHANGED <<failed, lost>>
           /\ \E S \in Listings(d) : Matching(d, S, r) = {} /\ Then("create", None)
  <2>1. PICK S \in Listings(d) : Matching(d, S, r) = {} /\ Then("create", None)
    BY <1>7
  <2>2. call'.domain = d /\ call'.record = r /\ call'.result = None
    BY <1>1, <1>2, <2>1, ThenTyped
  <2>3. ~WasSeen(d, r)
    <3> SUFFICES ASSUME WasSeen(d, r) PROVE FALSE
      OBVIOUS
    <3>1. S = zone[d]
      BY <1>3, <1>5, ListsEntries DEF FitsPage
    <3>2. PICK e \in zone[d] : e.name = r.name
      BY <1>5
    <3>3. d \notin Cloudflare
      BY DEF WasSeen
    <3>4. e \in Matching(d, S, r)
      BY <3>1, <3>2, <3>3 DEF Matching, ListedName
    <3> QED
      BY <2>1, <3>4
  <2> QED
    BY <1>2, <1>3, <1>4, <1>7, <2>2, <2>3, EnsuresOne
<1>8. ASSUME NEW e \in Entry, UNCHANGED <<failed, lost>>, Then("update", e.id)
      PROVE  EnsuredOne(call.domain, call.record)'
  <2>1. e.id \in Nat
    BY DEF Entry
  <2>2. /\ call'.domain = d /\ call'.record = r /\ call'.result = None
        /\ call'.op = "update"
    BY <1>1, <1>2, <1>8, <2>1, ThenTyped
  <2> QED
    BY <1>2, <1>3, <1>4, <1>5, <1>8, <2>2, EnsuresOne
<1>9. ASSUME NEW e \in zone[d], e \in Entry, e.name = r.name, SameRecord(e, r),
             UNCHANGED <<failed, lost>>, Return("ok")
      PROVE  EnsuredOne(call.domain, call.record)'
  <2>1. call'.domain = d /\ call'.record = r /\ call'.result = "ok" /\ cmd' = "ensured"
    BY <1>1, <1>2, <1>9, ReturnTyped
  <2>2. e.value = r.value /\ e.ttl = r.ttl /\ e.ttl # 0
    BY <1>1, <1>3, <1>9 DEF SameRecord, Typed, ZonesOK, ZoneOK
  <2>3. e.ttl = StoredTTL(d, r)
    BY <2>2 DEF StoredTTL
  <2> QED
    BY <1>2, <1>3, <1>4, <1>5, <1>9, <2>1, <2>2, <2>3, EnsuresOne
<1> QED
  BY <1>1, <1>6, <1>7, <1>8, <1>9, EnsureListCases

LEMMA EnsureWriteOne ==
  ASSUME EnsureInv, ~touched, EnsureWrite
  PROVE  EnsuredOne(call.domain, call.record)'
<1> DEFINE d == call.domain
           r == call.record
<1>1. /\ cmd = "ensure" /\ UNCHANGED before /\ Typed /\ EnsuredOne(d, r)
      /\ call.op \in {"create", "update"} /\ Typed'
  BY EnsureWriteTyped DEF EnsureWrite, MayTry, EnsureFrame, EnsureInv
<1>2. PICK o \in Outcome :
        /\ IF call.op = "create" THEN Create(d, r, o) ELSE Update(d, call.id, r, o)
        /\ Count(o)
        /\ IF o = "done" THEN Return("ok") ELSE RetryOrReturn
  BY DEF EnsureWrite
<1>3. /\ d \in Domain /\ r \in Given
      /\ call.op = "update" => call.id \in Nat
  BY <1>1, EnsureTyped
<1>4. /\ call'.domain = d /\ call'.record = r
      /\ o = "done" => call'.result = "ok" /\ cmd' = "ensured"
      /\ o # "done" => call'.result # "ok" /\ call'.op = call.op
  BY <1>1, <1>2, ReturnTyped, RetryTyped, NoneAssumption
<1>5. /\ lost \in Nat /\ lost' = IF o = "lost" THEN lost + 1 ELSE lost
      /\ lost' \in Nat
      /\ o # "refused" => o = "done" \/ o = "lost"
  BY <1>1, <1>2, Sizes, <1>3 DEF Count, Outcome
<1>6. /\ IsFiniteSet(zone[d]) /\ Cardinality(zone[d]) \in Nat
      /\ \A f, g \in zone[d] : f.id = g.id => f = g
  BY <1>1, <1>3, Sizes
<1>7. WasSeen(d, r) => (\E e \in zone[d] : e.name = r.name) /\ call.op # "create"
  BY <1>1 DEF EnsuredOne
<1>8. CASE o = "refused"
  <2>1. zone'[d] = zone[d]
    BY <1>1, <1>2, <1>8 DEF Create, Update
  <2> QED
    BY <1>1, <1>3, <1>4, <1>5, <1>6, <1>7, <1>8, <2>1, EnsuresOne
<1>9. CASE o # "refused" /\ call.op = "create"
  <2>1. PICK e : /\ IsWritten(e, d, nextId, r) /\ zone'[d] = zone[d] \cup {e}
                 /\ \A f \in zone[d] : f.id # nextId
    BY <1>1, <1>2, <1>3, <1>9, CreateDoes
  <2>2. Cardinality(zone'[d]) = Cardinality(zone[d]) + 1
    BY <1>6, <2>1, CreateAddsOne DEF IsWritten
  <2>3. ~WasSeen(d, r)
    BY <1>7, <1>9
  <2>4. e \in zone'[d] /\ e.name = r.name /\ e.value = r.value /\ e.ttl = StoredTTL(d, r)
    BY <2>1 DEF IsWritten
  <2>5. Cardinality(zone'[d]) <= Cardinality(zone[d]) + (lost' - lost)
                                  + (IF call'.result = "ok" THEN 1 ELSE 0)
    BY <1>4, <1>5, <1>6, <1>9, <2>2
  <2>6. Cardinality(zone'[d]) \in Nat
    BY <1>6, <2>2
  <2> QED
    BY <1>1, <1>3, <1>4, <1>5, <2>3, <2>4, <2>5, <2>6, EnsuresOne
<1>10. CASE o # "refused" /\ call.op = "update"
  <2>1. PICK e : /\ IsWritten(e, d, call.id, r)
                 /\ zone'[d] = {f \in zone[d] : f.id # call.id} \cup {e}
    BY <1>1, <1>2, <1>3, <1>10, UpdateDoes
  <2>2. PICK x \in zone[d] : x.id = call.id
    BY <1>1, <1>2, <1>3, <1>10, UpdateDoes
  <2>3. Cardinality(zone'[d]) = Cardinality(zone[d])
    BY <1>6, <2>1, <2>2, UpdateAddsNone DEF IsWritten
  <2>4. e \in zone'[d] /\ e.name = r.name /\ e.value = r.value /\ e.ttl = StoredTTL(d, r)
    BY <2>1 DEF IsWritten
  <2>5. Cardinality(zone'[d]) <= Cardinality(zone[d]) + (lost' - lost)
                                  + (IF call'.result = "ok" THEN 1 ELSE 0)
    BY <1>4, <1>5, <1>6, <2>3
  <2>6. cmd' = "ensure" => call'.op # "create"
    BY <1>4, <1>10
  <2> QED
    BY <1>1, <1>3, <1>4, <1>5, <1>6, <2>3, <2>4, <2>5, <2>6, EnsuresOne
<1> QED
  BY <1>1, <1>8, <1>9, <1>10

LEMMA EnsureStopsOne ==
  ASSUME EnsureInv, ~touched, EnsureStops
  PROVE  EnsuredOne(call.domain, call.record)'
<1> DEFINE d == call.domain
           r == call.record
<1>1. /\ cmd = "ensure" /\ UNCHANGED <<zone, before, lost>> /\ Typed /\ EnsuredOne(d, r)
      /\ Return("error")
  BY DEF EnsureStops, EnsureFrame, EnsureInv
<1>2. call'.domain = d /\ call'.record = r /\ call'.result = "error" /\ cmd' = "ensured"
  BY <1>1, ReturnTyped
<1>3. d \in Domain
  BY <1>1, EnsureTyped
<1>4. Cardinality(zone[d]) \in Nat /\ lost \in Nat
  BY <1>1, <1>3, Sizes
<1>5. WasSeen(d, r) => \E e \in zone[d] : e.name = r.name
  BY <1>1 DEF EnsuredOne
<1> QED
  BY <1>1, <1>2, <1>3, <1>4, <1>5, EnsuresOne

LEMMA EnsureNext == EnsureInv /\ [Next]_vars => EnsureInv'
<1> SUFFICES ASSUME EnsureInv, [Next]_vars, Typed, Typed',
                    cmd' \in {"ensure", "ensured"}, ~touched'
             PROVE  EnsuredOne(call.domain, call.record)'
  BY NextTyped DEF EnsureInv
<1>1. CASE UNCHANGED vars
  BY <1>1 DEF vars, EnsureInv, EnsuredOne, WasSeen, StoredTTL
<1>2. CASE EnsureBegins
  BY <1>2, EnsureBegun
<1>3. CASE Ensures
  <2>1. ~touched
    BY <1>3, EnsureListCases DEF Ensures, EnsureWrite, EnsureStops, EnsureFrame, others
  <2> QED
    BY <1>3, <2>1, EnsureListOne, EnsureWriteOne, EnsureStopsOne DEF Ensures
<1> QED
  BY <1>1, <1>2, <1>3, WhereStepsLead

\* When EnsureRecord says so the record is served; each entry it makes beyond
\* one took a lost answer; and where the name was there to be seen it makes none,
\* however often it retries.
THEOREM EnsuresTheRecord == Spec => []EnsureAddsOne
<1>1. Init => EnsureInv
  BY InitTyped DEF Init, EnsureInv
<1>2. Spec => []EnsureInv
  BY <1>1, EnsureNext, PTL DEF Spec
<1> QED
  BY <1>2, EnsureInvIsOne, PTL
-----------------------------------------------------------------------------
(* What a pull takes over.                                                 *)

\* Of the records of a name and value in the file the last one counts.
LEMMA LastCounts ==
  ASSUME NEW c, FileOK(c), NEW d \in DOMAIN c
  PROVE  /\ LocalMap(c, d) \subseteq Range(c[d])
         /\ \A r \in Range(c[d]) : \E l \in LocalMap(c, d) : SameValue(l, r)
         /\ \A l, m \in LocalMap(c, d) : SameValue(l, m) => l = m
<1> DEFINE n == Len(c[d])
           J == {j \in DOMAIN c[d] :
                   \A k \in DOMAIN c[d] : k > j => ~SameValue(c[d][k], c[d][j])}
<1>1. c[d] \in Seq(Record)
  BY DEF FileOK
<1>2. DOMAIN c[d] = 1..n /\ n \in Nat
  BY <1>1
<1>3. LocalMap(c, d) = {c[d][i] : i \in J} /\ J \subseteq DOMAIN c[d]
  BY DEF LocalMap
<1>4. LocalMap(c, d) \subseteq Range(c[d])
  BY <1>3 DEF Range
<1>5. ASSUME NEW l \in LocalMap(c, d), NEW m \in LocalMap(c, d), SameValue(l, m)
      PROVE  l = m
  <2>1. PICK i \in J : l = c[d][i]
    BY <1>3
  <2>2. PICK j \in J : m = c[d][j]
    BY <1>3
  <2>3. ~(i > j) /\ ~(j > i)
    BY <1>3, <1>5, <2>1, <2>2 DEF SameValue
  <2>4. i = j
    BY <1>2, <1>3, <2>3
  <2> QED
    BY <2>1, <2>2, <2>4
<1>6. ASSUME NEW r \in Range(c[d]) PROVE \E l \in LocalMap(c, d) : SameValue(l, r)
  <2> DEFINE K == {k \in Nat : k < n /\ SameValue(c[d][n - k], r)}
  <2>1. K # {}
    <3>1. PICK i \in 1..n : r = c[d][i]
      BY <1>2, <1>6 DEF Range
    <3>2. n - i \in Nat /\ n - i < n /\ n - (n - i) = i
      BY <1>2
    <3>3. SameValue(c[d][n - (n - i)], r)
      BY <3>1, <3>2 DEF SameValue
    <3> QED
      BY <3>2, <3>3
  <2>2. PICK m \in K : \A k \in K : ~(k < m)
    <3>1. K \in SUBSET Nat
      OBVIOUS
    <3> HIDE DEF K
    <3> QED
      BY <2>1, <3>1, LeastNumber
  <2>3. /\ m \in Nat /\ m < n /\ SameValue(c[d][n - m], r)
        /\ n - m \in 1..n
    BY <1>2
  <2>4. ASSUME NEW k \in 1..n, k > n - m PROVE ~SameValue(c[d][k], c[d][n - m])
    <3>1. n - k \in Nat /\ n - k < n /\ n - k < m /\ n - (n - k) = k
      BY <1>2, <2>3, <2>4
    <3>2. n - k \notin K
      BY <2>2, <3>1
    <3>3. ~SameValue(c[d][n - (n - k)], r)
      BY <3>1, <3>2
    <3>4. ~SameValue(c[d][k], r)
      BY <3>1, <3>3
    <3> QED
      BY <2>3, <3>4 DEF SameValue
  <2>5. n - m \in J
    BY <1>2, <2>3, <2>4
  <2>6. c[d][n - m] \in LocalMap(c, d)
    BY <1>3, <2>5
  <2> QED
    BY <2>3, <2>6
<1> QED
  BY <1>4, <1>5, <1>6

\* Where no value of a name is listed twice, every entry is the first of its kind.
LEMMA AllAreFirst ==
  ASSUME NEW S, IsFiniteSet(S), \A x, y \in S : SameValue(x, y) => x = y,
         NEW F \in Firsts(S)
  PROVE  S \subseteq F
<1> SUFFICES ASSUME NEW e \in S PROVE e \in F
  OBVIOUS
<1> DEFINE T == {f \in F : SameValue(e, f)}
<1>1. F \subseteq S /\ Cardinality(T) = 1
  BY DEF Firsts
<1>2. IsFiniteSet(T)
  BY <1>1, FS_Subset
<1> HIDE DEF T
<1>3. PICK x : T = {x}
  BY <1>1, <1>2, FS_Singleton
<1>4. x \in F /\ SameValue(e, x)
  BY <1>3 DEF T
<1>5. x = e
  BY <1>1, <1>4
<1> QED
  BY <1>4, <1>5

LEMMA DiffFields ==
  ASSUME NEW t, NEW d, NEW id, NEW r
  PROVE  LET x == RecordDiff(t, d, id, r) IN
         /\ x.type = t /\ x.domain = d
         /\ x.name = r.name /\ x.value = r.value /\ x.ttl = r.ttl
BY DEF RecordDiff

\* An entry and a record of one name, value and ttl.
SameData(e, r) == e.name = r.name /\ e.value = r.value /\ e.ttl = r.ttl

\* What a pull finds, if it sees each value of a name once.
LEMMA WhatIsFound ==
  ASSUME NEW c, NEW d, NEW S, NEW F, S \subseteq F
  PROVE  LET X == RecordDiffs(c, d, S, F)
             local == LocalMap(c, d)
         IN /\ \A x \in X : x.domain = d
            /\ \A x \in X : x.type = "create" =>
                 \E e \in S : SameData(e, x) /\ \A r \in local : ~SameValue(e, r)
            /\ \A x \in X : x.type = "update" =>
                 \E e \in S : /\ SameData(e, x)
                              /\ \E r \in local : SameValue(e, r) /\ r.ttl # e.ttl
            /\ \A x \in X : x.type = "delete" =>
                 \E r \in local : SameData(r, x) /\ \A e \in S : ~SameValue(e, r)
            /\ \A x \in X : x.type \in {"create", "update", "delete"}
            /\ \A e \in S : (\A r \in local : ~SameValue(e, r)) =>
                 \E x \in X : x.type = "create" /\ SameData(x, e)
            /\ \A e \in S : (\E r \in local : SameValue(e, r) /\ r.ttl # e.ttl) =>
                 \E x \in X : x.type = "update" /\ SameData(x, e)
            /\ \A r \in local : (\A e \in S : ~SameValue(e, r)) =>
                 \E x \in X : x.type = "delete" /\ SameData(x, r)
<1> DEFINE X == RecordDiffs(c, d, S, F)
           local == LocalMap(c, d)
           new == {e \in S : e \notin F \/ \A r \in local : ~SameValue(e, r)}
           changed == {x \in S \ new : \E r \in local : SameValue(x, r) /\ r.ttl # x.ttl}
           gone == {x \in local : \A e \in S : ~SameValue(e, x)}
<1>1. X = {RecordDiff("create", d, e.id, e) : e \in new}
          \cup {RecordDiff("update", d, e.id, e) : e \in changed}
          \cup {RecordDiff("delete", d, 0, r) : r \in gone}
  BY DEF RecordDiffs
<1>2. \A e : e \in new <=> e \in S /\ \A r \in local : ~SameValue(e, r)
  OBVIOUS
<1>3. \A e : e \in changed <=> e \in S /\ \E r \in local : SameValue(e, r) /\ r.ttl # e.ttl
  BY <1>2
<1>4. \A r : r \in gone <=> r \in local /\ \A e \in S : ~SameValue(e, r)
  OBVIOUS
<1> HIDE DEF X, new, changed, gone, local
<1>5. ASSUME NEW x \in X
      PROVE  \/ \E e \in new : x.type = "create" /\ x.domain = d /\ SameData(e, x)
             \/ \E e \in changed : x.type = "update" /\ x.domain = d /\ SameData(e, x)
             \/ \E r \in gone : x.type = "delete" /\ x.domain = d /\ SameData(r, x)
  BY <1>1, DiffFields DEF SameData
<1>6. /\ \A e \in new : \E x \in X : x.type = "create" /\ SameData(x, e)
      /\ \A e \in changed : \E x \in X : x.type = "update" /\ SameData(x, e)
      /\ \A r \in gone : \E x \in X : x.type = "delete" /\ SameData(x, r)
  BY <1>1, DiffFields DEF SameData
<1> QED
  BY <1>2, <1>3, <1>4, <1>5, <1>6 DEF X, local

\* What is in a file a pull has saved: what was not dropped, and what was added.
LEMMA WhatIsKept ==
  ASSUME NEW c, FileOK(c), NEW d \in DOMAIN c, NEW sel, NEW x
  PROVE  x \in Range(Kept(c, d, sel)) <=> x \in Range(c[d]) /\ ~Dropped(d, x, sel)
<1> DEFINE s == [i \in DOMAIN c[d] |-> IF Dropped(d, c[d][i], sel) THEN <<>> ELSE <<c[d][i]>>]
<1>1. s \in Seq(Seq(Record))
  BY KeptParts
<1>2. x \in Range(FlattenSeq(s)) <=> \E i \in DOMAIN s : x \in Range(s[i])
  BY <1>1, FlattenMembers
<1>3. ASSUME NEW i \in DOMAIN c[d]
      PROVE  x \in Range(s[i]) <=> x = c[d][i] /\ ~Dropped(d, c[d][i], sel)
  <2>1. CASE Dropped(d, c[d][i], sel)
    <3>1. s[i] = <<>>
      BY <2>1
    <3>2. DOMAIN <<>> = {}
      OBVIOUS
    <3> QED
      BY <2>1, <3>1, <3>2 DEF Range
  <2>2. CASE ~Dropped(d, c[d][i], sel)
    <3>1. s[i] = <<c[d][i]>>
      BY <2>2
    <3>2. DOMAIN <<c[d][i]>> = {1}
      OBVIOUS
    <3> HIDE DEF s
    <3> QED
      BY <2>2, <3>1, <3>2 DEF Range
  <2> QED
    BY <2>1, <2>2
<1>4. DOMAIN s = DOMAIN c[d]
  OBVIOUS
<1>5. Kept(c, d, sel) = FlattenSeq(s)
  BY DEF Kept
<1> HIDE DEF s
<1> QED
  BY <1>2, <1>3, <1>4, <1>5 DEF Range

LEMMA WhatIsSaved ==
  ASSUME NEW c, FileOK(c), NEW sel, IsFiniteSet(sel), \A x \in sel : RecordFound(x),
         NEW f \in SavedRecords(c, sel), NEW d \in DOMAIN c,
         \A x \in sel : x.domain = d, NEW r
  PROVE  r \in Range(f[d]) <=>
           \/ r \in Range(c[d]) /\ ~Dropped(d, r, sel)
           \/ \E x \in sel : x.type # "delete" /\ r = AsRecord(x)
<1> DEFINE S == {y \in sel : y.type # "delete"}
<1>1. PICK added \in SetToSeqs(S) :
        f = [q \in DOMAIN c |->
              Kept(c, q, sel)
              \o IF \E x \in sel : x.domain = q
                   THEN [i \in DOMAIN added |-> AsRecord(added[i])] ELSE <<>>]
  BY DEF SavedRecords, Kept
<1> DEFINE more == [i \in DOMAIN added |-> AsRecord(added[i])]
           last == IF \E x \in sel : x.domain = d THEN more ELSE <<>>
<1>2. IsFiniteSet(S) /\ S \subseteq sel
  BY FS_Subset
<1>3. \A x : x \in S <=> x \in sel /\ x.type # "delete"
  OBVIOUS
<1> HIDE DEF S
<1>4. /\ DOMAIN added = 1..Cardinality(S) /\ Cardinality(S) \in Nat /\ added \in Seq(S)
      /\ \A x \in S : \E i \in DOMAIN added : added[i] = x
  BY <1>2, AddedAreFound
<1>5. \A i \in DOMAIN added : added[i] \in S
  BY <1>4
<1>6. \A i \in DOMAIN added : AsRecord(added[i]) \in Record
  BY <1>2, <1>5 DEF AsRecord, RecordFound, Record
<1>7. more \in Seq(Record)
  BY <1>4, <1>6
<1>8. r \in Range(more) <=> \E x \in S : r = AsRecord(x)
  <2>1. r \in Range(more) <=> \E i \in DOMAIN added : r = AsRecord(added[i])
    BY DEF Range
  <2> HIDE DEF more
  <2> QED
    BY <1>4, <1>5, <2>1
<1> HIDE DEF more
<1>9. last \in Seq(Record) /\ (r \in Range(last) <=> \E x \in S : r = AsRecord(x))
  <2>1. CASE \E x \in sel : x.domain = d
    BY <1>7, <1>8, <2>1
  <2>2. CASE ~\E x \in sel : x.domain = d
    <3>1. sel = {} /\ S = {}
      BY <1>2, <2>2
    <3>2. <<>> \in Seq(Record) /\ DOMAIN <<>> = {}
      OBVIOUS
    <3>3. last = <<>>
      BY <2>2
    <3> HIDE DEF last
    <3> QED
      BY <3>1, <3>2, <3>3 DEF Range
  <2> QED
    BY <2>1, <2>2
<1>10. f[d] = Kept(c, d, sel) \o last
  BY <1>1 DEF more
<1> HIDE DEF last
<1>11. Kept(c, d, sel) \in Seq(Record)
  BY KeptParts, FlattenIn DEF Kept
<1>12. r \in Range(f[d]) <=> r \in Range(Kept(c, d, sel)) \/ r \in Range(last)
  BY <1>9, <1>10, <1>11, ConcatRange
<1> QED
  BY <1>3, <1>9, <1>12, WhatIsKept

\* What was not dropped and what was added, of the records old of a domain.
IsSaved(R, old, d, X) ==
  \A r : r \in R <=> \/ r \in Range(old) /\ ~Dropped(d, r, X)
                     \/ \E x \in X : x.type # "delete" /\ r = AsRecord(x)

\* The records R of a name are all entries of S, or none of them is.
AllOrNone(n, R, S) ==
  \/ \A r \in R : r.name = n => \A e \in S : ~SameData(e, r)
  \/ \A r \in R : r.name = n => \E e \in S : SameData(e, r)

SameOfName(n, R, S) ==
  /\ \A r \in R : r.name = n => \E e \in S : SameData(e, r)
  /\ \A e \in S : e.name = n => \E r \in R : SameData(e, r)

\* The file has of a name what the provider lists of it, if all of the file's
\* records of the name were right before, or none was.
LEMMA NameIsTakenOver ==
  ASSUME NEW c, FileOK(c), NEW d \in DOMAIN c,
         NEW S, S \subseteq Entry, \A x, y \in S : SameValue(x, y) => x = y,
         NEW F, S \subseteq F, NEW n, NEW R,
         IsSaved(R, c[d], d, RecordDiffs(c, d, S, F)), AllOrNone(n, Range(c[d]), S)
  PROVE  SameOfName(n, R, S)
<1> DEFINE X == RecordDiffs(c, d, S, F)
           local == LocalMap(c, d)
           Rc == Range(c[d])
<1>1. /\ \A x \in X : x.domain = d
      /\ \A x \in X : x.type = "create" =>
           \E e \in S : SameData(e, x) /\ \A r \in local : ~SameValue(e, r)
      /\ \A x \in X : x.type = "update" =>
           \E e \in S : SameData(e, x) /\ \E r \in local : SameValue(e, r) /\ r.ttl # e.ttl
      /\ \A x \in X : x.type = "delete" =>
           \E r \in local : SameData(r, x) /\ \A e \in S : ~SameValue(e, r)
      /\ \A x \in X : x.type \in {"create", "update", "delete"}
      /\ \A e \in S : (\A r \in local : ~SameValue(e, r)) =>
           \E x \in X : x.type = "create" /\ SameData(x, e)
      /\ \A e \in S : (\E r \in local : SameValue(e, r) /\ r.ttl # e.ttl) =>
           \E x \in X : x.type = "update" /\ SameData(x, e)
      /\ \A r \in local : (\A e \in S : ~SameValue(e, r)) =>
           \E x \in X : x.type = "delete" /\ SameData(x, r)
  BY WhatIsFound
<1>2. /\ local \subseteq Rc
      /\ \A r \in Rc : \E l \in local : SameValue(l, r)
      /\ \A l, m \in local : SameValue(l, m) => l = m
  BY LastCounts
<1>3. \A r : r \in R <=> \/ r \in Rc /\ ~Dropped(d, r, X)
                         \/ \E x \in X : x.type # "delete" /\ r = AsRecord(x)
  BY DEF IsSaved
<1>4. \/ \A r \in Rc : r.name = n => \A e \in S : ~SameData(e, r)
      \/ \A r \in Rc : r.name = n => \E e \in S : SameData(e, r)
  BY DEF AllOrNone
<1> HIDE DEF X, local, Rc
<1>5. \A x \in X : SameData(AsRecord(x), x)
  BY DEF AsRecord, SameData
<1>6. \A r : Dropped(d, r, X) <=> \E x \in X : x.name = r.name /\ x.type \in {"delete", "update"}
  BY <1>1 DEF Dropped
<1>7. \A x \in X : x.type # "delete" => AsRecord(x) \in R
  BY <1>3
\* What is created or updated is an entry's.
<1>8. \A x \in X : x.type # "delete" => \E e \in S : SameData(e, AsRecord(x))
  BY <1>1, <1>5 DEF SameData
<1>9. \A e \in S : (\A r \in local : ~SameValue(e, r)) => \E r \in R : SameData(e, r)
  BY <1>1, <1>5, <1>7 DEF SameData
<1>10. \A e \in S : (\E r \in local : SameValue(e, r) /\ r.ttl # e.ttl) =>
         \E r \in R : SameData(e, r)
  BY <1>1, <1>5, <1>7 DEF SameData
<1>11. CASE \A r \in Rc : r.name = n => \E e \in S : SameData(e, r)
  <2>1. ASSUME NEW x \in X, x.name = n, x.type = "delete" PROVE FALSE
    <3>1. PICK r \in local : SameData(r, x) /\ \A e \in S : ~SameValue(e, r)
      BY <1>1, <2>1
    <3>2. r \in Rc /\ r.name = n
      BY <1>2, <2>1, <3>1 DEF SameData
    <3>3. PICK e \in S : SameData(e, r)
      BY <1>11, <3>2
    <3> QED
      BY <3>1, <3>3 DEF SameData, SameValue
  <2>2. ASSUME NEW x \in X, x.name = n, x.type = "update" PROVE FALSE
    <3>1. PICK e \in S : SameData(e, x) /\ \E r \in local : SameValue(e, r) /\ r.ttl # e.ttl
      BY <1>1, <2>2
    <3>2. PICK r \in local : SameValue(e, r) /\ r.ttl # e.ttl
      BY <3>1
    <3>3. r \in Rc /\ r.name = n
      BY <1>2, <2>2, <3>1, <3>2 DEF SameData, SameValue
    <3>4. PICK g \in S : SameData(g, r)
      BY <1>11, <3>3
    <3>5. g = e
      BY <3>2, <3>4 DEF SameData, SameValue
    <3> QED
      BY <3>2, <3>4, <3>5 DEF SameData
  <2>3. \A r \in Rc : r.name = n => r \in R
    BY <1>3, <1>6, <2>1, <2>2
  <2>4. \A r \in R : r.name = n => \E e \in S : SameData(e, r)
    BY <1>3, <1>8, <1>11
  <2>5. ASSUME NEW e \in S, e.name = n, NEW r \in local, SameValue(e, r)
        PROVE  \E s \in R : SameData(e, s)
    <3>1. r \in Rc /\ r.name = n
      BY <1>2, <2>5 DEF SameValue
    <3>2. PICK g \in S : SameData(g, r)
      BY <1>11, <3>1
    <3>3. g = e
      BY <2>5, <3>2 DEF SameData, SameValue
    <3> QED
      BY <2>3, <3>1, <3>2, <3>3
  <2> QED
    BY <1>9, <2>4, <2>5 DEF SameOfName
<1>12. CASE \A r \in Rc : r.name = n => \A e \in S : ~SameData(e, r)
  <2>1. ASSUME NEW r \in Rc, r.name = n, ~Dropped(d, r, X) PROVE FALSE
    <3>1. PICK l \in local : SameValue(l, r)
      BY <1>2
    <3>2. l \in Rc /\ l.name = n /\ \A x \in X : x.name = n => x.type \notin {"delete", "update"}
      BY <1>2, <1>6, <2>1, <3>1 DEF SameValue
    <3>3. PICK e \in S : SameValue(e, l)
      BY <1>1, <3>2 DEF SameData
    <3>4. ~SameData(e, l) /\ e.name = n
      BY <1>12, <3>2, <3>3 DEF SameValue
    <3>5. l.ttl # e.ttl
      BY <3>3, <3>4 DEF SameData, SameValue
    <3>6. PICK x \in X : x.type = "update" /\ SameData(x, e)
      BY <1>1, <3>3, <3>5
    <3> QED
      BY <3>2, <3>4, <3>6 DEF SameData
  <2>2. \A r \in R : r.name = n => \E e \in S : SameData(e, r)
    BY <1>3, <1>8, <2>1
  <2>3. ASSUME NEW e \in S, e.name = n, NEW r \in local, SameValue(e, r)
        PROVE  \E s \in R : SameData(e, s)
    <3>1. r \in Rc /\ r.name = n
      BY <1>2, <2>3 DEF SameValue
    <3>2. ~SameData(e, r)
      BY <1>12, <3>1
    <3>3. r.ttl # e.ttl
      BY <2>3, <3>2 DEF SameData, SameValue
    <3> QED
      BY <1>10, <2>3, <3>3
  <2> QED
    BY <1>9, <2>2, <2>3 DEF SameOfName
<1> QED
  BY <1>4, <1>11, <1>12

\* The values and ttls that R gives a name.
ValuesOf(n, R) == {[value |-> r.value, ttl |-> r.ttl] : r \in {x \in R : x.name = n}}

LEMMA InValues ==
  ASSUME NEW n, NEW R, NEW v
  PROVE  v \in ValuesOf(n, R) <=>
           \E r \in R : r.name = n /\ v = [value |-> r.value, ttl |-> r.ttl]
BY DEF ValuesOf

LEMMA SameValues ==
  ASSUME NEW v, NEW t, NEW w, NEW u,
         [value |-> v, ttl |-> t] = [value |-> w, ttl |-> u]
  PROVE  v = w /\ t = u
<1> DEFINE a == [value |-> v, ttl |-> t]
           b == [value |-> w, ttl |-> u]
<1>1. a.value = b.value /\ a.ttl = b.ttl
  OBVIOUS
<1> QED
  BY <1>1

LEMMA ValuesAreTakenOver ==
  ASSUME NEW S, NEW Rc, NEW R, NEW n,
         ValuesOf(n, Rc) \cap ValuesOf(n, S) \in {{}, ValuesOf(n, Rc)},
         AllOrNone(n, Rc, S) => SameOfName(n, R, S)
  PROVE  ValuesOf(n, R) = ValuesOf(n, S)
<1>1. ASSUME ValuesOf(n, Rc) \cap ValuesOf(n, S) = {},
             NEW r \in Rc, r.name = n, NEW e \in S, SameData(e, r)
      PROVE  FALSE
  <2>1. [value |-> r.value, ttl |-> r.ttl] \in ValuesOf(n, Rc)
    BY <1>1, InValues
  <2>2. [value |-> r.value, ttl |-> r.ttl] \in ValuesOf(n, S)
    BY <1>1, InValues DEF SameData
  <2> QED
    BY <1>1, <2>1, <2>2
<1>2. ASSUME ValuesOf(n, Rc) \cap ValuesOf(n, S) = ValuesOf(n, Rc),
             NEW r \in Rc, r.name = n
      PROVE  \E e \in S : SameData(e, r)
  <2>1. [value |-> r.value, ttl |-> r.ttl] \in ValuesOf(n, Rc)
    BY <1>2, InValues
  <2>2. [value |-> r.value, ttl |-> r.ttl] \in ValuesOf(n, S)
    BY <1>2, <2>1
  <2>3. PICK e \in S : /\ e.name = n
                       /\ [value |-> r.value, ttl |-> r.ttl] = [value |-> e.value, ttl |-> e.ttl]
    BY <2>2, InValues
  <2> QED
    BY <1>2, <2>3, SameValues DEF SameData
<1>3. /\ \A r \in R : r.name = n => \E e \in S : SameData(e, r)
      /\ \A e \in S : e.name = n => \E r \in R : SameData(e, r)
  <2>1. AllOrNone(n, Rc, S)
    BY <1>1, <1>2 DEF AllOrNone
  <2> QED
    BY <2>1 DEF SameOfName
<1>4. ASSUME NEW v \in ValuesOf(n, R) PROVE v \in ValuesOf(n, S)
  <2>1. PICK r \in R : r.name = n /\ v = [value |-> r.value, ttl |-> r.ttl]
    BY <1>4, InValues
  <2>2. PICK e \in S : SameData(e, r)
    BY <1>3, <2>1
  <2> QED
    BY <2>1, <2>2, InValues DEF SameData
<1>5. ASSUME NEW v \in ValuesOf(n, S) PROVE v \in ValuesOf(n, R)
  <2>1. PICK e \in S : e.name = n /\ v = [value |-> e.value, ttl |-> e.ttl]
    BY <1>5, InValues
  <2>2. PICK r \in R : SameData(e, r)
    BY <1>3, <2>1
  <2> QED
    BY <2>1, <2>2, InValues DEF SameData
<1> QED
  BY <1>4, <1>5

\* What a saved pull of all it found makes of the file.
RecordsTakenOver(c, f, d) ==
  FitsPage(d) /\ (\A x, y \in zone[d] : SameValue(x, y) => x = y) =>
    \A n \in Name :
      ValuesOf(n, Range(c[d])) \cap ValuesOf(n, zone[d]) \in {{}, ValuesOf(n, Range(c[d]))}
        => ValuesOf(n, Range(f[d])) = ValuesOf(n, zone[d])

DomainsTakenOver(c, f, D) ==
  Cardinality(D \cap Hosted) <= PageSize =>
    /\ D \cap DOMAIN f = D \cap Hosted
    /\ \A d \in DOMAIN c \cap Hosted : f[d] = c[d]

LEMMA SavedRecordsTakeOver ==
  ASSUME Typed, NEW c, FileOK(c), NEW d \in DOMAIN c, NEW S \in Listings(d),
         NEW F \in Firsts(S), NEW f,
         LET X == RecordDiffs(c, d, S, F) IN f \in SavedRecords(c, X) \/ (X = {} /\ f = c)
  PROVE  RecordsTakenOver(c, f, d)
<1> SUFFICES ASSUME FitsPage(d), \A x, y \in zone[d] : SameValue(x, y) => x = y,
                    NEW n \in Name,
                    ValuesOf(n, Range(c[d])) \cap ValuesOf(n, zone[d])
                      \in {{}, ValuesOf(n, Range(c[d]))}
             PROVE  ValuesOf(n, Range(f[d])) = ValuesOf(n, zone[d])
  BY DEF RecordsTakenOver
<1> DEFINE X == RecordDiffs(c, d, S, F)
<1>1. d \in Domain /\ S = zone[d]
  BY ListsEntries DEF FileOK
<1>2. S \subseteq Entry /\ IsFiniteSet(S)
  BY <1>1 DEF Typed, ZonesOK, ZoneOK
<1>3. S \subseteq F
  BY <1>1, <1>2, AllAreFirst
<1>4. IsFiniteSet(X) /\ \A x \in X : RecordFound(x)
  BY <1>2, RecordsFound
<1>5. \A x \in X : x.domain = d
  BY <1>3, WhatIsFound
<1>6. ASSUME NEW r
      PROVE  r \in Range(f[d]) <=>
               \/ r \in Range(c[d]) /\ ~Dropped(d, r, X)
               \/ \E x \in X : x.type # "delete" /\ r = AsRecord(x)
  <2>1. CASE f \in SavedRecords(c, X)
    <3> HIDE DEF X
    <3> QED
      BY <1>4, <1>5, <2>1, WhatIsSaved
  <2>2. CASE X = {} /\ f = c
    <3> HIDE DEF X
    <3> QED
      BY <2>2 DEF Dropped
  <2> QED
    BY <2>1, <2>2
<1>7. IsSaved(Range(f[d]), c[d], d, X)
  BY <1>6 DEF IsSaved
<1>8. AllOrNone(n, Range(c[d]), S) => SameOfName(n, Range(f[d]), S)
  <2>1. \A x, y \in S : SameValue(x, y) => x = y
    BY <1>1
  <2> QED
    BY <1>2, <1>3, <1>7, <2>1, NameIsTakenOver
<1> QED
  BY <1>1, <1>8, ValuesAreTakenOver

LEMMA SavedDomainsTakeOver ==
  ASSUME NEW c, FileOK(c), NEW D \in SUBSET Domain, NEW S \in DomainListings(D), NEW f,
         LET X == DomainDiffs(c, D, S) IN f = SavedDomains(c, X) \/ (X = {} /\ f = c)
  PROVE  DomainsTakenOver(c, f, D)
<1> SUFFICES ASSUME Cardinality(D \cap Hosted) <= PageSize
             PROVE  /\ D \cap DOMAIN f = D \cap Hosted
                    /\ \A d \in DOMAIN c \cap Hosted : f[d] = c[d]
  BY DEF DomainsTakenOver
<1> DEFINE X == DomainDiffs(c, D, S)
           new == {x.domain : x \in {y \in X : y.type = "create"}}
           gone == {x.domain : x \in {y \in X : y.type = "delete"}}
<1>1. S = D \cap Hosted
  BY DEF DomainListings, FirstPage
<1>2. X = {DomainDiff("create", d) : d \in S \ DOMAIN c}
            \cup {DomainDiff("delete", d) : d \in (DOMAIN c \cap D) \ S}
  BY DEF DomainDiffs
<1>3. \A t, d : DomainDiff(t, d).type = t /\ DomainDiff(t, d).domain = d
  BY DEF DomainDiff
<1> HIDE DEF X
<1>4. new = S \ DOMAIN c
  <2>1. \A d : d \in new <=> d \in S \ DOMAIN c
    BY <1>2, <1>3
  <2> HIDE DEF new
  <2> QED
    BY <2>1
<1>5. gone = (DOMAIN c \cap D) \ S
  <2>1. \A d : d \in gone <=> d \in (DOMAIN c \cap D) \ S
    BY <1>2, <1>3
  <2> HIDE DEF gone
  <2> QED
    BY <2>1
<1>6. CASE f = SavedDomains(c, X)
  <2>1. f = [d \in new \cup (DOMAIN c \ gone) |-> IF d \in new THEN <<>> ELSE c[d]]
    BY <1>6 DEF SavedDomains
  <2> HIDE DEF new, gone
  <2> QED
    BY <1>1, <1>4, <1>5, <2>1
<1>7. CASE X = {} /\ f = c
  <2>1. new = {} /\ gone = {}
    BY <1>7
  <2> HIDE DEF new, gone
  <2> QED
    BY <1>1, <1>4, <1>5, <1>7, <2>1
<1> QED
  BY <1>6, <1>7 DEF X

\* What the diffs of a running pull are.
PullSeen ==
  (cmd = "pulled" /\ ~touched) =>
    /\ dnsYaml = cfg
    /\ IF call.what = "domains"
         THEN \E S \in DomainListings(scope) : diffs = DomainDiffs(cfg, scope, S)
         ELSE \E d \in DOMAIN cfg : \E S \in Listings(d) : \E F \in Firsts(S) :
                scope = {d} /\ diffs = RecordDiffs(cfg, d, S, F)

TakenOver ==
  (cmd = "saved" /\ diffs = {} /\ ~touched) =>
    IF call.what = "domains" THEN DomainsTakenOver(cfg, dnsYaml, scope)
    ELSE \A d \in scope : RecordsTakenOver(cfg, dnsYaml, d)

PullInv == Typed /\ PullSeen /\ TakenOver

LEMMA TakenOverIsWhole == TakenOver => PullTakesOver
<1> SUFFICES ASSUME TakenOver, cmd = "saved", diffs = {}, ~touched PROVE PullTakesOver
  BY DEF PullTakesOver
<1>1. CASE call.what = "domains"
  BY <1>1 DEF TakenOver, PullTakesOver, DomainsTakenOver
<1>2. CASE call.what # "domains"
  <2>1. \A d \in scope : RecordsTakenOver(cfg, dnsYaml, d)
    BY <1>2 DEF TakenOver
  <2> QED
    BY <1>2, <2>1 DEF PullTakesOver, RecordsTakenOver, ValuesOf
<1> QED
  BY <1>1, <1>2

LEMMA PullBegun ==
  ASSUME Typed, PullBegins, ~touched'
  PROVE  PullSeen' /\ TakenOver'
<1>1. PICK c \in {dnsYaml, held}, by \in {"command", "terminal"} :
        \/ \E d \in Domain : PullRecordsOf(c, d, by)
        \/ \E D \in SUBSET Domain : PullDomainsOf(c, D, by)
  BY DEF PullBegins
<1>2. ASSUME NEW D, NEW what, NEW found, Pulled(c, D, by, what, found)
      PROVE  /\ c = dnsYaml /\ FileOK(c) /\ UNCHANGED <<dnsYaml, zone>>
             /\ cfg' = c /\ scope' = D /\ call'.what = what /\ diffs' = found
             /\ cmd' = IF found = {} THEN "saved" ELSE "pulled"
  BY <1>2 DEF Pulled, Start, Typed, FilesOK
<1>3. ASSUME NEW d \in Domain, PullRecordsOf(c, d, by) PROVE PullSeen' /\ TakenOver'
  <2>1. PICK S \in Listings(d) : \E F \in Firsts(S) :
          Pulled(c, {d}, by, "records", RecordDiffs(c, d, S, F))
    BY <1>3 DEF PullRecordsOf
  <2>2. PICK F \in Firsts(S) : Pulled(c, {d}, by, "records", RecordDiffs(c, d, S, F))
    BY <2>1
  <2> DEFINE X == RecordDiffs(c, d, S, F)
  <2>3. /\ c = dnsYaml /\ FileOK(c) /\ UNCHANGED <<dnsYaml, zone>>
        /\ cfg' = c /\ scope' = {d} /\ call'.what = "records" /\ diffs' = X
        /\ cmd' = IF X = {} THEN "saved" ELSE "pulled"
    BY <1>2, <2>2
  <2>4. d \in DOMAIN c
    BY <1>3 DEF PullRecordsOf
  <2>5. S \in Listings(d)'
    BY <2>3 DEF Listings
  <2>6. PullSeen'
    BY <2>3, <2>4, <2>5 DEF PullSeen
  <2>7. X = {} => RecordsTakenOver(c, c, d)
    BY <2>3, <2>4, SavedRecordsTakeOver
  <2>8. RecordsTakenOver(c, c, d)' <=> RecordsTakenOver(c, c, d)
    BY <2>3 DEF RecordsTakenOver, FitsPage
  <2>9. TakenOver'
    BY <2>3, <2>7, <2>8 DEF TakenOver
  <2> QED
    BY <2>6, <2>9
<1>4. ASSUME NEW D \in SUBSET Domain, PullDomainsOf(c, D, by) PROVE PullSeen' /\ TakenOver'
  <2>1. PICK S \in DomainListings(D) :
          Pulled(c, D, by, "domains", DomainDiffs(c, D, S))
    BY <1>4 DEF PullDomainsOf
  <2> DEFINE X == DomainDiffs(c, D, S)
  <2>2. /\ c = dnsYaml /\ FileOK(c) /\ UNCHANGED <<dnsYaml, zone>>
        /\ cfg' = c /\ scope' = D /\ call'.what = "domains" /\ diffs' = X
        /\ cmd' = IF X = {} THEN "saved" ELSE "pulled"
    BY <1>2, <2>1
  <2>3. PullSeen'
    BY <2>2 DEF PullSeen
  <2>4. X = {} => DomainsTakenOver(c, c, D)
    BY <2>2, SavedDomainsTakeOver
  <2>5. TakenOver'
    BY <2>2, <2>4 DEF TakenOver
  <2> QED
    BY <2>3, <2>5
<1> QED
  BY <1>1, <1>3, <1>4

LEMMA SaveTakesOver ==
  ASSUME PullInv, Saves, ~touched'
  PROVE  PullSeen' /\ TakenOver'
<1>1. PICK sel : Save(sel)
  BY DEF Saves
<1>2. /\ cmd = "pulled" /\ cmd' = "saved" /\ UNCHANGED <<zone, cfg, scope, call, touched>>
      /\ Typed /\ FileOK(cfg) /\ scope \subseteq Domain
  BY <1>1 DEF Saves, Save, others, PullInv, Typed, FilesOK, CountsOK
<1>3. PullSeen'
  BY <1>2 DEF PullSeen
<1>4. ASSUME diffs' = {} PROVE sel = diffs
  BY <1>1, <1>4 DEF Save
<1>5. CASE call.what = "domains"
  <2>1. PICK S \in DomainListings(scope) : diffs = DomainDiffs(cfg, scope, S)
    BY <1>2, <1>5 DEF PullInv, PullSeen
  <2>2. diffs' = {} => dnsYaml' = SavedDomains(cfg, DomainDiffs(cfg, scope, S))
    BY <1>1, <1>4, <1>5, <2>1 DEF Save
  <2>3. diffs' = {} => DomainsTakenOver(cfg, dnsYaml', scope)
    BY <1>2, <2>2, SavedDomainsTakeOver
  <2>4. TakenOver'
    BY <1>2, <1>5, <2>3 DEF TakenOver, DomainsTakenOver
  <2> QED
    BY <1>3, <2>4
<1>6. CASE call.what # "domains"
  <2>1. PICK d \in DOMAIN cfg : \E S \in Listings(d) : \E F \in Firsts(S) :
          scope = {d} /\ diffs = RecordDiffs(cfg, d, S, F)
    BY <1>2, <1>6 DEF PullInv, PullSeen
  <2>2. PICK S \in Listings(d) : \E F \in Firsts(S) : diffs = RecordDiffs(cfg, d, S, F)
    BY <2>1
  <2>3. PICK F \in Firsts(S) : diffs = RecordDiffs(cfg, d, S, F)
    BY <2>2
  <2>4. diffs' = {} => dnsYaml' \in SavedRecords(cfg, RecordDiffs(cfg, d, S, F))
    BY <1>1, <1>4, <1>6, <2>3 DEF Save
  <2>5. diffs' = {} => RecordsTakenOver(cfg, dnsYaml', d)
    BY <1>2, <2>4, SavedRecordsTakeOver
  <2>6. RecordsTakenOver(cfg, dnsYaml, d)' <=> RecordsTakenOver(cfg, dnsYaml', d)
    BY <1>2 DEF RecordsTakenOver, FitsPage
  <2>7. TakenOver'
    BY <1>2, <1>6, <2>1, <2>5, <2>6 DEF TakenOver
  <2> QED
    BY <1>3, <2>7
<1> QED
  BY <1>5, <1>6

LEMMA PullNext == PullInv /\ [Next]_vars => PullInv'
<1> SUFFICES ASSUME PullInv, [Next]_vars PROVE PullSeen' /\ TakenOver'
  BY NextTyped DEF PullInv
<1>1. CASE UNCHANGED vars
  <2>1. PullSeen'
    BY <1>1 DEF vars, PullInv, PullSeen, Listings
  <2>2. \A d : RecordsTakenOver(cfg, dnsYaml, d)' <=> RecordsTakenOver(cfg, dnsYaml, d)
    BY <1>1 DEF vars, RecordsTakenOver, FitsPage
  <2>3. DomainsTakenOver(cfg, dnsYaml, scope)' <=> DomainsTakenOver(cfg, dnsYaml, scope)
    BY <1>1 DEF vars, DomainsTakenOver
  <2>4. TakenOver'
    BY <1>1, <2>2, <2>3 DEF vars, PullInv, TakenOver
  <2> QED
    BY <2>1, <2>4
<1>2. CASE touched' \/ cmd' \notin {"pulled", "saved"}
  BY <1>2 DEF PullSeen, TakenOver
<1>3. CASE PullBegins /\ ~touched'
  BY <1>3, PullBegun DEF PullInv
<1>4. CASE Saves /\ ~touched'
  BY <1>4, SaveTakesOver
<1> QED
  BY <1>1, <1>2, <1>3, <1>4, WhereStepsLead DEF PullInv

\* A pull that is saved whole makes the file say what the provider lists: of
\* every name all or none of whose values were right, and of the domains; and
\* the domains that stay keep their records.
THEOREM PullMakesTrue == Spec => []PullTakesOver
<1>1. Init => PullInv
  BY InitTyped DEF Init, PullInv, PullSeen, TakenOver
<1>2. PullInv => PullTakesOver
  BY TakenOverIsWhole DEF PullInv
<1> QED
  BY <1>1, <1>2, PullNext, PTL DEF Spec
=============================================================================
