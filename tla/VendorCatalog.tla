---------------------------- MODULE VendorCatalog ----------------------------
(***************************************************************************)
(* The vendors and description patterns that all users share, and the      *)
(* imports that extend them: VendorService and VendorAliasService, called  *)
(* by the resolveVendorsForRows, classifyAndStoreVendors and               *)
(* promoteMisclassifiedVendors of StatementImportService.                  *)
(*                                                                         *)
(* An import stores what the classifier answered within one transaction of *)
(* the database, READ COMMITTED: it sees the committed rows and its own,   *)
(* and a write waits for another transaction that wrote the same row or    *)
(* inserted the same key.  The reads that follow one another without a     *)
(* write between them are one step.                                        *)
(*                                                                         *)
(* A description stands for its pattern.  The category and the market      *)
(* price of a vendor, which are filled like its billing cycle, are left    *)
(* out, and so are its cancellation contact, changes of its name, and      *)
(* which vendor is the most similar of several.                            *)
(***************************************************************************)
EXTENDS Integers, Sequences, FiniteSets, Functions

CONSTANTS
    Names,          \* of vendors; unique, so that they identify the rows
    Key,            \* a name in lower case
    Similar,        \* the pairs of names above the similarity threshold
    Descriptions,
    Answers,        \* what the classifier may say of a description
    StandingOrders, \* the descriptions that carry the bank's marker
    Curated,        \* the vendors and descriptions that an administrator writes
    Kinds, Services, Cycles,
    Promotions,     \* the cadence that the charges show and the service answered then
    Imports,        \* slots: the imports in progress at once
    NULL

ASSUME DataAssumption ==
    /\ IsFiniteSet(Descriptions) /\ IsFiniteSet(Names)
    /\ \A m, n \in Names : Key[m] = Key[n] => <<m, n>> \in Similar
    /\ \A m, n \in Names : <<m, n>> \in Similar => <<n, m>> \in Similar
    /\ {"ONE_OFF", "SUBSCRIPTION", "ESSENTIAL_BILL"} = Kinds /\ "NONE" \in Services
    /\ Promotions \subseteq [cycle : Cycles, service : Services \cup {NULL}]
    /\ \A d \in Descriptions : Answers[d] \subseteq
         [name : Names, kind : Kinds, service : Services, cycle : Cycles \cup {NULL}]

VARIABLES
    vendors,        \* the committed rows of vendors, or NULL
    aliases,        \* the vendor of each description, or NULL
    imports,        \* what each import in progress holds, or NULL
    creating,       \* the name an administrator found to be free, or NULL
    overlapped      \* whether two of these were ever in progress at once

vars == <<vendors, aliases, imports, creating, overlapped>>

-----------------------------------------------------------------------------
Row == [kind : Kinds \cup {NULL}, service : Services \cup {NULL},
        cycle : Cycles \cup {NULL}]
Fields == {"kind", "service", "cycle"}

\* A vendor as some statement returned it.
Vendor == [name : Names, row : Row]

\* applyStandingOrderOverride: such a charge repeats, whatever the model guessed.
AnswersOf(d) ==
    {IF d \in StandingOrders /\ a.kind = "ONE_OFF" THEN [a EXCEPT !.kind = "SUBSCRIPTION"]
                                                   ELSE a : a \in Answers[d]}

Classification == UNION {AnswersOf(d) : d \in Descriptions}

\* The vendors by description, the descriptions that are left to classify or, later,
\* to link, in the order of the statement, the canonical name of each classified one,
\* the answer and the vendor that go with a canonical name, the vendors left to write,
\* and the rows and aliases not yet committed.
Import == [step : {"classify", "write", "link", "promote"},
           found : [Descriptions -> Vendor \cup {NULL}],
           pending : Seq(Descriptions),
           canonical : [Descriptions -> Names \cup {NULL}],
           defaults : [Names -> Classification \cup {NULL}],
           match : [Names -> Vendor \cup {NULL}],
           names : Seq(Names),
           rows : [Names -> Row \cup {NULL}],
           links : [Descriptions -> Names \cup {NULL}]]

ASSUME NullAssumption ==
    /\ NULL \notin Names /\ NULL \notin Row /\ NULL \notin Vendor
    /\ NULL \notin Classification /\ NULL \notin Import

At(i, step) == imports[i] # NULL /\ imports[i].step = step
InProgress == {i \in Imports : imports[i] # NULL}
Stop(i) == imports' = [imports EXCEPT ![i] = NULL]

\* The rows of vendors as the transaction of an import sees them.
Sees(i) == [n \in Names |-> IF imports[i].rows[n] # NULL THEN imports[i].rows[n]
                                                         ELSE vendors[n]]

Stored(rows) == {n \in Names : rows[n] # NULL}

\* The vendors that a confirmed recurrence would promote; an essential bill is never
\* a candidate (isSubscriptionCandidate).
Promotable(found) ==
    [d \in Descriptions |-> IF found[d] # NULL
                              /\ found[d].row.kind \notin {"SUBSCRIPTION", "ESSENTIAL_BILL"}
                            THEN found[d] ELSE NULL]

Classified(i) == {d \in Descriptions : imports[i].canonical[d] # NULL}

-----------------------------------------------------------------------------
(* The pure parts.                                                         *)

\* The orders in which the elements of a finite set can come.
Orders(S) == {s \in [1 .. Cardinality(S) -> S] : Range(s) = S}

\* The elements of S in the order in which s has them first.
InOrderOf(S, s) ==
    {t \in Orders(S) : \A j, k \in DOMAIN t : j < k =>
        \E a \in DOMAIN s : s[a] = t[j] /\ \A b \in DOMAIN s : s[b] = t[k] => a < b}

IsLast(s, e, k) == s[k] = e /\ \A l \in DOMAIN s : s[l] = e => l <= k
LastPosition(s, e) == CHOOSE k \in DOMAIN s : IsLast(s, e, k)

\* Mutant: every name of the batch is its own canonical name.
SeparateNames(order) == {[n \in Range(order) |-> n]}

\* The positions of two names of the batch that refer to one merchant.
SimilarNamePairs(order) ==
    {pair \in (DOMAIN order) \X (DOMAIN order) :
        pair[1] < pair[2] /\ <<order[pair[1]], order[pair[2]]>> \in Similar}

\* Each name maps to where an earlier name it resembles was mapped; which one, of
\* several, is up to the order in which the database pairs them.
CanonicalNames(order) ==
    {c \in [Range(order) -> Range(order)] :
        \A k \in DOMAIN order :
            LET earlier == {j \in DOMAIN order : <<j, k>> \in SimilarNamePairs(order)}
            IN  IF earlier = {} THEN c[order[k]] = order[k]
                                ELSE \E j \in earlier : c[order[k]] = c[order[j]]}

\* Mutant: candidates win over what is there.
AllFields(row, answer) == {f \in Fields : answer[f] # NULL}

\* pickMissingFields: empty in the row and not in the answer.
MissingFields(row, answer) == {f \in Fields : row[f] = NULL /\ answer[f] # NULL}

Backfilled(row, fields, answer) ==
    [kind |-> IF "kind" \in fields THEN answer.kind ELSE row.kind,
     service |-> IF "service" \in fields THEN answer.service ELSE row.service,
     cycle |-> IF "cycle" \in fields THEN answer.cycle ELSE row.cycle]

ToNewVendor(answer) ==
    [kind |-> answer.kind, service |-> answer.service, cycle |-> answer.cycle]

\* classifyBatch: an answer that is missing or cannot be parsed is left out.
Classifications(pending) ==
    UNION {{a \in [S -> Classification] : \A d \in S : a[d] \in AnswersOf(d)} :
             S \in SUBSET Range(pending)}

\* toVendorNameEntry: a known vendor keeps its own name.
NameOf(i, d, answer) == IF imports[i].found[d] # NULL THEN imports[i].found[d].name
                                                      ELSE answer.name

ExactMatches(n, rows) == {v \in Stored(rows) : Key[v] = Key[n]}
SimilarMatches(n, rows) == {v \in Stored(rows) : <<v, n>> \in Similar}

\* An exact match, up to case, wins over a similar name.
MatchesOf(n, rows) ==
    IF ExactMatches(n, rows) # {} THEN ExactMatches(n, rows) ELSE SimilarMatches(n, rows)

-----------------------------------------------------------------------------
(* Locks.                                                                  *)

\* Another transaction wrote the row of the vendor, or inserted its name.
RowHolders(i, n) == {j \in InProgress \ {i} : imports[j].rows[n] # NULL}
PatternHolders(i, d) == {j \in InProgress \ {i} : imports[j].links[d] # NULL}

\* An insert waits for a row that is not committed yet; a committed one is skipped.
Inserters(i, n) == IF vendors[n] # NULL THEN {} ELSE RowHolders(i, n)

\* Whom the next write of an import waits for; when they wait for each other the
\* database fails one of them.
WaitsFor(i) ==
    IF At(i, "write") /\ imports[i].names # <<>>
      THEN LET n == Head(imports[i].names) IN
           IF imports[i].match[n] # NULL THEN RowHolders(i, imports[i].match[n].name)
                                         ELSE Inserters(i, n)
    ELSE IF At(i, "link") /\ imports[i].pending # <<>>
      THEN PatternHolders(i, Head(imports[i].pending))
    ELSE {}

-----------------------------------------------------------------------------
(* An import.                                                              *)

\* resolveVendorIdsBatch and getByIds.  A vendor without a kind is classified again.
ResolveKnownVendors(i, S) ==
    LET found == [d \in Descriptions |->
                    IF d \in S /\ aliases[d] # NULL
                      THEN [name |-> aliases[d], row |-> vendors[aliases[d]]] ELSE NULL]
    IN  /\ imports[i] = NULL
        /\ \E pending \in Orders({d \in S : found[d] # NULL => found[d].row.kind = NULL}) :
           imports' = [imports EXCEPT ![i] =
             [step |-> IF pending = <<>> THEN "promote" ELSE "classify",
              found |-> IF pending = <<>> THEN Promotable(found) ELSE found,
              pending |-> pending,
              canonical |-> [d \in Descriptions |-> NULL],
              defaults |-> [n \in Names |-> NULL], match |-> [n \in Names |-> NULL],
              names |-> <<>>,
              rows |-> [n \in Names |-> NULL], links |-> [d \in Descriptions |-> NULL]]]
        /\ overlapped' = (overlapped \/ InProgress # {} \/ creating # NULL)
        /\ UNCHANGED <<vendors, aliases, creating>>

\* The names of the classified descriptions, with repetitions.
Spelled(i, answers, classified) ==
    [k \in DOMAIN classified |-> NameOf(i, classified[k], answers[classified[k]])]

\* Of two descriptions that were given one name, the later one leaves its answer.
DefaultsByName(i, answers, classified) ==
    LET spelled == Spelled(i, answers, classified)
    IN  [n \in Range(spelled) |-> answers[classified[LastPosition(spelled, n)]]]

\* The vendors there are for the canonical names, and then the names to write: first
\* those whose vendor lacks a field, then those without a vendor.
MatchCanonicalNames(i, answers, classified, order, c) ==
    LET default == DefaultsByName(i, answers, classified)
        canonical == {n \in Range(order) : c[n] = n}
        matched == {n \in canonical : MatchesOf(n, vendors) # {}}
    IN  \E vendor \in {v \in [matched -> Names] : \A n \in matched : v[n] \in MatchesOf(n, vendors)} :
        \E updated \in InOrderOf({n \in matched : MissingFields(vendors[vendor[n]], default[n]) # {}},
                                order) :
        \E created \in InOrderOf(canonical \ matched, order) :
          imports' = [imports EXCEPT
            ![i].step = "write",
            ![i].pending = classified,
            ![i].canonical = [d \in Descriptions |->
                IF d \in DOMAIN answers THEN c[NameOf(i, d, answers[d])] ELSE NULL],
            ![i].defaults = [n \in Names |-> IF n \in canonical THEN default[n] ELSE NULL],
            ![i].match = [n \in Names |-> IF n \in matched
                THEN [name |-> vendor[n], row |-> vendors[vendor[n]]] ELSE NULL],
            ![i].names = updated \o created]

\* classifyBatch and findOrCreateManyByName up to its first write.
FindExistingByNames(i) ==
    /\ At(i, "classify")
    /\ \E answers \in Classifications(imports[i].pending) :
       \E classified \in InOrderOf(DOMAIN answers, imports[i].pending) :
       \E order \in InOrderOf(Range(Spelled(i, answers, classified)),
                              Spelled(i, answers, classified)) :
       \E c \in CanonicalNames(order) : MatchCanonicalNames(i, answers, classified, order, c)
    /\ UNCHANGED <<vendors, aliases, creating, overlapped>>

\* One UPDATE of backfillMissingClassification: over the row as it is by now, the
\* fields that were empty in the row that was read.
BackfillMissingClassification(i) ==
    LET p == imports[i]
        n == Head(p.names)
        v == p.match[n].name
        fields == MissingFields(p.match[n].row, p.defaults[n])
    IN  /\ At(i, "write") /\ p.names # <<>> /\ p.match[n] # NULL
        /\ WaitsFor(i) = {}
        /\ imports' = [imports EXCEPT
             ![i].names = Tail(@),
             ![i].rows[v] = Backfilled(Sees(i)[v], fields, p.defaults[n])]
        /\ UNCHANGED <<vendors, aliases, creating, overlapped>>

\* One row of bulkCreateIgnoringDuplicates.
CreateMissingByNames(i) ==
    LET p == imports[i]
        n == Head(p.names)
    IN  /\ At(i, "write") /\ p.names # <<>> /\ p.match[n] = NULL
        /\ WaitsFor(i) = {}
        /\ imports' = [imports EXCEPT
             ![i].names = Tail(@),
             ![i].rows[n] = IF Sees(i)[n] # NULL THEN @ ELSE ToNewVendor(p.defaults[n])]
        /\ UNCHANGED <<vendors, aliases, creating, overlapped>>

\* Mutant: only the rows that the statement inserted are taken.
ReadBackInserted(i, n) == {v \in Stored(imports[i].rows) : Key[v] = Key[n]}

\* The read-back by lower-case name, after another import's row was skipped.
ReadBack(i, n) == ExactMatches(n, Sees(i))

\* The end of findOrCreateManyByName: updated vendors are read again, created ones
\* read back, and each classified description gets the vendor of its name.
FindOrCreateManyByName(i) ==
    LET p == imports[i]
        canonical == {p.canonical[d] : d \in Classified(i)}
        again(n) == MissingFields(p.match[n].row, p.defaults[n]) # {}
    IN  /\ At(i, "write") /\ p.names = <<>>
        /\ \E vendor \in [canonical -> Names \cup {NULL}] :
             LET of(n) == IF p.match[n] # NULL /\ ~again(n) THEN p.match[n]
                          ELSE IF vendor[n] = NULL THEN NULL
                          ELSE [name |-> vendor[n], row |-> Sees(i)[vendor[n]]]
                 resolved == {d \in Classified(i) : of(p.canonical[d]) # NULL}
             IN  /\ \A n \in canonical :
                      IF p.match[n] # NULL THEN vendor[n] = p.match[n].name
                      ELSE IF ReadBack(i, n) = {} THEN vendor[n] = NULL
                      ELSE vendor[n] \in ReadBack(i, n)
                 /\ \E pending \in InOrderOf(resolved, p.pending) :
                    imports' = [imports EXCEPT
                      ![i].step = "link",
                      ![i].pending = pending,
                      ![i].found = [d \in Descriptions |->
                          IF d \in resolved THEN of(p.canonical[d]) ELSE @[d]],
                      ![i].defaults = [n \in Names |-> NULL],
                      ![i].match = [n \in Names |-> NULL]]
        /\ UNCHANGED <<vendors, aliases, creating, overlapped>>

\* One row of createManyIdempotent.
LinkDescription(i) ==
    LET p == imports[i]
        d == Head(p.pending)
    IN  /\ At(i, "link") /\ p.pending # <<>>
        /\ WaitsFor(i) = {}
        /\ imports' = [imports EXCEPT
             ![i].pending = Tail(@),
             ![i].links[d] = IF aliases[d] # NULL THEN @ ELSE p.found[d].name]
        /\ UNCHANGED <<vendors, aliases, creating, overlapped>>

\* Mutant: the vendors are not part of the transaction that stores their aliases.
CommitAliases(i) ==
    /\ At(i, "link") /\ imports[i].pending = <<>>
    /\ aliases' = [d \in Descriptions |-> IF imports[i].links[d] # NULL
                                            THEN imports[i].links[d] ELSE aliases[d]]
    /\ Stop(i)
    /\ UNCHANGED <<vendors, creating, overlapped>>

Commit(i) ==
    /\ At(i, "link") /\ imports[i].pending = <<>>
    /\ vendors' = Sees(i)
    /\ aliases' = [d \in Descriptions |-> IF imports[i].links[d] # NULL
                                            THEN imports[i].links[d] ELSE aliases[d]]
    /\ imports' = [imports EXCEPT ![i].step = "promote",
                                  ![i].found = Promotable(@),
                                  ![i].canonical = [d \in Descriptions |-> NULL],
                                  ![i].rows = [n \in Names |-> NULL],
                                  ![i].links = [d \in Descriptions |-> NULL]]
    /\ UNCHANGED <<creating, overlapped>>

\* promoteToSubscription, of a vendor as one of the rows of the import holds it,
\* with the cadence the charges showed and the service the classifier answered.
PromoteToSubscription(i, d, promotion) ==
    LET v == imports[i].found[d] IN
    /\ At(i, "promote") /\ v # NULL
    /\ RowHolders(i, v.name) = {}
    /\ vendors' = [vendors EXCEPT
         ![v.name].kind = "SUBSCRIPTION",
         ![v.name].cycle = IF v.row.cycle # NULL THEN v.row.cycle ELSE promotion.cycle,
         ![v.name].service = IF v.row.service \in {NULL, "NONE"} /\ promotion.service # NULL
                               THEN promotion.service ELSE v.row.service]
    /\ imports' = [imports EXCEPT ![i].found =
         [e \in Descriptions |-> IF @[e] # NULL /\ @[e].name = v.name THEN NULL ELSE @[e]]]
    /\ UNCHANGED <<aliases, creating, overlapped>>

\* The vendors that did not recur keep their kind.
Finish(i) ==
    /\ At(i, "promote")
    /\ Stop(i)
    /\ UNCHANGED <<vendors, aliases, creating, overlapped>>

\* A statement or the classifier fails, the database ends a cycle of waits, or the
\* instance ends: the transaction is rolled back.
Rollback(i) ==
    /\ imports[i] # NULL
    /\ Stop(i)
    /\ UNCHANGED <<vendors, aliases, creating, overlapped>>

-----------------------------------------------------------------------------
(* An administrator.                                                       *)

AssertNameIsAvailable(n) ==
    /\ creating = NULL
    /\ ExactMatches(n, vendors) = {}
    /\ creating' = n
    /\ overlapped' = (overlapped \/ InProgress # {})
    /\ UNCHANGED <<vendors, aliases, imports>>

\* The insert waits for the imports that inserted the name and then fails if the
\* unique index has it.  The administrator may give the service, never the rest.
CreateVendor ==
    /\ creating # NULL
    /\ \A i \in Imports : Inserters(i, creating) = {}
    /\ \E service \in Services \cup {NULL} :
         vendors' = IF vendors[creating] # NULL THEN vendors
           ELSE [vendors EXCEPT ![creating] =
                   [kind |-> NULL, service |-> service, cycle |-> NULL]]
    /\ creating' = NULL
    /\ UNCHANGED <<aliases, imports, overlapped>>

CreateAlias(d, v) ==
    /\ vendors[v] # NULL
    /\ aliases[d] = NULL
    /\ \A i \in InProgress : imports[i].links[d] = NULL
    /\ aliases' = [aliases EXCEPT ![d] = v]
    /\ UNCHANGED <<vendors, imports, creating, overlapped>>

DeleteAlias(d) ==
    /\ aliases[d] # NULL
    /\ aliases' = [aliases EXCEPT ![d] = NULL]
    /\ UNCHANGED <<vendors, imports, creating, overlapped>>

-----------------------------------------------------------------------------
Init ==
    /\ vendors = [n \in Names |-> NULL]
    /\ aliases = [d \in Descriptions |-> NULL]
    /\ imports = [i \in Imports |-> NULL]
    /\ creating = NULL
    /\ overlapped = FALSE

ImportStep(i) ==
    \/ FindExistingByNames(i)
    \/ BackfillMissingClassification(i)
    \/ CreateMissingByNames(i)
    \/ FindOrCreateManyByName(i)
    \/ LinkDescription(i)
    \/ Commit(i)
    \/ Finish(i)

Next ==
    \/ \E i \in Imports, S \in SUBSET Descriptions \ {{}} : ResolveKnownVendors(i, S)
    \/ \E i \in Imports : ImportStep(i) \/ Rollback(i)
    \/ \E i \in Imports, d \in Descriptions, promotion \in Promotions :
         PromoteToSubscription(i, d, promotion)
    \/ \E n \in Names \cap Curated : AssertNameIsAvailable(n)
    \/ CreateVendor
    \/ \E d \in Descriptions \cap Curated :
         DeleteAlias(d) \/ \E v \in Names \cap Curated : CreateAlias(d, v)

Spec == Init /\ [][Next]_vars

-----------------------------------------------------------------------------
(* What the catalogue must satisfy.                                        *)

\* Every variable holds what its table or its process can hold, and an alias leads
\* to a vendor (the foreign key of vendor_aliases).
TypeOK ==
    /\ vendors \in [Names -> Row \cup {NULL}]
    /\ aliases \in [Descriptions -> Stored(vendors) \cup {NULL}]
    /\ imports \in [Imports -> Import \cup {NULL}]
    /\ creating \in Names \cup {NULL}
    /\ overlapped \in BOOLEAN

\* Imports that do not overlap never store two vendors of one merchant, however the
\* classifier spells its name (findOrCreateManyByName, mapToCanonicalNames).
OneVendorPerMerchant ==
    [][~overlapped => \A i \in Imports : Commit(i) =>
         \A m, n \in Names : /\ vendors[n] = NULL /\ vendors'[n] # NULL
                             /\ m # n /\ vendors'[m] # NULL
                             => <<m, n>> \notin Similar]_vars

\* What one import resolved of a vendor, another that does not overlap it fills in
\* and never changes (backfillMissingClassification).
ResolvedFieldsKept ==
    [][~overlapped => \A i \in Imports : Commit(i) =>
         \A n \in Stored(vendors) : \A f \in Fields :
             vendors[n][f] # NULL => vendors'[n][f] = vendors[n][f]]_vars

\* Whatever other imports insert meanwhile, each classified description of a
\* committed import has a vendor that is stored (createMissingByNames).
ClassifiedGetsVendor ==
    \A i \in Imports : At(i, "link") =>
        \A d \in Classified(i) : /\ imports[i].found[d] # NULL
                                 /\ Sees(i)[imports[i].found[d].name] # NULL
=============================================================================
