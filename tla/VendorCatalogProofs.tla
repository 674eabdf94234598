-------------------------- MODULE VendorCatalogProofs --------------------------
(***************************************************************************)
(* What VendorCatalog promises, for every finite set of names and          *)
(* descriptions, whatever the classifier answers and whatever names it     *)
(* takes for similar, and for any number of imports at once.               *)
(*                                                                         *)
(* IInv is inductive and gives the two invariants.  LoneInv, about an      *)
(* import that nothing overlaps, is inductive beside it and gives the two  *)
(* action properties.  That the names of a batch collapse onto canonical   *)
(* ones is an induction over their order (NamesCollapse).                  *)
(***************************************************************************)
EXTENDS VendorCatalog, FiniteSetTheorems, SequenceTheorems, WellFoundedInduction, TLAPS

(* What an import p holds is related to the table of vendors, which is a   *)
(* parameter: it is the one before or the one after a step.                *)

\* The row of a vendor as the import sees it.
Seen(table, p, n) == IF p.rows[n] # NULL THEN p.rows[n] ELSE table[n]

\* Rows and aliases are held back only by the transaction that stores them.
HoldsBackInTransaction(p) ==
    p.step \in {"classify", "promote"} => /\ \A n \in Names : p.rows[n] = NULL
                                          /\ \A d \in Descriptions : p.links[d] = NULL

\* A vendor that was found is stored, or will be when the import commits.
FoundIsStored(table, p) ==
    \A d \in Descriptions : /\ p.found[d] # NULL => Seen(table, p, p.found[d].name) # NULL
                            /\ p.links[d] # NULL => Seen(table, p, p.links[d]) # NULL

\* A vendor that was matched was stored when it was, and no vendor is ever deleted.
MatchIsStored(table, p) ==
    \A n \in Names : p.match[n] # NULL => table[p.match[n].name] # NULL

\* The name of a classified description was matched, is still to be inserted, with
\* its answer, or is stored.
CanonicalIsWritten(table, p) ==
    p.step = "write" =>
      /\ \A n \in Range(p.names) : p.defaults[n] # NULL
      /\ \A d \in Descriptions : p.canonical[d] # NULL =>
           \/ p.match[p.canonical[d]] # NULL
           \/ p.canonical[d] \in Range(p.names)
           \/ Seen(table, p, p.canonical[d]) # NULL

\* When the links are written every classified description has its vendor.
LinksAreFound(p) ==
    p.step = "link" => /\ \A d \in Range(p.pending) : p.found[d] # NULL
                       /\ \A d \in Descriptions : p.canonical[d] # NULL => p.found[d] # NULL

ImportInv(table, p) ==
    /\ HoldsBackInTransaction(p) /\ FoundIsStored(table, p) /\ MatchIsStored(table, p)
    /\ CanonicalIsWritten(table, p) /\ LinksAreFound(p)

IInv ==
    /\ TypeOK
    /\ \A i \in Imports : imports[i] # NULL => ImportInv(vendors, imports[i])

-----------------------------------------------------------------------------
(* What holds as long as nothing overlapped.                               *)

\* The vendors that were matched are as they were read.
MatchIsFresh(table, p) ==
    p.step = "write" => \A n \in Names :
        p.match[n] # NULL => p.match[n].row = table[p.match[n].name]

\* What is written over a stored vendor keeps the fields that are resolved.
RowsKeepFields(table, p) ==
    \A n \in Names : \A f \in Fields :
        table[n] # NULL /\ p.rows[n] # NULL /\ table[n][f] # NULL => p.rows[n][f] = table[n][f]

\* The names that the import adds to the catalogue, so far or in its next writes.
Added(table, p) ==
    {n \in Names : /\ table[n] = NULL
                   /\ \/ p.rows[n] # NULL
                      \/ p.step = "write" /\ n \in Range(p.names) /\ p.match[n] = NULL}

\* They resemble nothing that is stored, and not each other.
AddedIsNew(table, p) ==
    \A n \in Added(table, p) : \A m \in Names :
        m # n /\ (table[m] # NULL \/ m \in Added(table, p)) => <<m, n>> \notin Similar

LoneImport(table, p) ==
    MatchIsFresh(table, p) /\ RowsKeepFields(table, p) /\ AddedIsNew(table, p)

\* As long as nothing overlapped, the import in progress is the only writer.
LoneInv ==
    ~overlapped => /\ \A i, j \in InProgress : i = j
                   /\ creating # NULL => InProgress = {}
                   /\ \A i \in InProgress : LoneImport(vendors, imports[i])

-----------------------------------------------------------------------------
(* What holds as long as an import has one object of each vendor, too.     *)

\* The classified descriptions of one vendor were given the same row of it; a description
\* that got no answer keeps the row that was read before the writes (resolveVendorsForRows).
OneRowPerVendor ==
    \A i \in Imports : At(i, "link") =>
        \A d, e \in Descriptions :
            /\ imports[i].found[d] # NULL /\ imports[i].found[e] # NULL
            /\ imports[i].found[d].name = imports[i].found[e].name
            => imports[i].found[d].row = imports[i].found[e].row

\* The rows that an import was given are those it sees.
FoundIsCurrent(table, p) ==
    \A d \in Descriptions : p.found[d] # NULL =>
        p.found[d].row = IF p.step = "link" THEN Seen(table, p, p.found[d].name)
                                            ELSE table[p.found[d].name]

\* The canonical names whose vendor lacks a field that was answered.
Wanted(p) ==
    {n \in Names : /\ p.match[n] # NULL
                   /\ MissingFields(p.match[n].row, p.defaults[n]) # {}
                   /\ \E d \in Descriptions : p.canonical[d] = n}

\* Only their vendors are written over.
WritesAreWanted(table, p) ==
    p.step = "write" =>
      /\ \A n \in Range(p.names) : p.match[n] # NULL => n \in Wanted(p)
      /\ \A v \in Names : table[v] # NULL /\ p.rows[v] # NULL =>
           \E n \in Wanted(p) : p.match[n].name = v

Current(table, p) == FoundIsCurrent(table, p) /\ WritesAreWanted(table, p)

\* What an import that nothing overlapped was given is what is stored.
CurrentInv ==
    ~overlapped => \A i \in InProgress : Current(vendors, imports[i])

\* A vendor already tagged with a real service type or a cadence keeps it when a recurrence
\* promotes it (promoteToSubscription).
PromotionsKeepTags ==
    [][~overlapped =>
         \A i \in Imports, d \in Descriptions, promotion \in Promotions :
           PromoteToSubscription(i, d, promotion) => \A n \in Stored(vendors) :
             /\ vendors[n].cycle # NULL => vendors'[n].cycle = vendors[n].cycle
             /\ vendors[n].service \notin {NULL, "NONE"} =>
                  vendors'[n].service = vendors[n].service]_vars

-----------------------------------------------------------------------------
(* Orders.                                                                 *)

\* A set of natural numbers has a least one.
LEMMA LeastNat ==
  ASSUME NEW T \in SUBSET Nat, T # {}
  PROVE  \E x \in T : \A y \in T : x <= y
<1>1. PICK x \in T : \A y \in T : ~ (<<y, x>> \in OpToRel(<, Nat))
  BY NatLessThanWellFounded, WFMin
<1>2. \A y \in T : ~(y < x)
  BY <1>1 DEF OpToRel
<1> QED
  BY <1>2

\* An order has each element of its set (Orders).
LEMMA OrdersType ==
  ASSUME NEW S, IsFiniteSet(S), NEW s \in Orders(S)
  PROVE  /\ Cardinality(S) \in Nat
         /\ s \in [1 .. Cardinality(S) -> S]
         /\ s \in Seq(S)
         /\ Range(s) = S
<1>1. Cardinality(S) \in Nat
  BY FS_CardinalityType
<1>2. s \in [1 .. Cardinality(S) -> S] /\ Range(s) = S
  BY DEF Orders
<1>3. s \in Seq(S)
  BY <1>1, <1>2, IsASeq
<1> QED
  BY <1>1, <1>2, <1>3

\* And only once.
LEMMA OrdersInjective ==
  ASSUME NEW S, IsFiniteSet(S), NEW s \in Orders(S), NEW j \in DOMAIN s, NEW k \in DOMAIN s,
         s[j] = s[k]
  PROVE  j = k
<1> DEFINE D == 1 .. Cardinality(S)
<1>1. Cardinality(S) \in Nat /\ s \in [D -> S] /\ Range(s) = S
  BY OrdersType
<1>2. IsFiniteSet(D) /\ Cardinality(D) = Cardinality(S)
  BY <1>1, FS_Interval
<1>3. s \in Surjection(D, S)
  BY <1>1 DEF Surjection, Range
<1> HIDE DEF D
<1>4. s \in Injection(D, S)
  BY <1>2, <1>3, FS_Surjection
<1> QED
  BY <1>1, <1>4 DEF Injection, IsInjective

\* An order of a set that is taken from a sequence is an order (InOrderOf).
LEMMA InOrderOfType ==
  ASSUME NEW T, NEW S \in SUBSET T, IsFiniteSet(S), NEW s, NEW t \in InOrderOf(S, s)
  PROVE  t \in Orders(S) /\ t \in Seq(T) /\ Range(t) = S
<1>1. t \in Orders(S)
  BY DEF InOrderOf
<1>2. t \in Seq(S) /\ Range(t) = S
  BY <1>1, OrdersType
<1>3. t \in Seq(T)
  BY <1>2, SeqMonotonic
<1> QED
  BY <1>1, <1>2, <1>3

\* What a sequence has, it has last somewhere (LastPosition).
LEMMA LastPositionIsLast ==
  ASSUME NEW T, NEW s \in Seq(T), NEW e \in Range(s)
  PROVE  LastPosition(s, e) \in DOMAIN s /\ s[LastPosition(s, e)] = e
<1> DEFINE B == {b \in Nat : \A l \in DOMAIN s : s[l] = e => l <= b}
<1>1. Len(s) \in Nat /\ DOMAIN s = 1 .. Len(s)
  BY LenProperties
<1>2. PICK m \in DOMAIN s : s[m] = e
  BY DEF Range
<1>3. Len(s) \in B
  BY <1>1
<1>4. PICK b \in B : \A y \in B : b <= y
  BY <1>3, LeastNat
<1>5. b \in DOMAIN s /\ IsLast(s, e, b)
  <2>1. b # 0
    BY <1>1, <1>2
  <2>2. b - 1 \in Nat /\ ~(b - 1 \in B)
    BY <1>4, <2>1
  <2>3. PICK l \in DOMAIN s : s[l] = e /\ ~(l <= b - 1)
    BY <2>2
  <2>4. l = b
    BY <1>1, <2>1, <2>3
  <2> QED
    BY <2>3, <2>4 DEF IsLast
<1>6. LastPosition(s, e) \in DOMAIN s /\ IsLast(s, e, LastPosition(s, e))
  BY <1>5 DEF LastPosition
<1> QED
  BY <1>6 DEF IsLast

-----------------------------------------------------------------------------
(* The canonical names of a batch.                                         *)

\* Position k of a batch collapses onto a position that is not later and is canonical.
Collapses(order, c, k) ==
    \E l \in DOMAIN order : l <= k /\ c[order[k]] = order[l] /\ c[order[l]] = order[l]

\* Every name of a batch has a canonical name, which is its own canonical name
\* (mapToCanonicalNames).  By induction over the order of the names.
LEMMA NamesCollapse ==
  ASSUME NEW S, IsFiniteSet(S), NEW order \in Orders(S), NEW c \in CanonicalNames(order)
  PROVE  \A k \in DOMAIN order : Collapses(order, c, k)
<1>1. DOMAIN order \subseteq Nat
  BY OrdersType
<1> DEFINE T == {k \in DOMAIN order : ~Collapses(order, c, k)}
<1> SUFFICES ASSUME T # {} PROVE FALSE
  OBVIOUS
<1>2. PICK k \in T : \A y \in T : k <= y
  <2>1. T \in SUBSET Nat
    BY <1>1
  <2> QED
    BY <2>1, LeastNat
<1> DEFINE earlier == {j \in DOMAIN order : <<j, k>> \in SimilarNamePairs(order)}
<1>3. k \in DOMAIN order /\ ~Collapses(order, c, k)
  OBVIOUS
<1>4. IF earlier = {} THEN c[order[k]] = order[k]
                      ELSE \E j \in earlier : c[order[k]] = c[order[j]]
  BY <1>3 DEF CanonicalNames
<1>5. \A j \in earlier : j \in DOMAIN order /\ j < k
  BY DEF SimilarNamePairs
<1>6. CASE earlier = {}
  <2>1. c[order[k]] = order[k] /\ k <= k
    BY <1>1, <1>3, <1>4, <1>6
  <2> QED
    BY <1>3, <2>1 DEF Collapses
<1>7. CASE earlier # {}
  <2>1. PICK j \in earlier : c[order[k]] = c[order[j]]
    BY <1>4, <1>7
  <2>2. j \in DOMAIN order /\ j < k /\ j \in Nat /\ k \in Nat
    BY <1>1, <1>3, <1>5
  <2>3. Collapses(order, c, j)
    BY <1>2, <2>2
  <2>4. PICK l \in DOMAIN order : l <= j /\ c[order[j]] = order[l] /\ c[order[l]] = order[l]
    BY <2>3 DEF Collapses
  <2>5. l <= k
    BY <1>1, <2>2, <2>4
  <2> QED
    BY <1>3, <2>1, <2>4, <2>5 DEF Collapses
<1> QED
  BY <1>6, <1>7

\* Two canonical names of a batch do not resemble each other.
LEMMA CanonicalNamesApart ==
  ASSUME NEW S, IsFiniteSet(S), NEW order \in Orders(S), NEW c \in CanonicalNames(order),
         NEW m \in S, NEW n \in S, c[m] = m, c[n] = n, m # n,
         \A x, y \in S : <<x, y>> \in Similar => <<y, x>> \in Similar
  PROVE  <<m, n>> \notin Similar
<1>1. DOMAIN order \subseteq Nat /\ Range(order) = S /\ \A k \in DOMAIN order : order[k] \in S
  BY OrdersType
<1>2. ASSUME NEW j \in DOMAIN order, NEW k \in DOMAIN order, j < k,
             c[order[k]] = order[k], <<order[j], order[k]>> \in Similar
      PROVE  FALSE
  <2> DEFINE earlier == {l \in DOMAIN order : <<l, k>> \in SimilarNamePairs(order)}
  <2>1. j \in earlier
    BY <1>2 DEF SimilarNamePairs
  <2>2. PICK l \in earlier : c[order[k]] = c[order[l]]
    BY <2>1 DEF CanonicalNames
  <2>3. l \in DOMAIN order /\ l < k
    BY DEF SimilarNamePairs
  <2>4. PICK p \in DOMAIN order : p <= l /\ c[order[l]] = order[p]
    BY <2>3, NamesCollapse DEF Collapses
  <2>5. order[p] = order[k]
    BY <1>2, <2>2, <2>4
  <2>6. p = k
    BY <2>5, OrdersInjective
  <2> QED
    BY <1>1, <2>3, <2>4, <2>6
<1>3. PICK j \in DOMAIN order, k \in DOMAIN order : order[j] = m /\ order[k] = n
  BY <1>1 DEF Range
<1>4. j < k \/ k < j
  BY <1>1, <1>3
<1> QED
  BY <1>2, <1>3, <1>4

-----------------------------------------------------------------------------
(* What each step does to the import that takes it.                        *)

\* An import moves on to q; the others do not move.
Moves(i, q) == q \in Import /\ imports' = [imports EXCEPT ![i] = q]

\* An import moves on and keeps what it must.
Advances(i) ==
    \E q : /\ Moves(i, q) /\ ImportInv(vendors', q)
           /\ imports[i] = NULL \/ LoneImport(vendors, imports[i]) => LoneImport(vendors', q)

\* Nothing is held back and nothing matched.
HoldsNothing(q) ==
    /\ \A n \in Names : q.rows[n] = NULL
    /\ \A d \in Descriptions : q.links[d] = NULL
    /\ \A n \in Names : q.match[n] = NULL

\* Any of the descriptions, and any of the names, are finitely many.
LEMMA FiniteParts ==
  /\ \A S \in SUBSET Descriptions : IsFiniteSet(S)
  /\ \A S \in SUBSET Names : IsFiniteSet(S)
BY DataAssumption, FS_Subset

\* The import's first reads: each row's vendor if its pattern is known, and all that is
\* left to classify (ResolveKnownVendors).
LEMMA ResolveEffect ==
  ASSUME TypeOK, NEW i \in Imports, NEW S \in SUBSET Descriptions, ResolveKnownVendors(i, S)
  PROVE  \E q : /\ Moves(i, q) /\ HoldsNothing(q)
                /\ q.step \in {"classify", "promote"}
                /\ \A d \in Descriptions : q.found[d] # NULL =>
                     /\ vendors[q.found[d].name] # NULL
                     /\ q.found[d].row = vendors[q.found[d].name]
<1> DEFINE found == [d \in Descriptions |->
                       IF d \in S /\ aliases[d] # NULL
                         THEN [name |-> aliases[d], row |-> vendors[aliases[d]]] ELSE NULL]
           left == {d \in S : found[d] # NULL => found[d].row.kind = NULL}
           next(p) == [step |-> IF p = <<>> THEN "promote" ELSE "classify",
                       found |-> IF p = <<>> THEN Promotable(found) ELSE found,
                       pending |-> p,
                       canonical |-> [d \in Descriptions |-> NULL],
                       defaults |-> [n \in Names |-> NULL], match |-> [n \in Names |-> NULL],
                       names |-> <<>>,
                       rows |-> [n \in Names |-> NULL], links |-> [d \in Descriptions |-> NULL]]
<1>1. \A d \in Descriptions : aliases[d] # NULL =>
        /\ aliases[d] \in Names /\ vendors[aliases[d]] \in Row /\ vendors[aliases[d]] # NULL
  BY DEF TypeOK, Stored
<1>2. /\ found \in [Descriptions -> Vendor \cup {NULL}]
      /\ \A d \in Descriptions : found[d] # NULL =>
           vendors[found[d].name] # NULL /\ found[d].row = vendors[found[d].name]
  BY <1>1 DEF Vendor
<1>3. PICK p \in Orders(left) : imports' = [imports EXCEPT ![i] = next(p)]
  BY DEF ResolveKnownVendors
<1>4. p \in Seq(Descriptions)
  <2>1. left \in SUBSET Descriptions
    OBVIOUS
  <2> HIDE DEF left
  <2> QED
    BY <2>1, FiniteParts, OrdersType, SeqMonotonic
<1> HIDE DEF found
<1> DEFINE kept == IF p = <<>> THEN Promotable(found) ELSE found
<1>5. /\ kept \in [Descriptions -> Vendor \cup {NULL}]
      /\ \A d \in Descriptions : kept[d] # NULL =>
           vendors[kept[d].name] # NULL /\ kept[d].row = vendors[kept[d].name]
  BY <1>2 DEF Promotable
<1>6. next(p).found = kept
  OBVIOUS
<1>7. next(p) \in Import
  BY <1>4, <1>5, EmptySeq DEF Import
<1>8. HoldsNothing(next(p)) /\ next(p).step \in {"classify", "promote"}
  BY DEF HoldsNothing
<1> HIDE DEF next, kept
<1> QED
  BY <1>3, <1>5, <1>6, <1>7, <1>8 DEF Moves

\* The first reads start an import that holds nothing back (resolveVendorsForRows).
LEMMA ResolveAdvances ==
  ASSUME TypeOK, NEW i \in Imports, NEW S \in SUBSET Descriptions, ResolveKnownVendors(i, S)
  PROVE  Advances(i) /\ imports[i] = NULL
<1>1. PICK q : /\ Moves(i, q) /\ HoldsNothing(q)
               /\ q.step \in {"classify", "promote"}
               /\ \A d \in Descriptions : q.found[d] # NULL => vendors[q.found[d].name] # NULL
  BY ResolveEffect
<1>2. vendors' = vendors /\ imports[i] = NULL
  BY DEF ResolveKnownVendors
<1>3. \A n \in Names : Seen(vendors, q, n) = vendors[n]
  BY <1>1 DEF Seen, HoldsNothing
<1>4. q.found \in [Descriptions -> Vendor \cup {NULL}]
  BY <1>1 DEF Moves, Import
<1>5. ImportInv(vendors, q)
  <2>1. FoundIsStored(vendors, q)
    BY <1>1, <1>3, <1>4 DEF FoundIsStored, HoldsNothing, Vendor
  <2> QED
    BY <1>1, <2>1 DEF ImportInv, HoldsBackInTransaction, MatchIsStored, CanonicalIsWritten,
                      LinksAreFound, HoldsNothing
<1>6. LoneImport(vendors, q)
  BY <1>1 DEF LoneImport, MatchIsFresh, RowsKeepFields, AddedIsNew, Added, HoldsNothing
<1> QED
  BY <1>1, <1>2, <1>5, <1>6 DEF Advances

\* What the classifier answers has the members of a vendor (AnswersOf).
LEMMA ClassificationType ==
  ASSUME NEW a \in Classification
  PROVE  /\ a.name \in Names /\ a.kind \in Kinds /\ a.service \in Services
         /\ a.cycle \in Cycles \cup {NULL}
<1>1. PICK d \in Descriptions : a \in AnswersOf(d)
  BY DEF Classification
<1>2. \A b \in Answers[d] : b \in [name : Names, kind : Kinds, service : Services,
                                   cycle : Cycles \cup {NULL}]
  BY DataAssumption
<1>3. "SUBSCRIPTION" \in Kinds
  BY DataAssumption
<1> QED
  BY <1>1, <1>2, <1>3 DEF AnswersOf

\* The classifier answers some of what it is asked.
LEMMA ClassificationsType ==
  ASSUME NEW p \in Seq(Descriptions), NEW answers \in Classifications(p)
  PROVE  /\ DOMAIN answers \in SUBSET Descriptions
         /\ answers \in [DOMAIN answers -> Classification]
<1>1. Range(p) \in SUBSET Descriptions
  BY RangeOfSeq
<1>2. PICK S \in SUBSET Range(p) : answers \in [S -> Classification]
  BY DEF Classifications
<1> QED
  BY <1>1, <1>2

\* An import looks up what it classified: what it found is stored and unchanged since,
\* each canonical name was found or is on the list of the names to insert, and those
\* resemble nothing that is stored or on the list (findOrCreateManyByName).
FindsNames(q) ==
    /\ \A n \in Names : q.match[n] # NULL =>
         /\ vendors[q.match[n].name] # NULL
         /\ q.match[n].row = vendors[q.match[n].name]
    /\ \A n \in Range(q.names) : q.defaults[n] # NULL
    /\ \A d \in Descriptions : q.canonical[d] # NULL =>
         q.match[q.canonical[d]] # NULL \/ q.canonical[d] \in Range(q.names)
    /\ \A n \in Range(q.names) : q.match[n] = NULL =>
         /\ vendors[n] = NULL
         /\ \A m \in Names : \/ vendors[m] # NULL
                             \/ m \in Range(q.names) /\ q.match[m] = NULL /\ m # n
                             => <<m, n>> \notin Similar
    /\ \A n \in Range(q.names) : q.match[n] # NULL => n \in Wanted(q)

\* A name is an exact match of itself, so one without a match is not stored, and nothing
\* stored resembles it (MatchesOf).
LEMMA Unmatched ==
  ASSUME TypeOK, NEW n \in Names, MatchesOf(n, vendors) = {}
  PROVE  vendors[n] = NULL /\ \A m \in Names : vendors[m] # NULL => <<m, n>> \notin Similar
<1>1. DOMAIN vendors = Names
  BY DEF TypeOK
<1>2. ExactMatches(n, vendors) = {} /\ SimilarMatches(n, vendors) = {}
  BY DEF MatchesOf
<1> QED
  BY <1>1, <1>2 DEF ExactMatches, SimilarMatches, Stored

\* A match is stored (MatchesOf).
LEMMA MatchesAreStored ==
  ASSUME NEW n \in Names, NEW v \in MatchesOf(n, vendors)
  PROVE  v \in Names /\ vendors[v] # NULL
BY DEF MatchesOf, ExactMatches, SimilarMatches, Stored

\* What the names of the classified descriptions are (Spelled, DefaultsByName).
LEMMA SpelledNames ==
  ASSUME NEW i \in Imports, imports[i] \in Import,
         NEW answers \in Classifications(imports[i].pending),
         NEW classified \in InOrderOf(DOMAIN answers, imports[i].pending)
  PROVE  LET spelled == Spelled(i, answers, classified) IN
         /\ DOMAIN answers \in SUBSET Descriptions
         /\ classified \in Seq(Descriptions)
         /\ Range(spelled) \in SUBSET Names
         /\ \A d \in DOMAIN answers : NameOf(i, d, answers[d]) \in Range(spelled)
         /\ \A n \in Range(spelled) : \E d \in DOMAIN answers : NameOf(i, d, answers[d]) = n
         /\ DefaultsByName(i, answers, classified) \in [Range(spelled) -> Classification]
<1> DEFINE D == DOMAIN answers
           spelled == Spelled(i, answers, classified)
<1>1. /\ D \in SUBSET Descriptions /\ IsFiniteSet(D)
      /\ answers \in [D -> Classification]
  BY FiniteParts, ClassificationsType DEF Import
<1>2. classified \in Seq(Descriptions) /\ Range(classified) = D
  BY <1>1, InOrderOfType
<1>3. \A d \in D : NameOf(i, d, answers[d]) \in Names
  BY <1>1, ClassificationType DEF NameOf, Import, Vendor
<1>4. DOMAIN classified = 1 .. Len(classified) /\ Len(classified) \in Nat
  BY <1>2, LenProperties
<1>5. \A k \in DOMAIN classified : classified[k] \in D
  BY <1>2 DEF Range
<1>6. DOMAIN spelled = DOMAIN classified
  BY DEF Spelled
<1>7. spelled \in Seq(Names)
  <2>1. spelled \in [1 .. Len(classified) -> Names]
    BY <1>3, <1>4, <1>5 DEF Spelled
  <2> QED
    BY <1>4, <2>1, IsASeq
<1>8. Range(spelled) \in SUBSET Names
  BY <1>7, RangeOfSeq
<1>9. \A d \in D : NameOf(i, d, answers[d]) \in Range(spelled)
  <2> TAKE d \in D
  <2>1. PICK k \in DOMAIN classified : classified[k] = d
    BY <1>2 DEF Range
  <2>2. spelled[k] = NameOf(i, d, answers[d])
    BY <2>1 DEF Spelled
  <2> QED
    BY <1>6, <2>2 DEF Range
<1>s. \A n \in Range(spelled) : \E d \in D : NameOf(i, d, answers[d]) = n
  <2> TAKE n \in Range(spelled)
  <2>1. PICK k \in DOMAIN spelled : spelled[k] = n
    BY DEF Range
  <2>2. classified[k] \in D /\ spelled[k] = NameOf(i, classified[k], answers[classified[k]])
    BY <1>5, <1>6, <2>1 DEF Spelled
  <2> QED
    BY <2>1, <2>2
<1>10. \A n \in Range(spelled) : answers[classified[LastPosition(spelled, n)]] \in Classification
  <2> TAKE n \in Range(spelled)
  <2>1. LastPosition(spelled, n) \in DOMAIN classified
    BY <1>6, <1>7, LastPositionIsLast
  <2> QED
    BY <1>1, <1>5, <2>1
<1> QED
  BY <1>1, <1>2, <1>8, <1>9, <1>s, <1>10 DEF DefaultsByName

\* What the import knows before its first write: each classified description has a name
\* that was matched or is to be inserted, and these resemble nothing that is stored
\* and not each other (classifyBatch, findExistingByNames).
LEMMA FindEffect ==
  ASSUME TypeOK, NEW i \in Imports, FindExistingByNames(i)
  PROVE  \E q : /\ Moves(i, q) /\ FindsNames(q) /\ q.step = "write"
                /\ q.found = imports[i].found /\ q.rows = imports[i].rows
                /\ q.links = imports[i].links
<1> DEFINE old == imports[i]
<1>1. old \in Import /\ old # NULL
  BY DEF TypeOK, FindExistingByNames, At
<1>2. PICK answers \in Classifications(old.pending) :
        \E classified \in InOrderOf(DOMAIN answers, old.pending) :
        \E order \in InOrderOf(Range(Spelled(i, answers, classified)),
                               Spelled(i, answers, classified)) :
        \E c \in CanonicalNames(order) : MatchCanonicalNames(i, answers, classified, order, c)
  BY DEF FindExistingByNames
<1>3. PICK classified \in InOrderOf(DOMAIN answers, old.pending) :
        \E order \in InOrderOf(Range(Spelled(i, answers, classified)),
                               Spelled(i, answers, classified)) :
        \E c \in CanonicalNames(order) : MatchCanonicalNames(i, answers, classified, order, c)
  BY <1>2
<1> DEFINE spelled == Spelled(i, answers, classified)
           default == DefaultsByName(i, answers, classified)
<1>4. PICK order \in InOrderOf(Range(spelled), spelled) :
        \E c \in CanonicalNames(order) : MatchCanonicalNames(i, answers, classified, order, c)
  BY <1>3
<1>5. PICK c \in CanonicalNames(order) : MatchCanonicalNames(i, answers, classified, order, c)
  BY <1>4
<1> DEFINE canonical == {n \in Range(order) : c[n] = n}
           matched == {n \in canonical : MatchesOf(n, vendors) # {}}
           stale(v) == {n \in matched : MissingFields(vendors[v[n]], default[n]) # {}}
           match(v) == [n \in Names |-> IF n \in matched
                          THEN [name |-> v[n], row |-> vendors[v[n]]] ELSE NULL]
           canonicalOf == [d \in Descriptions |->
                             IF d \in DOMAIN answers THEN c[NameOf(i, d, answers[d])] ELSE NULL]
           defaults == [n \in Names |-> IF n \in canonical THEN default[n] ELSE NULL]
           moved(v, u, w) == [old EXCEPT !.step = "write", !.pending = classified,
                                         !.canonical = canonicalOf, !.defaults = defaults,
                                         !.match = match(v), !.names = u \o w]
           next(v, u, w) == [imports EXCEPT
                               ![i].step = "write", ![i].pending = classified,
                               ![i].canonical = canonicalOf, ![i].defaults = defaults,
                               ![i].match = match(v), ![i].names = u \o w]
<1>6. PICK vendor \in {v \in [matched -> Names] : \A n \in matched : v[n] \in MatchesOf(n, vendors)} :
        \E updated \in InOrderOf(stale(vendor), order) :
        \E created \in InOrderOf(canonical \ matched, order) :
          imports' = next(vendor, updated, created)
  BY <1>5 DEF MatchCanonicalNames
<1> DEFINE new == canonical \ matched
<1>7. PICK updated \in InOrderOf(stale(vendor), order), created \in InOrderOf(new, order) :
        imports' = next(vendor, updated, created)
  BY <1>6
<1> DEFINE q == moved(vendor, updated, created)
\* The names.
<1>8. /\ DOMAIN answers \in SUBSET Descriptions
      /\ classified \in Seq(Descriptions)
      /\ Range(spelled) \in SUBSET Names
      /\ \A d \in DOMAIN answers : NameOf(i, d, answers[d]) \in Range(spelled)
      /\ \A n \in Range(spelled) : \E d \in DOMAIN answers : NameOf(i, d, answers[d]) = n
      /\ default \in [Range(spelled) -> Classification]
  BY <1>1, SpelledNames
<1> HIDE DEF spelled, default
<1>9. /\ IsFiniteSet(Range(spelled)) /\ order \in Orders(Range(spelled))
      /\ Range(order) = Range(spelled)
  BY <1>8, FiniteParts, InOrderOfType
<1>10. c \in [Range(order) -> Range(order)]
  BY DEF CanonicalNames
<1>11. \A n \in Range(order) : c[n] \in canonical
  <2> TAKE n \in Range(order)
  <2>1. PICK k \in DOMAIN order : order[k] = n
    BY DEF Range
  <2>2. Collapses(order, c, k)
    BY <1>9, NamesCollapse
  <2> QED
    BY <1>10, <2>1, <2>2 DEF Collapses
<1>12. canonical \in SUBSET Names /\ matched \in SUBSET canonical
  BY <1>8, <1>9
<1>13. \A n \in canonical : default[n] \in Classification /\ default[n] # NULL
  BY <1>8, <1>9, NullAssumption
<1>14. ASSUME NEW m \in canonical, NEW n \in canonical, m # n
       PROVE  <<m, n>> \notin Similar
  <2>1. \A x, y \in Range(spelled) : <<x, y>> \in Similar => <<y, x>> \in Similar
    BY <1>8, DataAssumption
  <2> QED
    BY <1>9, <1>14, <2>1, CanonicalNamesApart
<1>15. \A n \in matched : vendor[n] \in Names /\ vendors[vendor[n]] # NULL
  BY <1>6, <1>12, MatchesAreStored
<1>16. \A n \in canonical \ matched :
         /\ vendors[n] = NULL
         /\ \A m \in Names : vendors[m] # NULL => <<m, n>> \notin Similar
  <2> TAKE n \in canonical \ matched
  <2>1. MatchesOf(n, vendors) = {} /\ n \in Names
    BY <1>12
  <2> QED
    BY <2>1, Unmatched
<1> HIDE DEF canonical, matched
<1>17. /\ updated \in Seq(Names) /\ Range(updated) = stale(vendor)
       /\ created \in Seq(Names) /\ Range(created) = canonical \ matched
  <2>1. stale(vendor) \in SUBSET Names /\ canonical \ matched \in SUBSET Names
    BY <1>12
  <2>2. IsFiniteSet(stale(vendor)) /\ IsFiniteSet(canonical \ matched)
    BY <2>1, FiniteParts
  <2> HIDE DEF stale
  <2> QED
    BY <2>1, <2>2, InOrderOfType
<1>18. /\ updated \o created \in Seq(Names)
       /\ Range(updated \o created) = stale(vendor) \cup (canonical \ matched)
  <2>1. updated \o created \in Seq(Names)
    BY <1>17, ConcatProperties
  <2>2. Range(updated \o created) = Range(updated) \cup Range(created)
    BY <1>17, RangeConcatenation
  <2> QED
    BY <1>17, <2>1, <2>2
\* The import.
<1>19. match(vendor) \in [Names -> Vendor \cup {NULL}]
  BY <1>15 DEF TypeOK, Vendor
<1>20. canonicalOf \in [Descriptions -> Names \cup {NULL}]
  BY <1>8, <1>9, <1>10
<1>21. defaults \in [Names -> Classification \cup {NULL}]
  BY <1>13
<1>22. \A d \in Descriptions : canonicalOf[d] # NULL => canonicalOf[d] \in canonical
  BY <1>8, <1>9, <1>11
<1>23. \A n \in Names : match(vendor)[n] # NULL =>
         /\ n \in matched
         /\ match(vendor)[n] = [name |-> vendor[n], row |-> vendors[vendor[n]]]
  OBVIOUS
<1>24. \A n \in matched : match(vendor)[n] # NULL
  <2> TAKE n \in matched
  <2>1. match(vendor)[n] = [name |-> vendor[n], row |-> vendors[vendor[n]]]
    BY <1>12
  <2>2. match(vendor)[n] \in Vendor
    BY <1>15, <2>1 DEF TypeOK, Vendor
  <2> QED
    BY <2>2, NullAssumption
<1>25. \A n \in canonical : defaults[n] # NULL
  BY <1>12, <1>13
<1>26. stale(vendor) \subseteq matched
  OBVIOUS
<1>w. ASSUME NEW n \in stale(vendor)
      PROVE  /\ MissingFields(match(vendor)[n].row, defaults[n]) # {}
             /\ \E d \in Descriptions : canonicalOf[d] = n
  <2>1. n \in matched /\ n \in canonical /\ n \in Names
        /\ MissingFields(vendors[vendor[n]], default[n]) # {}
    BY <1>12
  <2>2. match(vendor)[n].row = vendors[vendor[n]] /\ defaults[n] = default[n]
    BY <2>1
  <2>3. n \in Range(order) /\ c[n] = n
    BY <2>1 DEF canonical
  <2>4. PICK d \in DOMAIN answers : NameOf(i, d, answers[d]) = n
    BY <1>8, <1>9, <2>3
  <2>5. d \in Descriptions /\ canonicalOf[d] = n
    BY <1>8, <2>3, <2>4
  <2> QED
    BY <2>1, <2>2, <2>5
<1> HIDE DEF match, canonicalOf, defaults, stale
<1>27. q \in Import
  BY <1>1, <1>8, <1>18, <1>19, <1>20, <1>21 DEF Import
<1>28. /\ q.step = "write" /\ q.found = old.found /\ q.rows = old.rows /\ q.links = old.links
       /\ q.canonical = canonicalOf /\ q.defaults = defaults /\ q.match = match(vendor)
       /\ q.names = updated \o created
  BY <1>1 DEF Import
<1> HIDE DEF moved, next
<1>29. \A n \in Names : q.match[n] # NULL =>
         /\ vendors[q.match[n].name] # NULL
         /\ q.match[n].row = vendors[q.match[n].name]
  <2> SUFFICES ASSUME NEW n \in Names, q.match[n] # NULL
               PROVE  /\ vendors[q.match[n].name] # NULL
                      /\ q.match[n].row = vendors[q.match[n].name]
    OBVIOUS
  <2>1. n \in matched /\ q.match[n] = [name |-> vendor[n], row |-> vendors[vendor[n]]]
    BY <1>23, <1>28
  <2>2. q.match[n].name = vendor[n] /\ q.match[n].row = vendors[vendor[n]]
    BY <2>1
  <2> QED
    BY <1>15, <2>1, <2>2
<1>30. \A n \in Range(q.names) : q.defaults[n] # NULL
  BY <1>12, <1>18, <1>25, <1>26, <1>28
<1>31. \A d \in Descriptions : q.canonical[d] # NULL =>
         q.match[q.canonical[d]] # NULL \/ q.canonical[d] \in Range(q.names)
  BY <1>18, <1>22, <1>24, <1>28
<1>32. \A n \in Range(q.names) : q.match[n] = NULL => n \in canonical \ matched
  BY <1>12, <1>18, <1>24, <1>26, <1>28
<1>v. \A n \in Range(q.names) : q.match[n] # NULL => n \in Wanted(q)
  <2> SUFFICES ASSUME NEW n \in Range(q.names), q.match[n] # NULL PROVE n \in Wanted(q)
    OBVIOUS
  <2>1. n \in Names /\ n \in matched
    BY <1>12, <1>18, <1>23, <1>26, <1>28
  <2>2. n \in stale(vendor)
    BY <1>18, <1>28, <2>1
  <2> QED
    BY <1>w, <1>28, <2>1, <2>2 DEF Wanted
<1>33. FindsNames(q)
  BY <1>12, <1>14, <1>16, <1>29, <1>30, <1>31, <1>32, <1>v DEF FindsNames
<1>34. imports' = [imports EXCEPT ![i] = q]
  BY <1>7 DEF moved, next
<1> QED
  BY <1>27, <1>28, <1>33, <1>34 DEF Moves

\* Matching the names keeps what the import must keep (findExistingByNames).
LEMMA FindAdvances ==
  ASSUME IInv, NEW i \in Imports, FindExistingByNames(i)
  PROVE  Advances(i)
<1> DEFINE p == imports[i]
<1>1. p \in Import /\ p # NULL /\ ImportInv(vendors, p) /\ p.step = "classify" /\ vendors' = vendors
  BY DEF IInv, TypeOK, FindExistingByNames, At
<1>2. PICK q : /\ Moves(i, q) /\ FindsNames(q) /\ q.step = "write"
               /\ q.found = p.found /\ q.rows = p.rows /\ q.links = p.links
  BY FindEffect DEF IInv
<1>3. /\ \A n \in Names : q.rows[n] = NULL
      /\ \A n : Seen(vendors, q, n) = Seen(vendors, p, n)
  BY <1>1, <1>2 DEF ImportInv, HoldsBackInTransaction, Seen
<1> HIDE DEF p
<1>4. ImportInv(vendors, q)
  <2>1. FoundIsStored(vendors, q)
    BY <1>1, <1>2, <1>3 DEF ImportInv, FoundIsStored
  <2> QED
    BY <1>2, <2>1 DEF ImportInv, HoldsBackInTransaction, MatchIsStored, CanonicalIsWritten,
                      LinksAreFound, FindsNames
<1>5. LoneImport(vendors, q)
  <2>1. MatchIsFresh(vendors, q)
    BY <1>2 DEF MatchIsFresh, FindsNames
  <2>2. RowsKeepFields(vendors, q)
    BY <1>3 DEF RowsKeepFields
  <2>3. AddedIsNew(vendors, q)
    <3>1. \A n \in Added(vendors, q) : n \in Range(q.names) /\ q.match[n] = NULL
      BY <1>3 DEF Added
    <3> QED
      BY <1>2, <3>1 DEF AddedIsNew, FindsNames
  <2> QED
    BY <2>1, <2>2, <2>3 DEF LoneImport
<1> QED
  BY <1>1, <1>2, <1>4, <1>5 DEF Advances

\* What is at the head of a list and what is behind it.
LEMMA HeadAndTail ==
  ASSUME NEW T, NEW s \in Seq(T), s # <<>>
  PROVE  /\ Head(s) \in T /\ Head(s) \in Range(s)
         /\ Tail(s) \in Seq(T)
         /\ Range(Tail(s)) \subseteq Range(s)
         /\ Range(s) \subseteq {Head(s)} \cup Range(Tail(s))
<1>1. /\ Head(s) \in T /\ Tail(s) \in Seq(T) /\ Len(Tail(s)) = Len(s) - 1
      /\ \A k \in 1 .. Len(Tail(s)) : Tail(s)[k] = s[k + 1]
  BY HeadTailProperties
<1>2. Len(s) \in Nat /\ Len(s) # 0 /\ DOMAIN s = 1 .. Len(s) /\ DOMAIN Tail(s) = 1 .. Len(s) - 1
  BY <1>1, LenProperties, EmptySeq
<1>3. Head(s) = s[1]
  BY <1>2
<1>4. Head(s) \in Range(s)
  BY <1>2, <1>3 DEF Range
<1>5. \A k \in DOMAIN Tail(s) : k + 1 \in DOMAIN s /\ Tail(s)[k] = s[k + 1]
  BY <1>1, <1>2
<1>6. \A k \in DOMAIN s : k # 1 => k - 1 \in DOMAIN Tail(s) /\ Tail(s)[k - 1] = s[k]
  BY <1>1, <1>2
<1>7. Range(Tail(s)) \subseteq Range(s)
  BY <1>5 DEF Range
<1>8. Range(s) \subseteq {Head(s)} \cup Range(Tail(s))
  BY <1>3, <1>6 DEF Range
<1> QED
  BY <1>1, <1>4, <1>7, <1>8

\* The empty list has nothing.
LEMMA NothingInEmpty == Range(<<>>) = {}
BY DEF Range

\* What is filled in for a vendor has the members of a row (backfillMissingClassification).
LEMMA BackfilledType ==
  ASSUME NEW row \in Row, NEW read \in Row, NEW answer \in Classification
  PROVE  LET new == Backfilled(row, MissingFields(read, answer), answer) IN
         /\ new \in Row
         /\ \A f \in Fields : read[f] # NULL => new[f] = row[f]
<1> DEFINE missing == MissingFields(read, answer)
           new == Backfilled(row, missing, answer)
<1>1. answer.kind \in Kinds /\ answer.service \in Services /\ answer.cycle \in Cycles \cup {NULL}
  BY ClassificationType
<1>2. new \in Row
  BY <1>1 DEF Backfilled, Row
<1>3. \A f \in Fields : read[f] # NULL => f \notin missing
  BY DEF MissingFields
<1>4. /\ "kind" \notin missing => new["kind"] = row["kind"]
      /\ "service" \notin missing => new["service"] = row["service"]
      /\ "cycle" \notin missing => new["cycle"] = row["cycle"]
  BY DEF Backfilled, Row
<1>5. \A f \in Fields : f \notin missing => new[f] = row[f]
  BY <1>4 DEF Fields
<1> QED
  BY <1>2, <1>3, <1>5

\* One write of a name on the list: the row r of a vendor v that is stored, or of the name
\* itself; a row that was seen is not lost, and what was read of a stored vendor is kept.
WritesName(p, q, n, v, r) ==
    /\ q.step = "write" /\ n \in Range(p.names)
    /\ Range(q.names) \subseteq Range(p.names) /\ Range(p.names) \subseteq {n} \cup Range(q.names)
    /\ q.found = p.found /\ q.links = p.links /\ q.match = p.match
    /\ q.defaults = p.defaults /\ q.canonical = p.canonical
    /\ v \in Names /\ q.rows = [p.rows EXCEPT ![v] = r]
    /\ r # NULL \/ (r = p.rows[v] /\ vendors[v] # NULL)

\* A write takes one name off the list, and what it wrote is seen from then on.
LEMMA WritesKeepInv ==
  ASSUME NEW p \in Import, NEW q \in Import, NEW n, NEW v, NEW r,
         ImportInv(vendors, p), p.step = "write", WritesName(p, q, n, v, r),
         p.match[n] # NULL \/ n = v
  PROVE  ImportInv(vendors, q)
<1>1. p.rows \in [Names -> Row \cup {NULL}] /\ v \in Names
  BY DEF Import, WritesName
<1>2. \A m \in Names : Seen(vendors, p, m) # NULL => Seen(vendors, q, m) # NULL
  BY <1>1 DEF WritesName, Seen
<1>3. Seen(vendors, q, v) # NULL
  BY <1>1 DEF WritesName, Seen
<1>4. /\ \A d \in Descriptions : p.found[d] # NULL => p.found[d].name \in Names
      /\ \A d \in Descriptions : p.links[d] # NULL => p.links[d] \in Names
      /\ \A d \in Descriptions : p.canonical[d] # NULL => p.canonical[d] \in Names
  BY DEF Import, Vendor
<1>5. FoundIsStored(vendors, q)
  BY <1>2, <1>4 DEF ImportInv, FoundIsStored, WritesName
<1>6. CanonicalIsWritten(vendors, q)
  <2>1. \A m \in Range(q.names) : q.defaults[m] # NULL
    BY DEF ImportInv, CanonicalIsWritten, WritesName
  <2>2. ASSUME NEW d \in Descriptions, q.canonical[d] # NULL
        PROVE  \/ q.match[q.canonical[d]] # NULL
               \/ q.canonical[d] \in Range(q.names)
               \/ Seen(vendors, q, q.canonical[d]) # NULL
    <3> DEFINE m == p.canonical[d]
    <3>1. q.canonical[d] = m /\ m # NULL /\ m \in Names
      BY <1>4, <2>2 DEF WritesName
    <3>2. p.match[m] # NULL \/ m \in Range(p.names) \/ Seen(vendors, p, m) # NULL
      BY <3>1 DEF ImportInv, CanonicalIsWritten
    <3>3. m \in Range(p.names) => m = n \/ m \in Range(q.names)
      BY DEF WritesName
    <3>4. q.match = p.match
      BY DEF WritesName
    <3> HIDE DEF m
    <3> QED
      BY <1>2, <1>3, <3>1, <3>2, <3>3, <3>4
  <2> QED
    BY <2>1, <2>2 DEF CanonicalIsWritten
<1> QED
  BY <1>5, <1>6 DEF ImportInv, HoldsBackInTransaction, MatchIsStored, LinksAreFound, WritesName

\* A write that keeps the resolved fields of a stored vendor, or adds a vendor that was to
\* be added, leaves the names that the import adds as they were.
LEMMA WritesKeepLone ==
  ASSUME NEW p \in Import, NEW q \in Import, NEW n, NEW v, NEW r,
         LoneImport(vendors, p), p.step = "write", WritesName(p, q, n, v, r),
         vendors[v] # NULL \/ (n = v /\ p.match[n] = NULL),
         vendors[v] # NULL => r = p.rows[v] \/ \A f \in Fields : vendors[v][f] # NULL => r[f] = vendors[v][f]
  PROVE  LoneImport(vendors, q)
<1>1. p.rows \in [Names -> Row \cup {NULL}] /\ v \in Names
  BY DEF Import, WritesName
<1>2. MatchIsFresh(vendors, q)
  BY DEF LoneImport, MatchIsFresh, WritesName
<1>3. RowsKeepFields(vendors, q)
  <2> SUFFICES ASSUME NEW m \in Names, NEW f \in Fields,
                      vendors[m] # NULL, q.rows[m] # NULL, vendors[m][f] # NULL
               PROVE  q.rows[m][f] = vendors[m][f]
    BY DEF RowsKeepFields
  <2>1. CASE m = v
    <3>1. q.rows[m] = r
      BY <1>1, <2>1 DEF WritesName
    <3> QED
      BY <2>1, <3>1 DEF LoneImport, RowsKeepFields
  <2>2. CASE m # v
    <3>1. q.rows[m] = p.rows[m]
      BY <1>1, <2>2 DEF WritesName
    <3> QED
      BY <3>1 DEF LoneImport, RowsKeepFields
  <2> QED
    BY <2>1, <2>2
<1>4. Added(vendors, q) \subseteq Added(vendors, p)
  <2> SUFFICES ASSUME NEW m \in Added(vendors, q) PROVE m \in Added(vendors, p)
    OBVIOUS
  <2>1. m \in Names /\ vendors[m] = NULL
    BY DEF Added
  <2>2. CASE m = v
    <3>1. n = m /\ p.match[m] = NULL /\ m \in Range(p.names)
      BY <2>1, <2>2 DEF WritesName
    <3> QED
      BY <2>1, <3>1 DEF Added
  <2>3. CASE m # v
    <3>1. q.rows[m] = p.rows[m]
      BY <1>1, <2>1, <2>3 DEF WritesName
    <3> QED
      BY <2>1, <3>1 DEF Added, WritesName
  <2> QED
    BY <2>2, <2>3
<1>5. AddedIsNew(vendors, q)
  BY <1>4 DEF LoneImport, AddedIsNew
<1> QED
  BY <1>2, <1>3, <1>5 DEF LoneImport

\* A write over a stored vendor is one that was wanted.
LEMMA WriteIsCurrent ==
  ASSUME NEW p \in Import, NEW q \in Import, NEW n, NEW v, NEW r,
         Current(vendors, p), p.step = "write", WritesName(p, q, n, v, r),
         \/ p.match[n] # NULL /\ v = p.match[n].name
         \/ vendors[v] # NULL => r = p.rows[v]
  PROVE  Current(vendors, q)
<1>1. Wanted(q) = Wanted(p)
  BY DEF Wanted, WritesName
<1>2. FoundIsCurrent(vendors, q)
  BY DEF Current, FoundIsCurrent, WritesName
<1>3. ASSUME NEW m \in Range(q.names), q.match[m] # NULL
      PROVE  m \in Wanted(q)
  BY <1>1, <1>3 DEF Current, WritesAreWanted, WritesName
<1>4. ASSUME NEW w \in Names, vendors[w] # NULL, q.rows[w] # NULL
      PROVE  \E m \in Wanted(q) : q.match[m].name = w
  <2>1. q.match = p.match /\ p.rows \in [Names -> Row \cup {NULL}] /\ n \in Range(p.names)
        /\ q.rows = [p.rows EXCEPT ![v] = r]
    BY DEF WritesName, Import
  <2>2. CASE p.rows[w] # NULL
    <3>1. \E m \in Wanted(p) : p.match[m].name = w
      BY <1>4, <2>2 DEF Current, WritesAreWanted
    <3> QED
      BY <1>1, <2>1, <3>1
  <2>3. CASE p.rows[w] = NULL
    <3>1. w = v /\ r # NULL
      BY <1>4, <2>1, <2>3
    <3>2. p.match[n] # NULL /\ v = p.match[n].name
      BY <1>4, <2>3, <3>1
    <3>3. n \in Wanted(p)
      BY <2>1, <3>2 DEF Current, WritesAreWanted
    <3> QED
      BY <1>1, <2>1, <3>1, <3>2, <3>3
  <2> QED
    BY <2>2, <2>3
<1>5. WritesAreWanted(vendors, q)
  BY <1>3, <1>4 DEF WritesAreWanted
<1> QED
  BY <1>2, <1>5 DEF Current

\* An UPDATE fills the fields that the read row lacked (backfillMissingClassification).
LEMMA BackfillAdvances ==
  ASSUME IInv, NEW i \in Imports, BackfillMissingClassification(i)
  PROVE  /\ Advances(i)
         /\ Current(vendors, imports[i]) => Current(vendors', imports'[i])
<1> DEFINE p == imports[i]
           n == Head(p.names)
           v == p.match[n].name
           read == p.match[n].row
           r == Backfilled(Sees(i)[v], MissingFields(read, p.defaults[n]), p.defaults[n])
           q == [p EXCEPT !.names = Tail(@), !.rows = [@ EXCEPT ![v] = r]]
<1>1. /\ p \in Import /\ p # NULL /\ ImportInv(vendors, p) /\ p.step = "write"
      /\ p.names \in Seq(Names) /\ p.names # <<>> /\ p.match[n] # NULL /\ vendors' = vendors
  BY DEF IInv, TypeOK, BackfillMissingClassification, At, Import
<1>2. /\ n \in Names /\ n \in Range(p.names)
      /\ Tail(p.names) \in Seq(Names)
      /\ Range(Tail(p.names)) \subseteq Range(p.names)
      /\ Range(p.names) \subseteq {n} \cup Range(Tail(p.names))
  BY <1>1, HeadAndTail
<1>3. p.match[n] \in Vendor /\ p.rows \in [Names -> Row \cup {NULL}]
  BY <1>1, <1>2 DEF Import
<1>4. v \in Names /\ read \in Row /\ vendors[v] # NULL /\ vendors[v] \in Row
  BY <1>1, <1>2, <1>3 DEF Vendor, ImportInv, MatchIsStored, IInv, TypeOK
<1>5. p.defaults[n] \in Classification
  BY <1>1, <1>2 DEF ImportInv, CanonicalIsWritten, Import
<1>6. Sees(i)[v] = Seen(vendors, p, v) /\ Sees(i)[v] \in Row
  BY <1>3, <1>4 DEF Sees, Seen
<1>7. r \in Row /\ \A f \in Fields : read[f] # NULL => r[f] = Sees(i)[v][f]
  BY <1>4, <1>5, <1>6, BackfilledType
<1>8. imports' = [imports EXCEPT ![i] = q]
  BY DEF BackfillMissingClassification
<1>9. r # NULL
  BY <1>7, NullAssumption
<1> HIDE DEF r, v, n
<1>10. q \in Import
  BY <1>1, <1>2, <1>3, <1>4, <1>7 DEF Import
<1>11. WritesName(p, q, n, v, r)
  <2>1. /\ q.step = "write" /\ q.names = Tail(p.names) /\ q.found = p.found /\ q.links = p.links
        /\ q.match = p.match /\ q.defaults = p.defaults /\ q.canonical = p.canonical
        /\ q.rows = [p.rows EXCEPT ![v] = r]
    BY <1>1 DEF Import
  <2> HIDE DEF q, p
  <2> QED
    BY <1>2, <1>4, <1>9, <2>1 DEF WritesName
<1>12. ImportInv(vendors, q)
  BY <1>1, <1>10, <1>11, WritesKeepInv
<1>13. ASSUME LoneImport(vendors, p)
       PROVE  LoneImport(vendors, q)
  <2>1. read = vendors[v]
    BY <1>1, <1>2, <1>13 DEF LoneImport, MatchIsFresh, v
  <2>2. \A f \in Fields : vendors[v][f] # NULL => r[f] = vendors[v][f]
    <3> SUFFICES ASSUME NEW f \in Fields, vendors[v][f] # NULL PROVE r[f] = vendors[v][f]
      OBVIOUS
    <3>1. r[f] = Seen(vendors, p, v)[f]
      BY <1>6, <1>7, <2>1
    <3>2. Seen(vendors, p, v)[f] = vendors[v][f]
      BY <1>4, <1>13 DEF LoneImport, RowsKeepFields, Seen
    <3> QED
      BY <3>1, <3>2
  <2> HIDE DEF p, q, read
  <2> QED
    BY <1>1, <1>4, <1>10, <1>11, <1>13, <2>2, WritesKeepLone
<1>14. Current(vendors, p) => Current(vendors, q)
  <2>1. v = p.match[n].name
    BY DEF v
  <2> HIDE DEF p, q
  <2> QED
    BY <1>1, <1>10, <1>11, <2>1, WriteIsCurrent
<1> HIDE DEF q
<1>15. imports'[i] = q
  BY <1>8 DEF IInv, TypeOK
<1> QED
  BY <1>1, <1>8, <1>10, <1>12, <1>13, <1>14, <1>15 DEF Advances, Moves

\* An insert adds the vendor, or skips it as it is stored (bulkCreateIgnoringDuplicates).
LEMMA CreateAdvances ==
  ASSUME IInv, NEW i \in Imports, CreateMissingByNames(i)
  PROVE  /\ Advances(i)
         /\ Current(vendors, imports[i]) => Current(vendors', imports'[i])
<1> DEFINE p == imports[i]
           n == Head(p.names)
           r == IF Sees(i)[n] # NULL THEN p.rows[n] ELSE ToNewVendor(p.defaults[n])
           q == [p EXCEPT !.names = Tail(@), !.rows = [@ EXCEPT ![n] = r]]
<1>1. /\ p \in Import /\ p # NULL /\ ImportInv(vendors, p) /\ p.step = "write"
      /\ p.names \in Seq(Names) /\ p.names # <<>> /\ p.match[n] = NULL /\ vendors' = vendors
  BY DEF IInv, TypeOK, CreateMissingByNames, At, Import
<1>2. /\ n \in Names /\ n \in Range(p.names)
      /\ Tail(p.names) \in Seq(Names)
      /\ Range(Tail(p.names)) \subseteq Range(p.names)
      /\ Range(p.names) \subseteq {n} \cup Range(Tail(p.names))
  BY <1>1, HeadAndTail
<1>3. p.rows \in [Names -> Row \cup {NULL}]
  BY <1>1 DEF Import
<1>4. p.defaults[n] \in Classification
  BY <1>1, <1>2 DEF ImportInv, CanonicalIsWritten, Import
<1>5. ToNewVendor(p.defaults[n]) \in Row /\ ToNewVendor(p.defaults[n]) # NULL
  <2>1. ToNewVendor(p.defaults[n]) \in Row
    BY <1>4, ClassificationType DEF ToNewVendor, Row
  <2> QED
    BY <2>1, NullAssumption
<1>6. Sees(i)[n] = Seen(vendors, p, n)
  BY <1>2 DEF Sees, Seen
<1>7. r \in Row \cup {NULL}
  BY <1>2, <1>3, <1>5
<1>8. /\ r # NULL \/ (r = p.rows[n] /\ vendors[n] # NULL)
      /\ vendors[n] # NULL => r = p.rows[n]
  BY <1>5, <1>6 DEF Seen
<1>9. imports' = [imports EXCEPT ![i] = q]
  BY DEF CreateMissingByNames
<1> HIDE DEF r, n
<1>10. q \in Import
  BY <1>1, <1>2, <1>3, <1>7 DEF Import
<1>11. WritesName(p, q, n, n, r)
  <2>1. /\ q.step = "write" /\ q.names = Tail(p.names) /\ q.found = p.found /\ q.links = p.links
        /\ q.match = p.match /\ q.defaults = p.defaults /\ q.canonical = p.canonical
        /\ q.rows = [p.rows EXCEPT ![n] = r]
    BY <1>1 DEF Import
  <2> HIDE DEF q, p
  <2> QED
    BY <1>2, <1>8, <2>1 DEF WritesName
<1>12. ImportInv(vendors, q)
  BY <1>1, <1>10, <1>11, WritesKeepInv
<1>13. ASSUME LoneImport(vendors, p)
       PROVE  LoneImport(vendors, q)
  <2> HIDE DEF p, q
  <2> QED
    BY <1>1, <1>8, <1>10, <1>11, <1>13, WritesKeepLone
<1>14. Current(vendors, p) => Current(vendors, q)
  <2> HIDE DEF p, q
  <2> QED
    BY <1>1, <1>8, <1>10, <1>11, WriteIsCurrent
<1> HIDE DEF q
<1>15. imports'[i] = q
  BY <1>9 DEF IInv, TypeOK
<1> QED
  BY <1>1, <1>9, <1>10, <1>12, <1>13, <1>14, <1>15 DEF Advances, Moves

\* An import that writes no more vendors keeps what it must of those it wrote.
LEMMA WrittenKeepLone ==
  ASSUME NEW p \in Import, NEW q \in Import, LoneImport(vendors, p),
         q.step # "write", q.rows = p.rows
  PROVE  LoneImport(vendors, q)
<1>1. Added(vendors, q) \subseteq Added(vendors, p)
  BY DEF Added
<1> QED
  BY <1>1 DEF LoneImport, MatchIsFresh, RowsKeepFields, AddedIsNew

\* An alias leads to the vendor found for its description (createManyIdempotent).
LEMMA LinkAdvances ==
  ASSUME IInv, NEW i \in Imports, LinkDescription(i)
  PROVE  /\ Advances(i)
         /\ Current(vendors, imports[i]) => Current(vendors', imports'[i])
<1> DEFINE p == imports[i]
           d == Head(p.pending)
           l == IF aliases[d] # NULL THEN p.links[d] ELSE p.found[d].name
           q == [p EXCEPT !.pending = Tail(@), !.links = [@ EXCEPT ![d] = l]]
<1>1. /\ p \in Import /\ p # NULL /\ ImportInv(vendors, p) /\ p.step = "link"
      /\ p.pending \in Seq(Descriptions) /\ p.pending # <<>> /\ vendors' = vendors
  BY DEF IInv, TypeOK, LinkDescription, At, Import
<1>2. /\ d \in Descriptions /\ d \in Range(p.pending)
      /\ Tail(p.pending) \in Seq(Descriptions)
      /\ Range(Tail(p.pending)) \subseteq Range(p.pending)
  BY <1>1, HeadAndTail
<1>3. p.found[d] # NULL /\ p.found[d] \in Vendor
  BY <1>1, <1>2 DEF ImportInv, LinksAreFound, Import
<1>4. /\ p.links \in [Descriptions -> Names \cup {NULL}] /\ l \in Names \cup {NULL}
      /\ l # NULL => Seen(vendors, p, l) # NULL
  BY <1>1, <1>2, <1>3 DEF Import, Vendor, ImportInv, FoundIsStored
<1>5. imports' = [imports EXCEPT ![i] = q]
  BY DEF LinkDescription
<1> HIDE DEF l, d
<1>6. q \in Import
  BY <1>1, <1>2, <1>4 DEF Import
<1>7. /\ q.step = "link" /\ q.pending = Tail(p.pending) /\ q.found = p.found /\ q.rows = p.rows
      /\ q.match = p.match /\ q.canonical = p.canonical
      /\ q.links = [p.links EXCEPT ![d] = l]
  BY <1>1 DEF Import
<1> HIDE DEF p, q
<1>8. \A n : Seen(vendors, q, n) = Seen(vendors, p, n)
  BY <1>7 DEF Seen
<1>9. ImportInv(vendors, q)
  <2>1. FoundIsStored(vendors, q)
    BY <1>1, <1>4, <1>7, <1>8 DEF ImportInv, FoundIsStored
  <2> QED
    BY <1>1, <1>2, <1>7, <2>1 DEF ImportInv, HoldsBackInTransaction, MatchIsStored,
                                  CanonicalIsWritten, LinksAreFound
<1>10. LoneImport(vendors, p) => LoneImport(vendors, q)
  BY <1>1, <1>6, <1>7, WrittenKeepLone
<1>11. Current(vendors, p) => Current(vendors, q)
  BY <1>1, <1>7, <1>8 DEF Current, FoundIsCurrent, WritesAreWanted
<1>12. imports'[i] = q
  BY <1>5 DEF IInv, TypeOK
<1> QED
  BY <1>1, <1>5, <1>6, <1>9, <1>10, <1>11, <1>12 DEF Advances, Moves, p

\* A name is its own match, so a stored one is read back (ReadBack).
LEMMA ReadBackFinds ==
  ASSUME NEW i \in Imports, NEW n \in Names
  PROVE  /\ Sees(i)[n] # NULL => n \in ReadBack(i, n)
         /\ \A v \in ReadBack(i, n) : v \in Names /\ Sees(i)[v] # NULL
BY DEF ReadBack, ExactMatches, Stored

\* The end of findOrCreateManyByName: what was matched, updated or read back is there
\* for each classified description.
LEMMA FoundAdvances ==
  ASSUME IInv, NEW i \in Imports, FindOrCreateManyByName(i)
  PROVE  /\ Advances(i)
         /\ LoneImport(vendors, imports[i]) /\ Current(vendors, imports[i]) /\ OneRowPerVendor'
              => Current(vendors', imports'[i])
<1> DEFINE p == imports[i]
           canonical == {p.canonical[d] : d \in Classified(i)}
           again(n) == MissingFields(p.match[n].row, p.defaults[n]) # {}
           of(v, n) == IF p.match[n] # NULL /\ ~again(n) THEN p.match[n]
                       ELSE IF v[n] = NULL THEN NULL
                       ELSE [name |-> v[n], row |-> Sees(i)[v[n]]]
           resolved(v) == {d \in Classified(i) : of(v, p.canonical[d]) # NULL}
           found(v) == [d \in Descriptions |->
                          IF d \in resolved(v) THEN of(v, p.canonical[d]) ELSE p.found[d]]
           next(v, l) == [imports EXCEPT
                            ![i].step = "link", ![i].pending = l, ![i].found = found(v),
                            ![i].defaults = [n \in Names |-> NULL],
                            ![i].match = [n \in Names |-> NULL]]
           q(v, l) == [p EXCEPT !.step = "link", !.pending = l, !.found = found(v),
                                !.defaults = [n \in Names |-> NULL],
                                !.match = [n \in Names |-> NULL]]
<1>1. /\ p \in Import /\ p # NULL /\ ImportInv(vendors, p) /\ p.step = "write"
      /\ p.names = <<>> /\ vendors' = vendors
  BY DEF IInv, TypeOK, FindOrCreateManyByName, At
<1>2. PICK v \in [canonical -> Names \cup {NULL}] :
        /\ \A n \in canonical :
             IF p.match[n] # NULL THEN v[n] = p.match[n].name
             ELSE IF ReadBack(i, n) = {} THEN v[n] = NULL
             ELSE v[n] \in ReadBack(i, n)
        /\ \E l \in InOrderOf(resolved(v), p.pending) : imports' = next(v, l)
  BY DEF FindOrCreateManyByName
<1>3. PICK l \in InOrderOf(resolved(v), p.pending) : imports' = next(v, l)
  BY <1>2
<1>4. \A d \in Descriptions : d \in Classified(i) <=> p.canonical[d] # NULL
  BY DEF Classified
<1>5. canonical \in SUBSET Names
  BY <1>1, <1>4 DEF Import, Classified
<1>6. \A n \in Names : Sees(i)[n] = Seen(vendors, p, n) /\ Sees(i)[n] \in Row \cup {NULL}
  BY <1>1 DEF Sees, Seen, Import, IInv, TypeOK
<1>7. ASSUME NEW n \in canonical
      PROVE  of(v, n) \in Vendor /\ of(v, n) # NULL /\ Seen(vendors, p, of(v, n).name) # NULL
  <2>1. n \in Names
    BY <1>5
  <2>2. \/ p.match[n] # NULL
        \/ Seen(vendors, p, n) # NULL
    <3>1. PICK d \in Descriptions : p.canonical[d] = n /\ p.canonical[d] # NULL
      BY <1>4, <1>7 DEF Classified
    <3> QED
      BY <1>1, <3>1, NothingInEmpty DEF ImportInv, CanonicalIsWritten
  <2>3. ASSUME p.match[n] # NULL
        PROVE  /\ p.match[n] \in Vendor /\ v[n] = p.match[n].name
               /\ v[n] \in Names /\ Seen(vendors, p, v[n]) # NULL
    <3>1. p.match[n] \in Vendor /\ v[n] = p.match[n].name
      BY <1>1, <1>2, <2>1, <2>3 DEF Import
    <3>2. vendors[v[n]] # NULL /\ v[n] \in Names
      BY <1>1, <2>1, <2>3, <3>1 DEF ImportInv, MatchIsStored, Vendor
    <3> QED
      BY <3>1, <3>2 DEF Seen
  <2>4. ASSUME p.match[n] = NULL
        PROVE  v[n] \in Names /\ Seen(vendors, p, v[n]) # NULL
    <3>1. n \in ReadBack(i, n)
      BY <1>6, <2>1, <2>2, <2>4, ReadBackFinds
    <3>2. v[n] \in ReadBack(i, n)
      BY <1>2, <2>4, <3>1
    <3> QED
      BY <1>6, <2>1, <3>2, ReadBackFinds
  <2>5. CASE p.match[n] # NULL /\ ~again(n)
    BY <2>3, <2>5
  <2>6. CASE ~(p.match[n] # NULL /\ ~again(n))
    <3>1. v[n] \in Names /\ Seen(vendors, p, v[n]) # NULL /\ v[n] # NULL
      BY <2>3, <2>4, NullAssumption
    <3>2. of(v, n) = [name |-> v[n], row |-> Sees(i)[v[n]]]
      BY <2>6, <3>1
    <3>3. of(v, n) \in Vendor
      BY <1>6, <3>1, <3>2 DEF Vendor
    <3>4. of(v, n).name = v[n]
      BY <3>2
    <3> HIDE DEF of
    <3> QED
      BY <3>1, <3>3, <3>4, NullAssumption
  <2> QED
    BY <2>5, <2>6
<1>k. ASSUME NEW n \in canonical
      PROVE  /\ p.match[n] # NULL => of(v, n).name = p.match[n].name
             /\ p.match[n] # NULL /\ ~again(n) => of(v, n) = p.match[n]
             /\ ~(p.match[n] # NULL /\ ~again(n)) =>
                  of(v, n).row = Seen(vendors, p, of(v, n).name)
  <2>1. n \in Names /\ of(v, n) # NULL /\ of(v, n) \in Vendor
    BY <1>5, <1>7
  <2>2. p.match[n] # NULL => v[n] = p.match[n].name
    BY <1>2
  <2>3. CASE p.match[n] # NULL /\ ~again(n)
    BY <2>3
  <2>4. CASE ~(p.match[n] # NULL /\ ~again(n))
    <3>1. v[n] # NULL /\ of(v, n) = [name |-> v[n], row |-> Sees(i)[v[n]]]
      BY <2>1, <2>4
    <3>2. of(v, n).name = v[n]
      BY <3>1
    <3>3. of(v, n).row = Sees(i)[v[n]]
      BY <3>1
    <3>4. v[n] \in Names
      BY <1>2, <3>1
    <3> HIDE DEF of
    <3> QED
      BY <1>6, <2>2, <2>4, <3>2, <3>3, <3>4
  <2> QED
    BY <2>3, <2>4
<1> HIDE DEF of
<1>8. resolved(v) = Classified(i)
  BY <1>4, <1>7
<1>9. /\ found(v) \in [Descriptions -> Vendor \cup {NULL}]
      /\ \A d \in Descriptions : p.canonical[d] # NULL =>
           found(v)[d] # NULL /\ Seen(vendors, p, found(v)[d].name) # NULL
      /\ \A d \in Descriptions : p.canonical[d] = NULL => found(v)[d] = p.found[d]
      /\ \A d \in Descriptions : p.canonical[d] # NULL => found(v)[d] = of(v, p.canonical[d])
  <2>1. \A d \in Descriptions : found(v)[d] = IF p.canonical[d] # NULL THEN of(v, p.canonical[d])
                                                                    ELSE p.found[d]
    BY <1>4, <1>8
  <2>2. \A d \in Descriptions : p.canonical[d] # NULL => p.canonical[d] \in canonical
    BY <1>4
  <2>3. \A d \in Descriptions : found(v)[d] \in Vendor \cup {NULL}
    BY <1>1, <1>7, <2>1, <2>2 DEF Import
  <2> QED
    BY <1>7, <2>1, <2>2, <2>3
<1>10. l \in Seq(Descriptions) /\ Range(l) = Classified(i)
  <2>1. Classified(i) \in SUBSET Descriptions /\ IsFiniteSet(Classified(i))
    BY FiniteParts DEF Classified
  <2> HIDE DEF resolved
  <2> QED
    BY <1>8, <2>1, InOrderOfType
<1>j. \A d \in Descriptions : p.canonical[d] # NULL => p.canonical[d] \in canonical
  BY <1>4
<1> HIDE DEF found, resolved, canonical
<1>m. ASSUME LoneImport(vendors, p), Current(vendors, p),
             \A d, e \in Descriptions :
               found(v)[d] # NULL /\ found(v)[e] # NULL /\ found(v)[d].name = found(v)[e].name
                 => found(v)[d].row = found(v)[e].row,
             NEW d \in Descriptions, found(v)[d] # NULL
      PROVE  found(v)[d].row = Seen(vendors, p, found(v)[d].name)
  <2> DEFINE n == p.canonical[d]
             w == found(v)[d].name
  <2>1. w \in Names /\ found(v)[d].row \in Row /\ found(v)[d].row # NULL
    BY <1>9, <1>m, NullAssumption DEF Vendor
  <2>2. CASE n # NULL /\ ~(p.match[n] # NULL /\ ~again(n))
    BY <1>9, <1>j, <1>k, <2>2
  <2>3. CASE ~(n # NULL /\ ~(p.match[n] # NULL /\ ~again(n)))
    <3>1. found(v)[d].row = vendors[w]
      <4>1. CASE n = NULL
        BY <1>1, <1>9, <1>m, <4>1 DEF Current, FoundIsCurrent
      <4>2. CASE n # NULL
        <5>1. n \in canonical /\ p.match[n] # NULL /\ found(v)[d] = p.match[n]
          BY <1>9, <1>j, <1>k, <2>3, <4>2
        <5>2. n \in Names
          BY <1>5, <5>1
        <5> QED
          BY <1>1, <1>m, <5>1, <5>2 DEF LoneImport, MatchIsFresh
      <4> QED
        BY <4>1, <4>2
    <3>2. CASE p.rows[w] = NULL
      BY <3>1, <3>2 DEF Seen
    <3>3. CASE p.rows[w] # NULL
      <4>1. PICK m \in Wanted(p) : p.match[m].name = w
        BY <1>1, <1>m, <2>1, <3>1, <3>3 DEF Current, WritesAreWanted
      <4>2. PICK e \in Descriptions : p.canonical[e] = m
        BY DEF Wanted
      <4>3. m \in Names /\ m # NULL /\ p.match[m] # NULL /\ again(m)
        BY NullAssumption DEF Wanted
      <4>4. m \in canonical /\ found(v)[e] = of(v, m) /\ found(v)[e] # NULL
        BY <1>9, <1>j, <4>2, <4>3
      <4>5. found(v)[e].name = w /\ found(v)[e].row = Seen(vendors, p, w)
        BY <1>k, <4>1, <4>3, <4>4
      <4> QED
        BY <1>m, <4>4, <4>5
    <3> QED
      BY <3>2, <3>3
  <2> QED
    BY <2>2, <2>3
<1>11. q(v, l) \in Import
  BY <1>1, <1>9, <1>10 DEF Import
<1>12. /\ q(v, l).step = "link" /\ q(v, l).pending = l /\ q(v, l).found = found(v)
       /\ q(v, l).rows = p.rows /\ q(v, l).links = p.links /\ q(v, l).canonical = p.canonical
       /\ q(v, l).match = [n \in Names |-> NULL]
  BY <1>1 DEF Import
<1> HIDE DEF p, q
<1>13. imports' = [imports EXCEPT ![i] = q(v, l)]
  BY <1>3 DEF q, next, p
<1> HIDE DEF next
<1>14. \A n : Seen(vendors, q(v, l), n) = Seen(vendors, p, n)
  BY <1>12 DEF Seen
<1>15. ImportInv(vendors, q(v, l))
  <2>1. FoundIsStored(vendors, q(v, l))
    BY <1>1, <1>9, <1>12, <1>14 DEF ImportInv, FoundIsStored
  <2>2. LinksAreFound(q(v, l))
    BY <1>4, <1>9, <1>10, <1>12 DEF LinksAreFound, Classified
  <2> QED
    BY <1>12, <2>1, <2>2 DEF ImportInv, HoldsBackInTransaction, MatchIsStored,
                             CanonicalIsWritten
<1>16. LoneImport(vendors, p) => LoneImport(vendors, q(v, l))
  BY <1>1, <1>11, <1>12, WrittenKeepLone
<1>17. imports'[i] = q(v, l)
  BY <1>13 DEF IInv, TypeOK
<1>18. ASSUME LoneImport(vendors, p), Current(vendors, p), OneRowPerVendor'
       PROVE  Current(vendors, q(v, l))
  <2>1. q(v, l) # NULL
    BY <1>11, NullAssumption
  <2>2. \A d, e \in Descriptions :
          found(v)[d] # NULL /\ found(v)[e] # NULL /\ found(v)[d].name = found(v)[e].name
            => found(v)[d].row = found(v)[e].row
    BY <1>12, <1>17, <1>18, <2>1 DEF OneRowPerVendor, At
  <2>3. \A d \in Descriptions : found(v)[d] # NULL =>
          found(v)[d].row = Seen(vendors, p, found(v)[d].name)
    BY <1>m, <1>18, <2>2
  <2> QED
    BY <1>12, <1>14, <2>3 DEF Current, FoundIsCurrent, WritesAreWanted
<1> QED
  BY <1>1, <1>11, <1>15, <1>16, <1>13, <1>17, <1>18 DEF Advances, Moves, p

\* The commit makes the rows of the import those of the catalogue, and nothing that was
\* stored goes away.
LEMMA CommitAdvances ==
  ASSUME IInv, NEW i \in Imports, Commit(i)
  PROVE  /\ Advances(i)
         /\ \A n \in Names : vendors'[n] = Seen(vendors, imports[i], n)
         /\ TypeOK'
<1> DEFINE p == imports[i]
           q == [p EXCEPT !.step = "promote", !.found = Promotable(@),
                          !.canonical = [d \in Descriptions |-> NULL],
                          !.rows = [n \in Names |-> NULL],
                          !.links = [d \in Descriptions |-> NULL]]
<1>1. /\ p \in Import /\ p # NULL /\ ImportInv(vendors, p) /\ p.step = "link"
      /\ p.rows \in [Names -> Row \cup {NULL}]
      /\ p.links \in [Descriptions -> Names \cup {NULL}]
      /\ p.found \in [Descriptions -> Vendor \cup {NULL}]
  BY DEF IInv, TypeOK, Commit, At, Import
<1>2. vendors' = Sees(i) /\ imports' = [imports EXCEPT ![i] = q]
  BY DEF Commit
<1>3. /\ vendors' \in [Names -> Row \cup {NULL}]
      /\ \A n \in Names : vendors'[n] = Seen(vendors, p, n)
  BY <1>1, <1>2 DEF Sees, Seen, IInv, TypeOK
<1>4. aliases' \in [Descriptions -> Stored(vendors') \cup {NULL}]
  <2>1. \A d \in Descriptions : aliases[d] # NULL => aliases[d] \in Stored(vendors')
    BY <1>3 DEF IInv, TypeOK, Stored, Seen
  <2>2. \A d \in Descriptions : p.links[d] # NULL => p.links[d] \in Stored(vendors')
    BY <1>1, <1>3 DEF ImportInv, FoundIsStored, Stored
  <2>3. aliases' = [d \in Descriptions |-> IF p.links[d] # NULL THEN p.links[d] ELSE aliases[d]]
    BY DEF Commit
  <2>4. \A d \in Descriptions : aliases'[d] \in Stored(vendors') \cup {NULL}
    BY <2>1, <2>2, <2>3
  <2> QED
    BY <2>3, <2>4
<1>5. /\ Promotable(p.found) \in [Descriptions -> Vendor \cup {NULL}]
      /\ \A d \in Descriptions : Promotable(p.found)[d] # NULL => Promotable(p.found)[d] = p.found[d]
  BY <1>1 DEF Promotable
<1>6. q \in Import
  BY <1>1, <1>5 DEF Import
<1>7. /\ q.step = "promote" /\ q.found = Promotable(p.found) /\ q.match = p.match
      /\ q.canonical = [d \in Descriptions |-> NULL]
      /\ q.rows = [n \in Names |-> NULL] /\ q.links = [d \in Descriptions |-> NULL]
  BY <1>1 DEF Import
<1>8. TypeOK'
  BY <1>2, <1>3, <1>4, <1>6 DEF IInv, TypeOK, Commit
<1> HIDE DEF q, p
<1>9. ImportInv(vendors', q)
  <2>1. FoundIsStored(vendors', q)
    BY <1>1, <1>3, <1>5, <1>7 DEF ImportInv, FoundIsStored, Seen, Vendor
  <2>2. MatchIsStored(vendors', q)
    BY <1>1, <1>3, <1>6, <1>7 DEF ImportInv, MatchIsStored, Seen, Import, Vendor
  <2> QED
    BY <1>7, <2>1, <2>2 DEF ImportInv, HoldsBackInTransaction, CanonicalIsWritten, LinksAreFound
<1>10. LoneImport(vendors', q)
  <2>1. Added(vendors', q) = {}
    BY <1>7 DEF Added
  <2> QED
    BY <1>7, <2>1 DEF LoneImport, MatchIsFresh, RowsKeepFields, AddedIsNew
<1> QED
  BY <1>2, <1>3, <1>6, <1>8, <1>9, <1>10 DEF Advances, Moves, p

\* A promotion keeps the vendor it writes, whatever was written meanwhile.
LEMMA PromoteAdvances ==
  ASSUME IInv, NEW i \in Imports, NEW d \in Descriptions, NEW promotion \in Promotions,
         PromoteToSubscription(i, d, promotion)
  PROVE  /\ Advances(i)
         /\ \A n \in Names : vendors[n] # NULL => vendors'[n] # NULL
         /\ vendors' \in [Names -> Row \cup {NULL}]
<1> DEFINE p == imports[i]
           v == p.found[d]
           found == [e \in Descriptions |->
                       IF p.found[e] # NULL /\ p.found[e].name = v.name THEN NULL ELSE p.found[e]]
           q == [p EXCEPT !.found = found]
           service == IF v.row.service \in {NULL, "NONE"} /\ promotion.service # NULL
                        THEN promotion.service ELSE v.row.service
           cycle == IF v.row.cycle # NULL THEN v.row.cycle ELSE promotion.cycle
           row == [vendors[v.name] EXCEPT !.kind = "SUBSCRIPTION", !.cycle = cycle,
                                          !.service = service]
<1>1. /\ p \in Import /\ p # NULL /\ ImportInv(vendors, p) /\ p.step = "promote"
      /\ p.found \in [Descriptions -> Vendor \cup {NULL}] /\ v # NULL /\ v \in Vendor
  BY DEF IInv, TypeOK, PromoteToSubscription, At, Import
<1>2. \A n \in Names : p.rows[n] = NULL /\ Seen(vendors, p, n) = vendors[n]
  BY <1>1 DEF ImportInv, HoldsBackInTransaction, Seen
<1>3. v.name \in Names /\ v.row \in Row
  BY <1>1 DEF Vendor
<1>4. vendors[v.name] \in Row
  BY <1>1, <1>2, <1>3 DEF ImportInv, FoundIsStored, IInv, TypeOK
<1>5. promotion.cycle \in Cycles /\ promotion.service \in Services \cup {NULL}
  BY DataAssumption
<1>6. /\ service \in Services \cup {NULL} /\ cycle \in Cycles \cup {NULL}
      /\ "SUBSCRIPTION" \in Kinds
  BY <1>3, <1>5, DataAssumption DEF Row
<1>7. vendors' = [vendors EXCEPT ![v.name] = row] /\ imports' = [imports EXCEPT ![i] = q]
  BY DEF PromoteToSubscription
<1> HIDE DEF service, cycle
<1>8. row \in Row /\ row # NULL
  <2>1. row \in Row
    BY <1>4, <1>6 DEF Row
  <2> QED
    BY <2>1, NullAssumption
<1> HIDE DEF row
<1>9. /\ vendors' \in [Names -> Row \cup {NULL}]
      /\ \A n \in Names : vendors[n] # NULL => vendors'[n] # NULL
  BY <1>3, <1>7, <1>8 DEF IInv, TypeOK
<1>10. /\ found \in [Descriptions -> Vendor \cup {NULL}]
       /\ \A e \in Descriptions : found[e] # NULL => found[e] = p.found[e]
  BY <1>1
<1> HIDE DEF found
<1>11. q \in Import
  BY <1>1, <1>10 DEF Import
<1>12. /\ q.step = "promote" /\ q.found = found /\ q.rows = p.rows /\ q.links = p.links
       /\ q.match = p.match
  BY <1>1 DEF Import
<1> HIDE DEF q, p, v
<1>13. ImportInv(vendors', q)
  <2>1. \A e \in Descriptions : q.links[e] = NULL
    BY <1>1, <1>12 DEF ImportInv, HoldsBackInTransaction
  <2>2. FoundIsStored(vendors', q)
    <3> SUFFICES ASSUME NEW e \in Descriptions, q.found[e] # NULL
                 PROVE  Seen(vendors', q, q.found[e].name) # NULL
      BY <2>1 DEF FoundIsStored
    <3>1. q.found[e] = p.found[e] /\ q.found[e].name \in Names
      BY <1>1, <1>10, <1>12 DEF Vendor
    <3>2. vendors[q.found[e].name] # NULL
      BY <1>1, <1>2, <3>1 DEF ImportInv, FoundIsStored
    <3> QED
      BY <1>2, <1>9, <1>12, <3>1, <3>2 DEF Seen
  <2>3. MatchIsStored(vendors', q)
    BY <1>1, <1>9, <1>12 DEF ImportInv, MatchIsStored, Import, Vendor
  <2> QED
    BY <1>1, <1>2, <1>12, <2>1, <2>2, <2>3
       DEF ImportInv, HoldsBackInTransaction, CanonicalIsWritten, LinksAreFound
<1>14. LoneImport(vendors', q)
  <2>1. Added(vendors', q) = {}
    BY <1>2, <1>12 DEF Added
  <2> QED
    BY <1>2, <1>12, <2>1 DEF LoneImport, MatchIsFresh, RowsKeepFields, AddedIsNew
<1> QED
  BY <1>7, <1>9, <1>11, <1>13, <1>14 DEF Advances, Moves, p

-----------------------------------------------------------------------------
(* The invariants.                                                         *)

\* No vendor is deleted, so what holds of an import holds of it when others write.
LEMMA OthersKeep ==
  ASSUME NEW p \in Import, NEW t, NEW u, ImportInv(t, p),
         \A n \in Names : t[n] # NULL => u[n] # NULL
  PROVE  ImportInv(u, p)
<1>1. \A n \in Names : Seen(t, p, n) # NULL => Seen(u, p, n) # NULL
  BY DEF Seen
<1>2. /\ \A d \in Descriptions : p.found[d] # NULL => p.found[d].name \in Names
      /\ \A d \in Descriptions : p.links[d] # NULL => p.links[d] \in Names
      /\ \A d \in Descriptions : p.canonical[d] # NULL => p.canonical[d] \in Names
      /\ \A n \in Names : p.match[n] # NULL => p.match[n].name \in Names
  BY DEF Import, Vendor
<1>3. FoundIsStored(u, p)
  BY <1>1, <1>2 DEF ImportInv, FoundIsStored
<1>4. CanonicalIsWritten(u, p)
  BY <1>1, <1>2 DEF ImportInv, CanonicalIsWritten
<1> QED
  BY <1>2, <1>3, <1>4 DEF ImportInv, MatchIsStored

\* A step of one import keeps the invariant of all.
LEMMA AdvancesKeep ==
  ASSUME IInv, NEW i \in Imports, Advances(i),
         \A n \in Names : vendors[n] # NULL => vendors'[n] # NULL
  PROVE  /\ imports' \in [Imports -> Import \cup {NULL}]
         /\ \A j \in Imports : imports'[j] # NULL => ImportInv(vendors', imports'[j])
<1>1. PICK q : Moves(i, q) /\ ImportInv(vendors', q)
  BY DEF Advances
<1>2. /\ imports' \in [Imports -> Import \cup {NULL}]
      /\ imports'[i] = q /\ \A j \in Imports \ {i} : imports'[j] = imports[j]
  BY <1>1 DEF Moves, IInv, TypeOK
<1>3. \A j \in Imports \ {i} : imports[j] # NULL =>
        imports[j] \in Import /\ ImportInv(vendors, imports[j])
  BY DEF IInv, TypeOK
<1>4. \A j \in Imports \ {i} : imports[j] # NULL => ImportInv(vendors', imports[j])
  BY <1>3, OthersKeep
<1> QED
  BY <1>1, <1>2, <1>4

\* Imports that only stop keep the invariant of the others.
LEMMA OthersGoOn ==
  ASSUME IInv, \A n \in Names : vendors[n] # NULL => vendors'[n] # NULL,
         imports' \in [Imports -> Import \cup {NULL}],
         \A j \in Imports : imports'[j] # NULL => imports'[j] = imports[j]
  PROVE  \A j \in Imports : imports'[j] # NULL => ImportInv(vendors', imports'[j])
<1>1. \A j \in Imports : imports[j] # NULL =>
        imports[j] \in Import /\ ImportInv(vendors, imports[j])
  BY DEF IInv, TypeOK
<1>2. \A j \in Imports : imports[j] # NULL => ImportInv(vendors', imports[j])
  BY <1>1, OthersKeep
<1> QED
  BY <1>2

\* No step of an import or of an administrator breaks the invariant.
LEMMA InvStep ==
  ASSUME IInv, [Next]_vars
  PROVE  IInv'
<1> USE NullAssumption
<1>1. SUFFICES /\ TypeOK'
               /\ \A j \in Imports : imports'[j] # NULL => ImportInv(vendors', imports'[j])
  BY DEF IInv
<1>2. TypeOK
  BY DEF IInv
<1>3. ASSUME UNCHANGED <<vendors, aliases, creating>>, overlapped' \in BOOLEAN,
             NEW i \in Imports, Advances(i)
      PROVE  /\ TypeOK'
             /\ \A j \in Imports : imports'[j] # NULL => ImportInv(vendors', imports'[j])
  BY <1>2, <1>3, AdvancesKeep DEF TypeOK, Stored
<1>4. ASSUME NEW i \in Imports, NEW S \in SUBSET Descriptions, ResolveKnownVendors(i, S)
      PROVE  /\ TypeOK'
             /\ \A j \in Imports : imports'[j] # NULL => ImportInv(vendors', imports'[j])
  <2>1. Advances(i) /\ UNCHANGED <<vendors, aliases, creating>> /\ overlapped' \in BOOLEAN
    BY <1>2, <1>4, ResolveAdvances DEF ResolveKnownVendors, TypeOK
  <2> QED
    BY <1>3, <2>1
<1>5. ASSUME NEW i \in Imports,
             \/ FindExistingByNames(i) \/ BackfillMissingClassification(i)
             \/ CreateMissingByNames(i) \/ FindOrCreateManyByName(i) \/ LinkDescription(i)
      PROVE  /\ TypeOK'
             /\ \A j \in Imports : imports'[j] # NULL => ImportInv(vendors', imports'[j])
  <2>1. UNCHANGED <<vendors, aliases, creating>> /\ overlapped' \in BOOLEAN
    BY <1>2, <1>5 DEF FindExistingByNames, BackfillMissingClassification, CreateMissingByNames,
                      FindOrCreateManyByName, LinkDescription, TypeOK
  <2>2. Advances(i)
    BY <1>5, FindAdvances, BackfillAdvances, CreateAdvances, FoundAdvances, LinkAdvances
  <2> QED
    BY <1>3, <2>1, <2>2
<1>6. ASSUME NEW i \in Imports, Commit(i)
      PROVE  /\ TypeOK'
             /\ \A j \in Imports : imports'[j] # NULL => ImportInv(vendors', imports'[j])
  <2>1. Advances(i) /\ TypeOK' /\ \A n \in Names : vendors[n] # NULL => vendors'[n] # NULL
    BY <1>6, CommitAdvances DEF Seen
  <2> QED
    BY <2>1, AdvancesKeep
<1>7. ASSUME NEW i \in Imports, NEW d \in Descriptions, NEW promotion \in Promotions,
             PromoteToSubscription(i, d, promotion)
      PROVE  /\ TypeOK'
             /\ \A j \in Imports : imports'[j] # NULL => ImportInv(vendors', imports'[j])
  <2>1. /\ Advances(i) /\ \A n \in Names : vendors[n] # NULL => vendors'[n] # NULL
        /\ vendors' \in [Names -> Row \cup {NULL}]
    BY <1>7, PromoteAdvances
  <2>2. UNCHANGED <<aliases, creating, overlapped>>
    BY <1>7 DEF PromoteToSubscription
  <2>3. aliases' \in [Descriptions -> Stored(vendors') \cup {NULL}]
    BY <1>2, <2>1, <2>2 DEF TypeOK, Stored
  <2> QED
    BY <1>2, <2>1, <2>2, <2>3, AdvancesKeep DEF TypeOK
<1>8. ASSUME NEW i \in Imports, Finish(i) \/ Rollback(i)
      PROVE  /\ TypeOK'
             /\ \A j \in Imports : imports'[j] # NULL => ImportInv(vendors', imports'[j])
  <2>1. /\ UNCHANGED <<vendors, aliases, creating, overlapped>>
        /\ imports' = [imports EXCEPT ![i] = NULL]
    BY <1>8 DEF Finish, Rollback, Stop
  <2>2. /\ imports' \in [Imports -> Import \cup {NULL}]
        /\ \A j \in Imports : imports'[j] # NULL => imports'[j] = imports[j]
    BY <1>2, <2>1 DEF TypeOK
  <2> QED
    BY <1>2, <2>1, <2>2, OthersGoOn DEF TypeOK, Stored
<1>9. ASSUME NEW n \in Names, AssertNameIsAvailable(n)
      PROVE  /\ TypeOK'
             /\ \A j \in Imports : imports'[j] # NULL => ImportInv(vendors', imports'[j])
  BY <1>2, <1>9 DEF AssertNameIsAvailable, TypeOK, Stored, IInv
<1>10. ASSUME CreateVendor
       PROVE  /\ TypeOK'
              /\ \A j \in Imports : imports'[j] # NULL => ImportInv(vendors', imports'[j])
  <2> PICK service \in Services \cup {NULL} :
         vendors' = IF vendors[creating] # NULL THEN vendors
           ELSE [vendors EXCEPT ![creating] =
                   [kind |-> NULL, service |-> service, cycle |-> NULL]]
    BY <1>10 DEF CreateVendor
  <2>1. [kind |-> NULL, service |-> service, cycle |-> NULL] \in Row
    BY DEF Row
  <2>2. /\ UNCHANGED <<aliases, imports, overlapped>> /\ creating' = NULL
        /\ creating \in Names
    BY <1>2, <1>10 DEF CreateVendor, TypeOK
  <2>3. /\ vendors' \in [Names -> Row \cup {NULL}]
        /\ \A n \in Names : vendors[n] # NULL => vendors'[n] # NULL
    BY <1>2, <2>1, <2>2 DEF TypeOK
  <2>4. aliases' \in [Descriptions -> Stored(vendors') \cup {NULL}]
    BY <1>2, <2>2, <2>3 DEF TypeOK, Stored
  <2>5. TypeOK'
    BY <1>2, <2>2, <2>3, <2>4 DEF TypeOK
  <2>6. \A j \in Imports : imports'[j] # NULL => imports'[j] = imports[j]
    BY <2>2
  <2> QED
    BY <2>3, <2>5, <2>6, OthersGoOn DEF TypeOK
<1>11. ASSUME NEW d \in Descriptions, DeleteAlias(d) \/ \E v \in Names : CreateAlias(d, v)
       PROVE  /\ TypeOK'
              /\ \A j \in Imports : imports'[j] # NULL => ImportInv(vendors', imports'[j])
  BY <1>2, <1>11 DEF DeleteAlias, CreateAlias, TypeOK, Stored, IInv
<1>12. ASSUME UNCHANGED vars
       PROVE  /\ TypeOK'
              /\ \A j \in Imports : imports'[j] # NULL => ImportInv(vendors', imports'[j])
  BY <1>2, <1>12 DEF vars, TypeOK, Stored, IInv
<1> QED
  BY <1>4, <1>5, <1>6, <1>7, <1>8, <1>9, <1>10, <1>11, <1>12 DEF Next, ImportStep

\* What a lone import knows of the catalogue stays true until another one overlaps it.
LEMMA LoneStep ==
  ASSUME IInv, LoneInv, [Next]_vars
  PROVE  LoneInv'
<1> USE NullAssumption
<1> DEFINE Goal == /\ \A i, j \in InProgress' : i = j
                   /\ creating' # NULL => InProgress' = {}
                   /\ \A i \in InProgress' : LoneImport(vendors', imports'[i])
<1>1. SUFFICES ASSUME ~overlapped' PROVE Goal
  BY DEF LoneInv
<1>2. TypeOK
  BY DEF IInv
<1>3. ASSUME NEW i \in Imports, Advances(i), creating' = creating,
             ~overlapped, i \in InProgress
      PROVE  Goal
  <2>1. \A j \in InProgress : j = i
    BY <1>3 DEF LoneInv
  <2>2. LoneImport(vendors, imports[i]) /\ creating = NULL
    BY <1>3 DEF LoneInv
  <2>3. PICK q : Moves(i, q) /\ LoneImport(vendors', q)
    BY <1>3, <2>2 DEF Advances
  <2>4. imports'[i] = q /\ \A j \in Imports \ {i} : imports'[j] = imports[j]
    BY <1>2, <2>3 DEF Moves, TypeOK
  <2>5. InProgress' \subseteq {i}
    BY <2>1, <2>4 DEF InProgress
  <2> QED
    BY <1>3, <2>2, <2>3, <2>4, <2>5
<1>4. ASSUME NEW i \in Imports, NEW S \in SUBSET Descriptions, ResolveKnownVendors(i, S)
      PROVE  Goal
  <2>1. InProgress = {} /\ creating = NULL /\ creating' = creating
    BY <1>1, <1>4 DEF ResolveKnownVendors
  <2>2. Advances(i) /\ imports[i] = NULL
    BY <1>2, <1>4, ResolveAdvances
  <2>3. PICK q : Moves(i, q) /\ LoneImport(vendors', q)
    BY <2>2 DEF Advances
  <2>4. imports'[i] = q /\ \A j \in Imports \ {i} : imports'[j] = imports[j]
    BY <1>2, <2>3 DEF Moves, TypeOK
  <2>5. InProgress' \subseteq {i}
    BY <2>1, <2>4 DEF InProgress
  <2> QED
    BY <2>1, <2>3, <2>4, <2>5
<1>5. ASSUME NEW i \in Imports,
             \/ FindExistingByNames(i) \/ BackfillMissingClassification(i)
             \/ CreateMissingByNames(i) \/ FindOrCreateManyByName(i) \/ LinkDescription(i)
             \/ Commit(i)
             \/ \E d \in Descriptions : \E promotion \in Promotions :
                  PromoteToSubscription(i, d, promotion)
      PROVE  Goal
  <2>1. Advances(i)
    BY <1>5, FindAdvances, BackfillAdvances, CreateAdvances, FoundAdvances, LinkAdvances,
       CommitAdvances, PromoteAdvances
  <2>2. creating' = creating /\ overlapped' = overlapped /\ i \in InProgress
    BY <1>5 DEF FindExistingByNames, BackfillMissingClassification, CreateMissingByNames,
                FindOrCreateManyByName, LinkDescription, Commit, PromoteToSubscription,
                At, InProgress
  <2> QED
    BY <1>1, <1>3, <2>1, <2>2
<1>6. ASSUME NEW i \in Imports, Finish(i) \/ Rollback(i)
      PROVE  Goal
  <2>1. /\ UNCHANGED <<vendors, aliases, creating, overlapped>>
        /\ imports' = [imports EXCEPT ![i] = NULL] /\ i \in InProgress
    BY <1>6 DEF Finish, Rollback, Stop, At, InProgress
  <2>2. \A j \in InProgress : j = i
    BY <1>1, <2>1 DEF LoneInv
  <2>3. InProgress' = {}
    BY <1>2, <2>1, <2>2 DEF InProgress, TypeOK
  <2> QED
    BY <2>3
<1>7. ASSUME NEW n \in Names, AssertNameIsAvailable(n)
      PROVE  Goal
  <2>1. InProgress = {} /\ imports' = imports
    BY <1>1, <1>7 DEF AssertNameIsAvailable
  <2> QED
    BY <2>1 DEF InProgress
<1>8. ASSUME CreateVendor
      PROVE  Goal
  <2>1. InProgress = {} /\ imports' = imports
    BY <1>1, <1>8 DEF CreateVendor, LoneInv
  <2> QED
    BY <2>1 DEF InProgress
<1>9. ASSUME UNCHANGED <<vendors, imports, creating, overlapped>>
      PROVE  Goal
  BY <1>1, <1>9 DEF LoneInv, InProgress
<1>10. ASSUME NEW d \in Descriptions, DeleteAlias(d) \/ \E v \in Names : CreateAlias(d, v)
       PROVE  Goal
  BY <1>9, <1>10 DEF DeleteAlias, CreateAlias
<1>11. ASSUME UNCHANGED vars
       PROVE  Goal
  BY <1>9, <1>11 DEF vars
<1> HIDE DEF Goal
<1> QED
  BY <1>4, <1>5, <1>6, <1>7, <1>8, <1>10, <1>11 DEF Next, ImportStep

-----------------------------------------------------------------------------
(* The theorems.                                                           *)

\* At first there is no vendor, no alias and no import.
LEMMA InitInv == Init => IInv /\ LoneInv
<1> SUFFICES ASSUME Init PROVE IInv /\ LoneInv
  OBVIOUS
<1>1. TypeOK
  BY DEF Init, TypeOK
<1>2. \A i \in Imports : imports[i] = NULL
  BY DEF Init
<1> QED
  BY <1>1, <1>2 DEF Init, IInv, LoneInv, InProgress

\* Whatever imports and administrators do at once, what an import holds fits the
\* catalogue; and an import that nothing overlapped knows all that is stored.
THEOREM Invariance == Spec => [](IInv /\ LoneInv)
<1>1. IInv /\ LoneInv /\ [Next]_vars => (IInv /\ LoneInv)'
  BY InvStep, LoneStep
<1> QED
  BY InitInv, <1>1, PTL DEF Spec

\* Every variable holds what its table or process can hold, and an alias leads to a
\* vendor that is stored (the foreign key of vendor_aliases).
THEOREM TypeCorrect == Spec => []TypeOK
<1>1. IInv => TypeOK
  BY DEF IInv
<1> QED
  BY Invariance, <1>1, PTL

\* Each description that was classified has a vendor that is stored when the import
\* commits, whatever other imports and administrators insert between the reads and
\* the writes (createMissingByNames and its read-back).
THEOREM ClassifiedAreStored == Spec => []ClassifiedGetsVendor
<1>1. ASSUME IInv PROVE ClassifiedGetsVendor
  <2>1. SUFFICES ASSUME NEW i \in Imports, At(i, "link"), NEW d \in Classified(i)
                 PROVE  /\ imports[i].found[d] # NULL
                        /\ Sees(i)[imports[i].found[d].name] # NULL
    BY DEF ClassifiedGetsVendor
  <2>2. imports[i] \in Import /\ imports[i].step = "link" /\ ImportInv(vendors, imports[i])
    BY <1>1, <2>1 DEF At, IInv, TypeOK
  <2>3. d \in Descriptions /\ imports[i].canonical[d] # NULL
    BY DEF Classified
  <2>4. imports[i].found[d] # NULL
    BY <2>2, <2>3 DEF ImportInv, LinksAreFound
  <2>5. imports[i].found[d].name \in Names
    BY <2>2, <2>3, <2>4 DEF Import, Vendor
  <2>6. Seen(vendors, imports[i], imports[i].found[d].name) # NULL
    BY <2>2, <2>3, <2>4 DEF ImportInv, FoundIsStored
  <2> QED
    BY <2>4, <2>5, <2>6 DEF Seen, Sees
<1> QED
  BY Invariance, <1>1, PTL

\* An import that nothing overlaps changes no field of a vendor that is resolved
\* (backfillMissingClassification, with pickMissingFields of the row it read).
THEOREM FieldsAreKept == Spec => ResolvedFieldsKept
<1> DEFINE Kept == ~overlapped => \A i \in Imports : Commit(i) =>
                     \A n \in Stored(vendors) : \A f \in Fields :
                       vendors[n][f] # NULL => vendors'[n][f] = vendors[n][f]
<1>1. IInv /\ LoneInv => Kept
  <2>1. SUFFICES ASSUME IInv, LoneInv, ~overlapped, NEW i \in Imports, Commit(i),
                        NEW n \in Stored(vendors), NEW f \in Fields, vendors[n][f] # NULL
                 PROVE  vendors'[n][f] = vendors[n][f]
    OBVIOUS
  <2>2. RowsKeepFields(vendors, imports[i])
    BY <2>1 DEF Commit, At, InProgress, LoneInv, LoneImport
  <2>3. n \in Names /\ vendors[n] # NULL
    BY DEF Stored
  <2>4. vendors'[n] = Seen(vendors, imports[i], n)
    BY <2>1, <2>3, CommitAdvances
  <2> QED
    BY <2>1, <2>2, <2>3, <2>4 DEF Seen, RowsKeepFields
<1>2. IInv /\ LoneInv /\ [Next]_vars => [Kept]_vars
  BY <1>1
<1>3. Spec => [][Kept]_vars
  <2> HIDE DEF Kept
  <2> QED
    BY Invariance, <1>2, PTL DEF Spec
<1> QED
  BY <1>3 DEF ResolvedFieldsKept

\* An import that nothing overlaps adds no vendor that resembles one that is stored
\* or another that it adds (findOrCreateManyByName, mapToCanonicalNames).
THEOREM MerchantsAreOne == Spec => OneVendorPerMerchant
<1> DEFINE One == ~overlapped => \A i \in Imports : Commit(i) =>
                    \A m, n \in Names : /\ vendors[n] = NULL /\ vendors'[n] # NULL
                                        /\ m # n /\ vendors'[m] # NULL
                                        => <<m, n>> \notin Similar
<1>1. IInv /\ LoneInv => One
  <2>1. SUFFICES ASSUME IInv, LoneInv, ~overlapped, NEW i \in Imports, Commit(i),
                        NEW m \in Names, NEW n \in Names, vendors[n] = NULL,
                        vendors'[n] # NULL, m # n, vendors'[m] # NULL
                 PROVE  <<m, n>> \notin Similar
    OBVIOUS
  <2>2. AddedIsNew(vendors, imports[i])
    BY <2>1 DEF Commit, At, InProgress, LoneInv, LoneImport
  <2>3. /\ vendors'[m] = Seen(vendors, imports[i], m)
        /\ vendors'[n] = Seen(vendors, imports[i], n)
    BY <2>1, CommitAdvances
  <2>4. n \in Added(vendors, imports[i])
    BY <2>1, <2>3 DEF Seen, Added
  <2>5. vendors[m] # NULL \/ m \in Added(vendors, imports[i])
    BY <2>1, <2>3 DEF Seen, Added
  <2> QED
    BY <2>1, <2>2, <2>4, <2>5 DEF AddedIsNew
<1>2. IInv /\ LoneInv /\ [Next]_vars => [One]_vars
  BY <1>1
<1>3. Spec => [][One]_vars
  <2> HIDE DEF One
  <2> QED
    BY Invariance, <1>2, PTL DEF Spec
<1> QED
  BY <1>3 DEF OneVendorPerMerchant

-----------------------------------------------------------------------------
(* Promotions.                                                             *)

\* The first reads give rows as they are stored (ResolveKnownVendors).
LEMMA ResolveIsCurrent ==
  ASSUME TypeOK, NEW i \in Imports, NEW S \in SUBSET Descriptions, ResolveKnownVendors(i, S)
  PROVE  Current(vendors', imports'[i])
<1>1. PICK q : /\ Moves(i, q) /\ q.step \in {"classify", "promote"}
               /\ \A d \in Descriptions : q.found[d] # NULL =>
                    q.found[d].row = vendors[q.found[d].name]
  BY ResolveEffect
<1>2. imports'[i] = q /\ vendors' = vendors
  BY <1>1 DEF Moves, TypeOK, ResolveKnownVendors
<1> QED
  BY <1>1, <1>2 DEF Current, FoundIsCurrent, WritesAreWanted

\* Matching the names changes no row (findExistingByNames).
LEMMA FindIsCurrent ==
  ASSUME IInv, NEW i \in Imports, FindExistingByNames(i), Current(vendors, imports[i])
  PROVE  Current(vendors', imports'[i])
<1> DEFINE p == imports[i]
<1>1. p \in Import /\ p # NULL /\ ImportInv(vendors, p) /\ p.step = "classify" /\ vendors' = vendors
  BY DEF IInv, TypeOK, FindExistingByNames, At
<1>2. PICK q : /\ Moves(i, q) /\ FindsNames(q) /\ q.step = "write"
               /\ q.found = p.found /\ q.rows = p.rows
  BY FindEffect DEF IInv
<1>3. imports'[i] = q
  BY <1>2 DEF Moves, IInv, TypeOK
<1>4. \A n \in Names : q.rows[n] = NULL
  BY <1>1, <1>2 DEF ImportInv, HoldsBackInTransaction
<1>5. FoundIsCurrent(vendors, q)
  BY <1>1, <1>2 DEF Current, FoundIsCurrent
<1>6. WritesAreWanted(vendors, q)
  BY <1>2, <1>4 DEF WritesAreWanted, FindsNames
<1> QED
  BY <1>1, <1>3, <1>5, <1>6 DEF Current

\* The commit stores what the import sees, and a promotion is of what was found.
LEMMA CommitIsCurrent ==
  ASSUME IInv, NEW i \in Imports, Commit(i), Current(vendors, imports[i])
  PROVE  Current(vendors', imports'[i])
<1> DEFINE p == imports[i]
           q == [p EXCEPT !.step = "promote", !.found = Promotable(@),
                          !.canonical = [d \in Descriptions |-> NULL],
                          !.rows = [n \in Names |-> NULL],
                          !.links = [d \in Descriptions |-> NULL]]
<1>1. p \in Import /\ p # NULL /\ p.step = "link" /\ imports' = [imports EXCEPT ![i] = q]
  BY DEF IInv, TypeOK, Commit, At
<1>2. \A n \in Names : vendors'[n] = Seen(vendors, p, n)
  BY CommitAdvances
<1>3. imports'[i] = q
  BY <1>1 DEF IInv, TypeOK
<1>4. q.step = "promote" /\ q.found = Promotable(p.found)
  BY <1>1 DEF Import
<1> HIDE DEF q
<1>5. FoundIsCurrent(vendors', q)
  <2> SUFFICES ASSUME NEW d \in Descriptions, q.found[d] # NULL
               PROVE  q.found[d].row = vendors'[q.found[d].name]
    BY <1>4 DEF FoundIsCurrent
  <2>1. q.found[d] = p.found[d] /\ p.found[d] # NULL
    BY <1>4 DEF Promotable
  <2>2. p.found[d].name \in Names
    BY <1>1, <2>1 DEF Import, Vendor
  <2>3. p.found[d].row = Seen(vendors, p, p.found[d].name)
    BY <1>1, <2>1 DEF Current, FoundIsCurrent
  <2> QED
    BY <1>2, <2>1, <2>2, <2>3
<1> QED
  BY <1>3, <1>4, <1>5 DEF Current, WritesAreWanted

\* A promoted vendor is left, and the others are as they were.
LEMMA PromoteIsCurrent ==
  ASSUME IInv, NEW i \in Imports, NEW d \in Descriptions, NEW promotion \in Promotions,
         PromoteToSubscription(i, d, promotion), Current(vendors, imports[i])
  PROVE  Current(vendors', imports'[i])
<1> DEFINE p == imports[i]
           v == p.found[d]
           found == [e \in Descriptions |->
                       IF p.found[e] # NULL /\ p.found[e].name = v.name THEN NULL ELSE p.found[e]]
           q == [p EXCEPT !.found = found]
<1>1. /\ p \in Import /\ p # NULL /\ p.step = "promote"
      /\ p.found \in [Descriptions -> Vendor \cup {NULL}] /\ v # NULL
  BY DEF IInv, TypeOK, PromoteToSubscription, At, Import
<1>2. imports' = [imports EXCEPT ![i] = q]
  BY DEF PromoteToSubscription
<1>3. imports'[i] = q
  BY <1>2 DEF IInv, TypeOK
<1>4. \A n \in Names \ {v.name} : vendors'[n] = vendors[n]
  BY DEF PromoteToSubscription, IInv, TypeOK
<1>5. q.step = "promote" /\ q.found = found
  BY <1>1 DEF Import
<1>6. \A e \in Descriptions : found[e] # NULL =>
        found[e] = p.found[e] /\ p.found[e] # NULL /\ p.found[e].name # v.name
  OBVIOUS
<1> HIDE DEF q, found
<1>7. FoundIsCurrent(vendors', q)
  <2> SUFFICES ASSUME NEW e \in Descriptions, found[e] # NULL
               PROVE  found[e].row = vendors'[found[e].name]
    BY <1>5 DEF FoundIsCurrent
  <2>1. found[e] = p.found[e] /\ p.found[e] # NULL /\ p.found[e].name # v.name
    BY <1>6
  <2>2. p.found[e].name \in Names
    BY <1>1, <2>1 DEF Vendor
  <2>3. p.found[e].row = vendors[p.found[e].name]
    BY <1>1, <2>1 DEF Current, FoundIsCurrent
  <2> QED
    BY <1>4, <2>1, <2>2, <2>3
<1> QED
  BY <1>3, <1>5, <1>7 DEF Current, WritesAreWanted

\* What a lone import was given stays what is stored, if it has one object of each vendor.
LEMMA CurrentStep ==
  ASSUME IInv, LoneInv, LoneInv', CurrentInv, OneRowPerVendor', [Next]_vars
  PROVE  CurrentInv'
<1> SUFFICES ASSUME ~overlapped', NEW i \in Imports, imports'[i] # NULL
             PROVE  Current(vendors', imports'[i])
  BY DEF CurrentInv, InProgress
<1>1. TypeOK
  BY DEF IInv
<1>2. i \in InProgress' /\ \A j \in InProgress' : j = i
  BY DEF InProgress, LoneInv
<1>3. ASSUME NEW S \in SUBSET Descriptions, ResolveKnownVendors(i, S)
      PROVE  Current(vendors', imports'[i])
  BY <1>1, <1>3, ResolveIsCurrent
<1>4. ASSUME overlapped' = overlapped, i \in InProgress
      PROVE  LoneImport(vendors, imports[i]) /\ Current(vendors, imports[i])
  BY <1>4 DEF LoneInv, CurrentInv
<1>5. ASSUME \/ FindExistingByNames(i) \/ BackfillMissingClassification(i)
             \/ CreateMissingByNames(i) \/ FindOrCreateManyByName(i) \/ LinkDescription(i)
             \/ Commit(i)
             \/ \E d \in Descriptions : \E promotion \in Promotions :
                  PromoteToSubscription(i, d, promotion)
      PROVE  Current(vendors', imports'[i])
  <2>1. overlapped' = overlapped /\ i \in InProgress
    BY <1>5 DEF FindExistingByNames, BackfillMissingClassification, CreateMissingByNames,
                FindOrCreateManyByName, LinkDescription, Commit, PromoteToSubscription,
                At, InProgress
  <2>2. LoneImport(vendors, imports[i]) /\ Current(vendors, imports[i])
    BY <1>4, <2>1
  <2> QED
    BY <1>5, <2>2, FindIsCurrent, BackfillAdvances, CreateAdvances, FoundAdvances,
       LinkAdvances, CommitIsCurrent, PromoteIsCurrent
<1>6. ASSUME UNCHANGED <<vendors, imports, overlapped>>
      PROVE  Current(vendors', imports'[i])
  BY <1>4, <1>6 DEF InProgress
<1>7. ASSUME Finish(i) \/ Rollback(i)
      PROVE  FALSE
  BY <1>1, <1>7 DEF Finish, Rollback, Stop, TypeOK
<1>8. ASSUME NEW j \in Imports, j # i,
             ImportStep(j) \/ Rollback(j)
             \/ (\E S \in SUBSET Descriptions : ResolveKnownVendors(j, S))
             \/ (\E d \in Descriptions : \E promotion \in Promotions :
                   PromoteToSubscription(j, d, promotion))
      PROVE  FALSE
  <2>1. imports'[i] = imports[i]
    <3>1. imports \in [Imports -> Import \cup {NULL}]
      BY <1>1 DEF TypeOK
    <3>2. CASE FindExistingByNames(j)
      <4>1. PICK q : Moves(j, q)
        BY <1>1, <3>2, FindEffect
      <4> QED
        BY <1>8, <3>1, <4>1 DEF Moves
    <3>3. CASE BackfillMissingClassification(j) \/ CreateMissingByNames(j)
      BY <1>8, <3>1, <3>3 DEF BackfillMissingClassification, CreateMissingByNames
    <3>4. CASE FindOrCreateManyByName(j)
      <4> DEFINE p == imports[j]
                 canonical == {p.canonical[d] : d \in Classified(j)}
                 again(n) == MissingFields(p.match[n].row, p.defaults[n]) # {}
                 of(v, n) == IF p.match[n] # NULL /\ ~again(n) THEN p.match[n]
                             ELSE IF v[n] = NULL THEN NULL
                             ELSE [name |-> v[n], row |-> Sees(j)[v[n]]]
                 resolved(v) == {d \in Classified(j) : of(v, p.canonical[d]) # NULL}
                 found(v) == [d \in Descriptions |->
                                IF d \in resolved(v) THEN of(v, p.canonical[d]) ELSE p.found[d]]
                 next(v, l) == [imports EXCEPT
                                  ![j].step = "link", ![j].pending = l, ![j].found = found(v),
                                  ![j].defaults = [n \in Names |-> NULL],
                                  ![j].match = [n \in Names |-> NULL]]
      <4>1. \E v \in [canonical -> Names \cup {NULL}] :
              \E l \in InOrderOf(resolved(v), p.pending) : imports' = next(v, l)
        BY <3>4 DEF FindOrCreateManyByName
      <4>2. PICK v \in [canonical -> Names \cup {NULL}] :
              \E l \in InOrderOf(resolved(v), p.pending) : imports' = next(v, l)
        BY <4>1
      <4>3. PICK l \in InOrderOf(resolved(v), p.pending) : imports' = next(v, l)
        BY <4>2
      <4> HIDE DEF found, resolved, canonical
      <4> QED
        BY <1>8, <3>1, <4>3
    <3>5. CASE LinkDescription(j) \/ Commit(j)
      BY <1>8, <3>1, <3>5 DEF LinkDescription, Commit
    <3>6. CASE Finish(j) \/ Rollback(j)
      BY <1>8, <3>1, <3>6 DEF Finish, Rollback, Stop
    <3>7. CASE \E S \in SUBSET Descriptions : ResolveKnownVendors(j, S)
      BY <1>8, <3>1, <3>7 DEF ResolveKnownVendors
    <3>8. CASE \E d \in Descriptions : \E promotion \in Promotions :
                 PromoteToSubscription(j, d, promotion)
      BY <1>8, <3>1, <3>8 DEF PromoteToSubscription
    <3> QED
      BY <1>8, <3>2, <3>3, <3>4, <3>5, <3>6, <3>7, <3>8 DEF ImportStep
  <2>2. CASE \E S \in SUBSET Descriptions : ResolveKnownVendors(j, S)
    BY <2>1, <2>2 DEF ResolveKnownVendors, InProgress
  <2>3. CASE ~ \E S \in SUBSET Descriptions : ResolveKnownVendors(j, S)
    <3>1. j \in InProgress /\ overlapped' = overlapped
      BY <1>8, <2>3 DEF ImportStep, FindExistingByNames, BackfillMissingClassification,
         CreateMissingByNames, FindOrCreateManyByName, LinkDescription, Commit, Finish,
         Rollback, PromoteToSubscription, At, InProgress
    <3>2. i \in InProgress
      BY <2>1 DEF InProgress
    <3> QED
      BY <1>8, <3>1, <3>2 DEF LoneInv
  <2> QED
    BY <2>2, <2>3
<1>9. ASSUME NEW n \in Names, AssertNameIsAvailable(n)
      PROVE  Current(vendors', imports'[i])
  BY <1>9 DEF AssertNameIsAvailable, InProgress
<1>10. ASSUME CreateVendor
       PROVE  Current(vendors', imports'[i])
  <2>1. creating # NULL /\ imports' = imports /\ overlapped' = overlapped
    BY <1>10 DEF CreateVendor
  <2>2. InProgress = {}
    BY <2>1 DEF LoneInv
  <2> QED
    BY <2>1, <2>2 DEF InProgress
<1>11. ASSUME NEW d \in Descriptions, DeleteAlias(d) \/ \E v \in Names : CreateAlias(d, v)
       PROVE  Current(vendors', imports'[i])
  BY <1>6, <1>11 DEF DeleteAlias, CreateAlias
<1>12. ASSUME UNCHANGED vars
       PROVE  Current(vendors', imports'[i])
  BY <1>6, <1>12 DEF vars
<1> QED
  BY <1>3, <1>5, <1>7, <1>8, <1>9, <1>10, <1>11, <1>12 DEF Next, ImportStep

\* When an import that nothing overlaps has one object of each vendor, a promotion replaces
\* only a generic service type and an empty cadence.  The condition is needed: a description
\* without an answer keeps the vendor as it was read before the same import filled it in.
THEOREM PromotionsReplaceBlanks == Spec /\ []OneRowPerVendor => PromotionsKeepTags
<1> DEFINE Kept == ~overlapped =>
             \A i \in Imports, d \in Descriptions, promotion \in Promotions :
               PromoteToSubscription(i, d, promotion) => \A n \in Stored(vendors) :
                 /\ vendors[n].cycle # NULL => vendors'[n].cycle = vendors[n].cycle
                 /\ vendors[n].service \notin {NULL, "NONE"} =>
                      vendors'[n].service = vendors[n].service
<1>1. Init => CurrentInv
  BY DEF Init, CurrentInv, InProgress
<1>2. /\ IInv /\ LoneInv /\ LoneInv' /\ CurrentInv /\ OneRowPerVendor' /\ [Next]_vars
      => CurrentInv'
  BY CurrentStep
<1>3. IInv /\ CurrentInv => Kept
  <2> SUFFICES ASSUME IInv, CurrentInv, ~overlapped, NEW i \in Imports,
                      NEW d \in Descriptions, NEW promotion \in Promotions,
                      PromoteToSubscription(i, d, promotion), NEW n \in Stored(vendors)
               PROVE  /\ vendors[n].cycle # NULL => vendors'[n].cycle = vendors[n].cycle
                      /\ vendors[n].service \notin {NULL, "NONE"} =>
                           vendors'[n].service = vendors[n].service
    OBVIOUS
  <2> DEFINE v == imports[i].found[d]
  <2>1. /\ imports[i] # NULL /\ imports[i].step = "promote" /\ v # NULL
        /\ i \in InProgress
    BY DEF PromoteToSubscription, At, InProgress
  <2>2. v.row = vendors[v.name]
    BY <2>1 DEF CurrentInv, Current, FoundIsCurrent
  <2>3. vendors \in [Names -> Row \cup {NULL}] /\ n \in Names /\ vendors[n] \in Row
    BY DEF IInv, TypeOK, Stored
  <2>4. CASE n # v.name
    BY <2>3, <2>4 DEF PromoteToSubscription
  <2>5. CASE n = v.name
    <3>1. /\ vendors'[n].cycle = IF v.row.cycle # NULL THEN v.row.cycle ELSE promotion.cycle
          /\ vendors'[n].service =
               IF v.row.service \in {NULL, "NONE"} /\ promotion.service # NULL
                 THEN promotion.service ELSE v.row.service
      BY <2>3, <2>5 DEF PromoteToSubscription, Row
    <3> QED
      BY <2>2, <2>5, <3>1
  <2> QED
    BY <2>4, <2>5
<1>4. IInv /\ CurrentInv /\ [Next]_vars => [Kept]_vars
  BY <1>3
<1>5. Spec /\ []OneRowPerVendor => [][Kept]_vars
  <2> HIDE DEF Kept
  <2> QED
    BY <1>1, <1>2, <1>4, Invariance, PTL DEF Spec
<1> QED
  BY <1>5 DEF PromotionsKeepTags
=============================================================================
