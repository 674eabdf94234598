--------------------------- MODULE SyncWindowProofs ---------------------------
(***************************************************************************)
(* Proofs about SyncWindow: type correctness, and that neither a charge    *)
(* that comes late nor one that changes its identifier escapes the syncs,  *)
(* for any number of charges, syncs and imports.                           *)
(*                                                                         *)
(* LateChargesAreCaught speaks of the last sync that was recorded, so it   *)
(* is inductive only with what links the sync under way to that one:       *)
(* WindowReachesBack (its window begins far enough before the last time    *)
(* the bank was read), ScrapeIsComplete (what it scraped has all that the  *)
(* bank had completed) and PostedInTime (how late the bank may be).        *)
(***************************************************************************)
EXTENDS SyncWindow, TLAPS

\* The connection has a time of its last sync when a sync is recorded, at most Run later
\* than that sync read the bank, which is past.
RecordedInTime ==
    /\ lastSyncedAt = NULL <=> read = NULL
    /\ read # NULL => read.at <= now /\ lastSyncedAt <= read.at + Run

\* A sync under way asks for all that the bank may still have posted since the last one
\* that is recorded read it, and it reports in time.
WindowReachesBack ==
    sync.stage # "idle" =>
        /\ read # NULL => sync.startDate <= read.at - Delay
        /\ sync.stage = "scraped" => sync.scrapedAt <= now /\ now <= sync.scrapedAt + Run

\* A scrape has every charge in its window that the bank had completed before it.
ScrapeIsComplete ==
    sync.stage = "scraped" =>
        \A c \in Charges :
            (/\ charge[c] # NULL /\ charge[c].status = "COMPLETED"
             /\ charge[c].postedAt < sync.scrapedAt /\ charge[c].date >= sync.startDate)
                => [charge |-> c, status |-> "COMPLETED"] \in sync.rows

\* A charge was posted when it could be, at most Delay after its date.
PostedInTime ==
    \A c \in Charges : charge[c] # NULL =>
        charge[c].postedAt <= now /\ charge[c].postedAt <= charge[c].date + Delay

\* Only completed debits reach an import.
OnlySpend == \A row \in stored \cup queued \cup lost : IsImportableSpend(row)

WindowInv ==
    /\ TypeOK /\ RecordedInTime /\ WindowReachesBack /\ ScrapeIsComplete /\ PostedInTime
    /\ OnlySpend /\ LateChargesAreCaught

-----------------------------------------------------------------------------
\* What the constants are, and what NULL is not.
LEMMA Constants ==
    /\ Times \subseteq Int /\ 0 \in Times /\ MaxTime \in Nat
    /\ Delay \in Nat /\ Run \in Nat /\ RESYNC_OVERLAP \in Nat /\ INITIAL_HISTORY \in Nat
    /\ Delay + Run <= RESYNC_OVERLAP
    /\ NULL \notin Int /\ NULL \notin Charge /\ NULL \notin Read
  BY WindowAssumption, NullAssumption DEF Times

\* A sync that is claimed asks for an integer, and far enough back.
LEMMA StartReachesBack ==
    ASSUME TypeOK, RecordedInTime
    PROVE  /\ ResolveSyncStartDate(lastSyncedAt) \in Int
           /\ read # NULL => ResolveSyncStartDate(lastSyncedAt) <= read.at - Delay
  <1> USE Constants DEF TypeOK, RecordedInTime, ResolveSyncStartDate, Read
  <1>1. CASE lastSyncedAt = NULL
    BY <1>1
  <1>2. CASE lastSyncedAt # NULL
    <2>1. read # NULL /\ lastSyncedAt \in Int /\ read.at \in Int /\ lastSyncedAt <= read.at + Run
      BY <1>2
    <2>2. QED
      BY <1>2, <2>1
  <1>3. QED
    BY <1>1, <1>2

\* What is kept of a scrape is part of it, and only completed debits.
LEMMA KeptRows ==
    ASSUME NEW rows, rows \subseteq Row
    PROVE  /\ ToImportRows(rows) \subseteq Row
           /\ \A row \in ToImportRows(rows) : row \in rows /\ IsImportableSpend(row)
           /\ \A c \in Charges :
                [charge |-> c, status |-> "COMPLETED"] \in rows /\ Readable(c)
                    => [charge |-> c, status |-> "COMPLETED"] \in ToImportRows(rows)
  BY DEF ToImportRows, IsImportableSpend, Readable

\* The initial state.
LEMMA WindowInit == Init => WindowInv
  <1> SUFFICES ASSUME Init PROVE WindowInv
    OBVIOUS
  <1> USE Constants DEF Init, Idle
  <1>1. TypeOK
    BY DEF TypeOK
  <1>2. QED
    BY <1>1 DEF WindowInv, RecordedInTime, WindowReachesBack, ScrapeIsComplete, PostedInTime,
               OnlySpend, LateChargesAreCaught

-----------------------------------------------------------------------------
\* A step keeps every variable what it can be.
LEMMA TypeStep ==
    ASSUME TypeOK, RecordedInTime, Next
    PROVE  TypeOK'
  <1> USE Constants DEF TypeOK, Idle
  <1>1. CASE Tick
    BY <1>1, WindowAssumption DEF Tick, Times
  <1>2. ASSUME NEW c \in Charges, Buy(c) PROVE TypeOK'
    <2>1. [date |-> now, status |-> "PENDING", postedAt |-> now] \in Charge
      BY DEF Charge, Status
    <2>2. QED
      BY <1>2, <2>1 DEF Buy
  <1>3. ASSUME NEW c \in Charges, NEW date \in Times, Complete(c, date) PROVE TypeOK'
    <2>1. [date |-> date, status |-> "COMPLETED", postedAt |-> now] \in Charge
      BY DEF Charge, Status
    <2>2. QED
      BY <1>3, <2>1 DEF Complete
  <1>4. CASE Claim
    BY <1>4, StartReachesBack DEF Claim
  <1>5. CASE Scrape
    BY <1>5 DEF Scrape, Shown
  <1>6. ASSUME NEW updated \in BOOLEAN, ReportSuccess(updated) PROVE TypeOK'
    <2>1. queued' \subseteq Row /\ sync' = Idle
      BY <1>6, KeptRows DEF ReportSuccess
    <2>2. [at |-> sync.scrapedAt, from |-> IF read = NULL THEN sync.startDate ELSE read.from] \in Read
      BY DEF Read
    <2>3. lastSyncedAt' \in Times \cup {NULL} /\ read' \in Read \cup {NULL}
      BY <1>6, <2>2 DEF ReportSuccess
    <2>4. QED
      BY <1>6, <2>1, <2>3 DEF ReportSuccess
  <1>7. CASE GiveUp
    BY <1>7 DEF GiveUp
  <1>8. ASSUME NEW rows \in SUBSET queued, NEW failed \in BOOLEAN, Import(rows, failed)
        PROVE  TypeOK'
    BY <1>8 DEF Import
  <1>9. QED
    BY <1>1, <1>2, <1>3, <1>4, <1>5, <1>6, <1>7, <1>8 DEF Next

\* Only the report of a sync moves the time from which the next one counts, and it comes
\* within Run of its scrape.
LEMMA RecordedStep ==
    ASSUME WindowInv, Next
    PROVE  RecordedInTime'
  <1> USE Constants DEF WindowInv, TypeOK, RecordedInTime
  <1>1. CASE \E updated \in BOOLEAN : ReportSuccess(updated)
    <2>0. now' = now
      BY <1>1 DEF ReportSuccess
    <2>1. CASE UNCHANGED <<lastSyncedAt, read>>
      BY <2>0, <2>1
    <2>2. CASE /\ sync.stage = "scraped" /\ lastSyncedAt' = now
               /\ read' = [at |-> sync.scrapedAt,
                           from |-> IF read = NULL THEN sync.startDate ELSE read.from]
      <3>1. read' \in Read /\ read'.at = sync.scrapedAt
        BY <2>2 DEF Read
      <3>2. sync.scrapedAt <= now /\ now <= sync.scrapedAt + Run
        BY <2>2 DEF WindowReachesBack
      <3>3. read' # NULL /\ lastSyncedAt' # NULL
        BY <2>2, <3>1
      <3>4. QED
        BY <2>0, <2>2, <3>1, <3>2, <3>3
    <2>3. QED
      BY <1>1, <2>1, <2>2 DEF ReportSuccess
  <1>2. CASE UNCHANGED <<lastSyncedAt, read>> /\ now' >= now
    <2>1. now \in Int /\ now' \in Int
      BY TypeStep
    <2>2. read # NULL => read.at \in Int
      BY DEF Read
    <2>3. QED
      BY <1>2, <2>1, <2>2
  <1>3. QED
    BY <1>1, <1>2 DEF Next, Tick, Claim, Scrape, GiveUp, Buy, Complete, Import

\* A sync keeps its window, which reaches back before the last time the bank was read, and
\* the clock waits for its report.
LEMMA ReachStep ==
    ASSUME WindowInv, Next
    PROVE  WindowReachesBack'
  <1> USE Constants DEF WindowInv, TypeOK, WindowReachesBack
  <1>1. CASE Tick
    <2>1. now' = now + 1 /\ UNCHANGED <<sync, read>> /\ now \in Int
      BY <1>1 DEF Tick
    <2>2. sync.stage = "scraped" => now < sync.scrapedAt + Run /\ sync.scrapedAt \in Int
      BY <1>1 DEF Tick
    <2>3. QED
      BY <2>1, <2>2
  <1>2. CASE Claim
    BY <1>2, StartReachesBack DEF Claim, Idle
  <1>3. CASE Scrape
    BY <1>3 DEF Scrape
  <1>4. CASE sync' = Idle
    BY <1>4 DEF Idle
  <1>5. CASE UNCHANGED <<now, sync, read>>
    BY <1>5
  <1>6. Tick \/ Claim \/ Scrape \/ sync' = Idle \/ UNCHANGED <<now, sync, read>>
    BY DEF Next, Buy, Complete, ReportSuccess, GiveUp, Import
  <1>7. QED
    BY <1>1, <1>2, <1>3, <1>4, <1>5, <1>6

\* A charge that is completed after the scrape does not count for it.
LEMMA ScrapeStep ==
    ASSUME WindowInv, Next
    PROVE  ScrapeIsComplete'
  <1> USE Constants DEF WindowInv, TypeOK, ScrapeIsComplete
  <1>1. CASE Claim \/ sync' = Idle
    <2>1. sync'.stage # "scraped"
      <3>1. CASE Claim
        <4>1. sync' = [Idle EXCEPT !.stage = "claimed",
                                   !.startDate = ResolveSyncStartDate(lastSyncedAt)]
          BY <3>1 DEF Claim
        <4>2. QED
          BY <4>1 DEF Idle
      <3>2. CASE sync' = Idle
        BY <3>2 DEF Idle
      <3>3. QED
        BY <1>1, <3>1, <3>2
    <2>2. QED
      BY <2>1
  <1>2. CASE Scrape
    BY <1>2 DEF Scrape, Shown, Row, Status
  <1>3. ASSUME NEW c \in Charges, UNCHANGED sync,
               \/ Buy(c)
               \/ \E date \in Times : Complete(c, date)
        PROVE  ScrapeIsComplete'
    <2>1. /\ charge' = [charge EXCEPT ![c] = charge'[c]]
          /\ charge'[c].postedAt = now
      BY <1>3 DEF Buy, Complete
    <2>2. sync.stage = "scraped" => sync.scrapedAt <= now
      BY DEF WindowReachesBack
    <2>3. QED
      BY <1>3, <2>1, <2>2
  <1>4. CASE UNCHANGED <<charge, sync>>
    BY <1>4
  <1>5. QED
    BY <1>1, <1>2, <1>3, <1>4 DEF Next, Tick, Buy, Complete, ReportSuccess, GiveUp, Import

\* The bank keeps its delay.
LEMMA PostedStep ==
    ASSUME WindowInv, Next
    PROVE  PostedInTime'
  <1> USE Constants DEF WindowInv, TypeOK, PostedInTime
  <1>0. now \in Int /\ \A c \in Charges : charge[c] # NULL => charge[c].postedAt \in Int
    BY DEF Charge
  <1>1. CASE Tick
    <2>1. now' = now + 1 /\ charge' = charge
      BY <1>1 DEF Tick
    <2>2. QED
      BY <1>0, <2>1
  <1>2. ASSUME NEW c \in Charges,
               \/ Buy(c)
               \/ \E date \in Times : Complete(c, date)
        PROVE  PostedInTime'
    <2>1. now' = now /\ charge' = [charge EXCEPT ![c] = charge'[c]]
      BY <1>2 DEF Buy, Complete
    <2>2. charge'[c].postedAt = now /\ now <= charge'[c].date + Delay
      BY <1>2 DEF Buy, Complete
    <2>3. QED
      BY <2>1, <2>2
  <1>3. CASE UNCHANGED <<now, charge>>
    BY <1>3
  <1>4. QED
    BY <1>1, <1>2, <1>3 DEF Next, Claim, Scrape, ReportSuccess, GiveUp, Import

\* Imports get completed debits and store nothing else.
LEMMA SpendStep ==
    ASSUME WindowInv, Next
    PROVE  OnlySpend'
  <1> USE DEF WindowInv, TypeOK, OnlySpend, IsImportableSpend
  <1>1. ASSUME NEW updated \in BOOLEAN, ReportSuccess(updated) PROVE OnlySpend'
    BY <1>1, KeptRows DEF ReportSuccess
  <1>2. ASSUME NEW rows \in SUBSET queued, NEW failed \in BOOLEAN, Import(rows, failed)
        PROVE  OnlySpend'
    BY <1>2 DEF Import
  <1>3. CASE UNCHANGED <<queued, stored, lost>>
    BY <1>3
  <1>4. QED
    BY <1>1, <1>2, <1>3 DEF Next, Tick, Claim, Scrape, GiveUp, Buy, Complete

\* The heart of the proof: what a recorded sync did not find, an earlier one did.
LEMMA CaughtStep ==
    ASSUME WindowInv, Next
    PROVE  LateChargesAreCaught'
  <1> USE Constants DEF WindowInv, TypeOK, LateChargesAreCaught
  <1>1. ASSUME NEW updated \in BOOLEAN, ReportSuccess(updated) PROVE LateChargesAreCaught'
    <2> SUFFICES ASSUME NEW c \in Charges,
                        charge'[c] # NULL, charge'[c].status = "COMPLETED", Readable(c),
                        read' # NULL, charge'[c].postedAt < read'.at,
                        charge'[c].date >= read'.from
                 PROVE  [charge |-> c, status |-> "COMPLETED"] \in stored' \cup queued' \cup lost'
      OBVIOUS
    <2>1. /\ charge' = charge /\ stored' = stored /\ lost' = lost
          /\ queued' = queued \cup ToImportRows(sync.rows)
          /\ sync.stage = "scraped"
      BY <1>1 DEF ReportSuccess
    <2>2. CASE read' = read
      BY <2>1, <2>2
    <2>3. CASE read' # read
      <3>1. /\ read'.at = sync.scrapedAt
            /\ read'.from = IF read = NULL THEN sync.startDate ELSE read.from
        BY <1>1, <2>3 DEF ReportSuccess
      <3>2. CASE read # NULL /\ charge[c].postedAt < read.at
        BY <2>1, <3>1, <3>2
      <3>3. CASE read = NULL \/ charge[c].postedAt >= read.at
        <4>1. charge[c].date >= sync.startDate
          <5>1. CASE read = NULL
            BY <2>1, <3>1, <5>1
          <5>2. CASE read # NULL
            <6>1. /\ read \in Read /\ read.at \in Int /\ sync.startDate \in Int
                  /\ charge[c] \in Charge /\ charge[c].postedAt \in Int /\ charge[c].date \in Int
              BY <2>1, <5>2 DEF Read, Charge
            <6>2. sync.startDate <= read.at - Delay
              BY <2>1, <5>2 DEF WindowReachesBack
            <6>3. charge[c].postedAt <= charge[c].date + Delay
              BY <2>1 DEF PostedInTime
            <6>4. QED
              BY <3>3, <5>2, <6>1, <6>2, <6>3
          <5>3. QED
            BY <5>1, <5>2
        <4>2. [charge |-> c, status |-> "COMPLETED"] \in sync.rows
          BY <2>1, <3>1, <4>1 DEF ScrapeIsComplete
        <4>3. [charge |-> c, status |-> "COMPLETED"] \in ToImportRows(sync.rows)
          BY <4>2, KeptRows
        <4>4. QED
          BY <2>1, <4>3
      <3>4. charge[c].postedAt \in Int /\ (read # NULL => read.at \in Int)
        BY <2>1 DEF Read, Charge
      <3>5. QED
        BY <3>2, <3>3, <3>4
    <2>4. QED
      BY <2>2, <2>3
  <1>2. ASSUME NEW c \in Charges,
               \/ Buy(c)
               \/ \E date \in Times : Complete(c, date)
        PROVE  LateChargesAreCaught'
    <2>1. /\ charge' = [charge EXCEPT ![c] = charge'[c]] /\ charge'[c].postedAt = now
          /\ UNCHANGED <<read, stored, queued, lost>>
      BY <1>2 DEF Buy, Complete
    <2>2. read # NULL => read.at <= now /\ read.at \in Int
      BY DEF RecordedInTime, Read
    <2>3. ASSUME NEW d \in Charges, d # c PROVE charge'[d] = charge[d]
      BY <2>1, <2>3
    <2>4. read # NULL => ~(charge'[c].postedAt < read.at)
      BY <2>1, <2>2
    <2>5. QED
      BY <2>1, <2>3, <2>4
  <1>3. ASSUME NEW rows \in SUBSET queued, NEW failed \in BOOLEAN, Import(rows, failed)
        PROVE  LateChargesAreCaught'
    <2>1. /\ UNCHANGED <<charge, read>>
          /\ stored' \cup queued' \cup lost' = stored \cup queued \cup lost
      BY <1>3 DEF Import
    <2>2. QED
      BY <2>1
  <1>4. CASE UNCHANGED <<charge, read, stored, queued, lost>>
    BY <1>4
  <1>5. QED
    BY <1>1, <1>2, <1>3, <1>4 DEF Next, Tick, Claim, Scrape, GiveUp

-----------------------------------------------------------------------------
\* WindowInv is an invariant.
LEMMA WindowIsInvariant == Spec => []WindowInv
  <1>1. ASSUME WindowInv, [Next]_vars PROVE WindowInv'
    <2>1. CASE Next
      BY <1>1, <2>1, TypeStep, RecordedStep, ReachStep, ScrapeStep, PostedStep, SpendStep, CaughtStep
         DEF WindowInv
    <2>2. CASE UNCHANGED vars
      BY <1>1, <2>2 DEF vars, WindowInv, TypeOK, RecordedInTime, WindowReachesBack,
         ScrapeIsComplete, PostedInTime, OnlySpend, LateChargesAreCaught
    <2>3. QED
      BY <1>1, <2>1, <2>2
  <1>2. QED
    BY <1>1, WindowInit, PTL DEF Spec

\* Every variable holds what the bank, the connection and the tables can hold.
THEOREM TypeCorrect == Spec => []TypeOK
  BY WindowIsInvariant, PTL DEF WindowInv

\* A charge that was completed before the last recorded sync read the bank is never out of
\* reach, as long as the bank's delay and the time of a report fit into the overlap; for any
\* number of syncs, some of which fail or are not recorded.
THEOREM NothingFallsBetweenWindows == Spec => []LateChargesAreCaught
  BY WindowIsInvariant, PTL DEF WindowInv

\* Nothing but a completed debit is stored, so no charge under two identifiers.
THEOREM OnlyCompletedDebits == Spec => []ChargesAreCompletedDebits
  <1>1. WindowInv => ChargesAreCompletedDebits
    BY DEF WindowInv, TypeOK, OnlySpend, IsImportableSpend, ChargesAreCompletedDebits, Row
  <1>2. QED
    BY <1>1, WindowIsInvariant, PTL
=============================================================================
