------------------------------ MODULE SyncWindow ------------------------------
(***************************************************************************)
(* What the syncs of one bank connection read: a bank shows a charge as    *)
(* pending and later as completed, often with a new identifier, and posts  *)
(* some charges days after they were made.  The window of a sync is that   *)
(* of resolveSyncStartDate; what is kept of it is that of toImportRows     *)
(* (src/modules/bank-connection/utilities).                                *)
(*                                                                         *)
(* Who may claim a sync, and reports that come after the claim was lost,   *)
(* are those of BankConnection; here a sync that takes longer than Run     *)
(* ends without a report.  The import of a sync is that of StatementImport *)
(* and ends, for this module, with its rows stored or with a failure.      *)
(***************************************************************************)
EXTENDS Integers

CONSTANTS
    Charges,
    Credits, Unreadable,    \* of the charges: not a debit; without description or amount
    INITIAL_HISTORY, RESYNC_OVERLAP,    \* of BANK_SYNC_WINDOWS
    Delay,                  \* how long after its date the bank may post a charge
    Run,                    \* how long after the scrape its report may come
    MaxTime,                \* bound: when the clock stops
    NULL

ASSUME WindowAssumption ==
    /\ Credits \subseteq Charges /\ Unreadable \subseteq Charges
    /\ INITIAL_HISTORY \in Nat /\ RESYNC_OVERLAP \in Nat
    /\ Delay \in Nat /\ Run \in Nat /\ MaxTime \in Nat
    /\ Delay + Run <= RESYNC_OVERLAP

VARIABLES
    now,
    charge,         \* what the bank shows of each charge
    lastSyncedAt,   \* of the connection, or NULL
    sync,           \* the sync that is under way
    queued,         \* the rows of imports that were started and have not ended
    stored,         \* the transactions
    lost,           \* the rows of imports that failed
    read            \* when the last sync that is recorded read the bank, and how far back the first did

vars == <<now, charge, lastSyncedAt, sync, queued, stored, lost, read>>

-----------------------------------------------------------------------------
Times == 0 .. MaxTime
Status == {"PENDING", "COMPLETED"}

\* A row of a scrape: a charge under the identifier it has in that status.
Row == [charge : Charges, status : Status]
Charge == [date : Times, status : Status, postedAt : Times]
Read == [at : Times, from : Int]

ASSUME NullAssumption == NULL \notin Int /\ NULL \notin Charge /\ NULL \notin Read

Idle == [stage |-> "idle", startDate |-> 0, scrapedAt |-> 0, rows |-> {}]

\* Mutant: pending charges are kept.
DebitsOnly(row) == row.charge \notin Credits

IsImportableSpend(row) == row.status = "COMPLETED" /\ row.charge \notin Credits

ToImportRows(rows) == {row \in rows : IsImportableSpend(row) /\ row.charge \notin Unreadable}

\* Mutant: a sync starts where the last one ended.
ResumeAt(last) == IF last = NULL THEN now - INITIAL_HISTORY ELSE last

ResolveSyncStartDate(last) ==
    IF last = NULL THEN now - INITIAL_HISTORY ELSE last - RESYNC_OVERLAP

\* What the bank shows of the charges made since the start date.
Shown(startDate) ==
    {row \in Row : /\ charge[row.charge] # NULL
                   /\ charge[row.charge].date >= startDate
                   /\ charge[row.charge].status = row.status}

-----------------------------------------------------------------------------
Tick ==
    /\ now < MaxTime
    /\ sync.stage = "scraped" => now < sync.scrapedAt + Run
    /\ now' = now + 1
    /\ UNCHANGED <<charge, lastSyncedAt, sync, queued, stored, lost, read>>

Buy(c) ==
    /\ charge[c] = NULL
    /\ charge' = [charge EXCEPT ![c] = [date |-> now, status |-> "PENDING", postedAt |-> now]]
    /\ UNCHANGED <<now, lastSyncedAt, sync, queued, stored, lost, read>>

\* The bank completes a charge, or posts one that was never pending, with its own date.
Complete(c, date) ==
    /\ date <= now /\ now <= date + Delay
    /\ charge[c] # NULL => charge[c].status = "PENDING" /\ charge[c].date = date
    /\ charge' = [charge EXCEPT ![c] = [date |-> date, status |-> "COMPLETED", postedAt |-> now]]
    /\ UNCHANGED <<now, lastSyncedAt, sync, queued, stored, lost, read>>

\* toClaimedBankConnection.
Claim ==
    /\ sync.stage = "idle"
    /\ sync' = [Idle EXCEPT !.stage = "claimed",
                            !.startDate = ResolveSyncStartDate(lastSyncedAt)]
    /\ UNCHANGED <<now, charge, lastSyncedAt, queued, stored, lost, read>>

Scrape ==
    /\ sync.stage = "claimed"
    /\ sync' = [sync EXCEPT !.stage = "scraped", !.scrapedAt = now,
                            !.rows = Shown(sync.startDate)]
    /\ UNCHANGED <<now, charge, lastSyncedAt, queued, stored, lost, read>>

\* reportSuccess; the connection is not updated when the program stops or the database
\* fails after startBankImport.
ReportSuccess(updated) ==
    /\ sync.stage = "scraped"
    /\ queued' = queued \cup ToImportRows(sync.rows)
    /\ IF updated
         THEN /\ lastSyncedAt' = now
              /\ read' = [at |-> sync.scrapedAt,
                          from |-> IF read = NULL THEN sync.startDate ELSE read.from]
         ELSE UNCHANGED <<lastSyncedAt, read>>
    /\ sync' = Idle
    /\ UNCHANGED <<now, charge, stored, lost>>

\* reportFailure, or no report at all.
GiveUp ==
    /\ sync.stage # "idle"
    /\ sync' = Idle
    /\ UNCHANGED <<now, charge, lastSyncedAt, queued, stored, lost, read>>

\* The imports end: their rows are stored, unless they are there, or they fail.
Import(rows, failed) ==
    /\ rows # {} /\ rows \subseteq queued
    /\ queued' = queued \ rows
    /\ IF failed
         THEN lost' = lost \cup rows /\ UNCHANGED stored
         ELSE stored' = stored \cup rows /\ UNCHANGED lost
    /\ UNCHANGED <<now, charge, lastSyncedAt, sync, read>>

Init ==
    /\ now = 0
    /\ charge = [c \in Charges |-> NULL]
    /\ lastSyncedAt = NULL
    /\ sync = Idle
    /\ queued = {} /\ stored = {} /\ lost = {}
    /\ read = NULL

Next ==
    \/ Tick \/ Claim \/ Scrape \/ GiveUp
    \/ \E c \in Charges : Buy(c) \/ \E date \in Times : Complete(c, date)
    \/ \E updated \in BOOLEAN : ReportSuccess(updated)
    \/ \E rows \in SUBSET queued, failed \in BOOLEAN : Import(rows, failed)

Spec == Init /\ [][Next]_vars

-----------------------------------------------------------------------------
\* Every variable holds what the bank, the connection and the tables can hold.
TypeOK ==
    /\ now \in Times
    /\ charge \in [Charges -> Charge \cup {NULL}]
    /\ lastSyncedAt \in Times \cup {NULL}
    /\ sync \in [stage : {"idle", "claimed", "scraped"}, startDate : Int,
                 scrapedAt : Times, rows : SUBSET Row]
    /\ queued \subseteq Row /\ stored \subseteq Row /\ lost \subseteq Row
    /\ read \in Read \cup {NULL}

\* A charge is never stored both as it was pending and as it completed, nor is money that
\* came in (isImportableSpend: "they come back completed, often with a new identifier").
ChargesAreCompletedDebits ==
    /\ \A one, other \in stored : one.charge = other.charge => one = other
    /\ \A row \in stored : row.charge \notin Credits

Readable(c) == c \notin Credits \cup Unreadable

\* A charge that the bank had completed when the last recorded sync read it, however late
\* it was posted, is stored, on its way, or was in an import that failed: nothing falls
\* between the windows of two syncs (resolveSyncStartDate).
LateChargesAreCaught ==
    \A c \in Charges :
        (/\ charge[c] # NULL /\ charge[c].status = "COMPLETED" /\ Readable(c)
         /\ read # NULL /\ charge[c].postedAt < read.at /\ charge[c].date >= read.from)
            => [charge |-> c, status |-> "COMPLETED"] \in stored \cup queued \cup lost

=============================================================================
