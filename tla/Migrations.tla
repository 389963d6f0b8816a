------------------------------- MODULE Migrations -------------------------------
(***************************************************************************)
(* The migrations at the start of a server (db.py, _apply_migrations) and  *)
(* the operator's commands (scripts/migrate.py): under yoyo's lock the     *)
(* ledger is compared with the files, a snapshot taken, the pending        *)
(* migrations tried on a copy, applied one by one, each in a transaction   *)
(* of its own, and recorded in the ledger at the end, in another.          *)
(*                                                                         *)
(* A file's text is one of Texts. What a text does is in Breaks (it fails  *)
(* on these data), Loses (it takes rows away), Shows (migration_lint.py    *)
(* sees in it what takes rows away) and Declares (it says so in a header). *)
(***************************************************************************)
EXTENDS Integers, FiniteSets

CONSTANTS Migs,      \* the migrations, in their order: 1 .. n
          LedgerMig, \* the one that creates the table migration_ledger
          Texts, Breaks, Loses, Shows, Declares,
          Processes,
          MaxEdits,  \* bound: the edits of files
          MaxCrashes \* bound

ASSUME MigrationsAssumption ==
    /\ Migs \subseteq Nat /\ LedgerMig \in Migs /\ MaxEdits \in Nat /\ MaxCrashes \in Nat
    /\ "nobody" \notin Processes
    /\ Breaks \subseteq Texts /\ Loses \subseteq Texts /\ Shows \subseteq Texts /\ Declares \subseteq Texts

VARIABLES
    files,   \* the text of each migration, or Absent: the branch that is checked out
    ran,     \* the text that each applied migration had when it was applied
    ledger,  \* the text that each migration has in the ledger
    saved,   \* the premigration snapshots: what had been applied then
    lock,    \* yoyo's lock row: who holds it, or Nobody
    proc,    \* the start under way in each process
    touched, \* the migrations whose file was edited after they were applied and
             \* before they were recorded, or that an operator has re-marked
    edits, crashes

migrationVars == <<files, ran, ledger, saved, lock, proc, touched, edits, crashes>>

Absent == "absent"
Nobody == "nobody"
Down == [at |-> "down", pending |-> {}, fresh |-> FALSE, led |-> FALSE]

MigrationInit ==
    /\ files \in [Migs -> Texts \union {Absent}] /\ files[LedgerMig] # Absent
    /\ ran = [m \in {} |-> Absent] /\ ledger = [m \in {} |-> Absent]
    /\ saved = {} /\ lock = Nobody
    /\ proc = [p \in Processes |-> Down]
    /\ touched = {} /\ edits = 0 /\ crashes = 0

Applied == DOMAIN ran
LedgerExists == LedgerMig \in Applied
Present == {m \in Migs : files[m] # Absent}
Record(S) == [m \in DOMAIN ledger \union S |-> IF m \in S THEN files[m] ELSE ledger[m]]
NowApplied(m) == ran' = [k \in Applied \union {m} |-> IF k = m THEN files[m] ELSE ran[k]]

UnderWay == {"verify", "snapshot", "rehearse", "apply"}
Go(p, at) == proc' = [proc EXCEPT ![p].at = at]
\* SystemExit, or the end: the lock's row goes with the block.
Leave(p, why) == proc' = [proc EXCEPT ![p] = [Down EXCEPT !.at = why]] /\ lock' = Nobody

--------------------------------------------------------------------------------
Begin(p) ==
    /\ proc[p].at \notin UnderWay /\ lock = Nobody
    /\ lock' = p
    /\ proc' = [proc EXCEPT ![p] =
                  [at |-> IF Applied = {} THEN "apply" ELSE "verify", fresh |-> Applied = {},
                   pending |-> Present \ Applied, led |-> LedgerExists]]
    /\ UNCHANGED <<files, ran, ledger, saved, touched, edits, crashes>>

\* verify_migration_ledger: every entry whose file is there.
Drifted_Pending(p) == {m \in DOMAIN ledger \intersect proc[p].pending : files[m] # ledger[m]}
Drifted(p) == {m \in DOMAIN ledger \intersect Present : files[m] # ledger[m]}

\* _backfill_migration_ledger: what was applied and is not recorded, with the
\* text of now.
Unrecorded == (Applied \intersect Present) \ DOMAIN ledger

Verify_NoBackfill(p) ==
    /\ proc[p].at = "verify"
    /\ IF proc[p].led /\ Drifted(p) # {} THEN Leave(p, "stopped") /\ UNCHANGED ledger
       ELSE /\ UNCHANGED ledger
            /\ IF proc[p].pending = {} THEN Leave(p, "up")
               ELSE Go(p, "snapshot") /\ UNCHANGED lock
    /\ UNCHANGED <<files, ran, saved, touched, edits, crashes>>

Verify(p) ==
    /\ proc[p].at = "verify"
    /\ IF proc[p].led /\ Drifted(p) # {} THEN Leave(p, "stopped") /\ UNCHANGED ledger
       ELSE /\ ledger' = IF proc[p].led THEN Record(Unrecorded) ELSE ledger
            /\ IF proc[p].pending = {} THEN Leave(p, "up")
               ELSE Go(p, "snapshot") /\ UNCHANGED lock
    /\ UNCHANGED <<files, ran, saved, touched, edits, crashes>>

\* A snapshot that fails ends the start.
Snapshot(p) ==
    /\ proc[p].at = "snapshot"
    /\ \/ saved' = saved \union {Applied} /\ Go(p, "rehearse") /\ UNCHANGED lock
       \/ Leave(p, "stopped") /\ UNCHANGED saved
    /\ UNCHANGED <<files, ran, ledger, touched, edits, crashes>>

\* dry_run_migrations, with migration_lint's verdict on the pending files.
Passes_AnyDeclared(S) ==
    LET texts == {files[m] : m \in S}
    IN  /\ texts \intersect Breaks = {}
        /\ (texts \intersect Loses = {} \/ texts \intersect Shows = {} \/ texts \intersect Declares # {})
Passes(S) ==
    LET texts == {files[m] : m \in S}
    IN  /\ texts \intersect Breaks = {}
        /\ (texts \intersect Loses = {} \/ texts \intersect Shows \subseteq Declares)

Rehearse(p) ==
    /\ proc[p].at = "rehearse"
    /\ IF Passes(proc[p].pending) THEN Go(p, "apply") /\ UNCHANGED lock ELSE Leave(p, "stopped")
    /\ UNCHANGED <<files, ran, ledger, saved, touched, edits, crashes>>

\* apply_one, in their order; the first that fails ends the start.
Apply(p) ==
    /\ proc[p].at = "apply"
    /\ \E m \in proc[p].pending \ Applied :
          /\ \A k \in proc[p].pending \ Applied : m <= k
          /\ IF files[m] \in Breaks THEN Leave(p, "stopped") /\ UNCHANGED ran
             ELSE NowApplied(m) /\ UNCHANGED <<lock, proc>>
    /\ UNCHANGED <<files, ledger, saved, touched, edits, crashes>>

\* _record_content_hashes in a transaction, and, when the table is new, the backfill.
RecordApplied(p) ==
    /\ proc[p].at = "apply" /\ proc[p].pending \subseteq Applied
    /\ ledger' = IF ~LedgerExists THEN ledger
                 ELSE Record(proc[p].pending \union
                             (IF ~proc[p].fresh /\ ~proc[p].led THEN Unrecorded ELSE {}))
    /\ Leave(p, "up")
    /\ UNCHANGED <<files, ran, saved, touched, edits, crashes>>

--------------------------------------------------------------------------------
\* The files change: a checkout, an edit. Not under a start.
Edit(m, text) ==
    /\ edits < MaxEdits /\ lock = Nobody /\ files[m] # text
    /\ files' = [files EXCEPT ![m] = text]
    /\ touched' = touched \union ({m} \intersect Unrecorded)
    /\ edits' = edits + 1
    /\ UNCHANGED <<ran, ledger, saved, lock, proc, crashes>>

\* scripts/migrate.py re-mark: the entry takes the text of now, without a lock.
ReMark(m) ==
    /\ LedgerExists /\ m \in Applied \intersect Present
    /\ ledger' = Record({m})
    /\ touched' = touched \union {m}
    /\ UNCHANGED <<files, ran, saved, lock, proc, edits, crashes>>

\* scripts/migrate.py mark: as if it had been applied.
Mark(m) ==
    /\ lock = Nobody /\ m \in Present \ Applied
    /\ NowApplied(m)
    /\ ledger' = IF LedgerExists \/ m = LedgerMig THEN Record({m}) ELSE ledger
    /\ UNCHANGED <<files, saved, lock, proc, touched, edits, crashes>>

\* The process dies. Its row stays in yoyo's lock table until someone breaks it.
Crash(p) ==
    /\ proc[p].at \in UnderWay /\ crashes < MaxCrashes
    /\ proc' = [proc EXCEPT ![p] = Down]
    /\ crashes' = crashes + 1
    /\ UNCHANGED <<files, ran, ledger, saved, lock, touched, edits>>
BreakLock ==
    /\ lock # Nobody /\ proc[lock].at \notin UnderWay
    /\ lock' = Nobody
    /\ UNCHANGED <<files, ran, ledger, saved, proc, touched, edits, crashes>>

MigrationNext ==
    \/ \E p \in Processes : \/ Begin(p) \/ Verify(p) \/ Snapshot(p) \/ Rehearse(p)
                        \/ Apply(p) \/ RecordApplied(p) \/ Crash(p)
    \/ BreakLock
    \/ \E m \in Migs : ReMark(m) \/ Mark(m) \/ \E text \in Texts \union {Absent} : Edit(m, text)

MigrationSpec == MigrationInit /\ [][MigrationNext]_migrationVars

--------------------------------------------------------------------------------
\* A database in use is touched only by what went through on a copy and loses no
\* rows that the lint saw and nobody declared; there is a snapshot to go back to,
\* so that what a failure leaves half applied can be undone; and what the files
\* say of the past is what ran.
TouchedWithCare ==
    \A p \in Processes :
       /\ lock = p /\ ran' # ran /\ ~proc[p].fresh
       => /\ \A m \in DOMAIN ran' \ Applied :
                /\ files[m] \notin Breaks
                /\ files[m] \in Loses \intersect Shows => files[m] \in Declares
          /\ \E before \in saved : before = Applied \ proc[p].pending
          /\ \A m \in Applied \intersect Present \intersect DOMAIN ledger :
                m \notin touched => files[m] = ran[m]

\* A start that comes up leaves every applied migration in the ledger with the
\* text that ran, though an earlier one died or failed between the two; except
\* where the file was edited in that gap or the entry re-marked.
UpIsRecorded ==
    \A p \in Processes :
       proc'[p].at = "up" /\ proc[p].at # "up" /\ LedgerExists
       => /\ Unrecorded' = {}
          /\ \A m \in DOMAIN ledger' \ touched : ledger'[m] = ran'[m]

\* A database is migrated with a copy tried and a snapshot to go back to, and a
\* server that comes up leaves the ledger complete.
MigrationsAreSafe == [][TouchedWithCare /\ UpIsRecorded]_migrationVars

================================================================================
