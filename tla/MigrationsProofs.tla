---------------------------- MODULE MigrationsProofs ----------------------------
(***************************************************************************)
(* Proofs about what is kept of the database for later, about the gate     *)
(* that a new version passes and what a session is told when it starts.    *)
(*                                                                         *)
(* The migrations: however many processes start, fail, die and edit, a     *)
(* database in use is migrated with care, and a server that comes up       *)
(* leaves the ledger complete.                                             *)
(*                                                                         *)
(* The snapshots: however many sessions start at once and however many     *)
(* die, what a rotation deletes is old (DirInv); and while nothing else    *)
(* goes on, a loss stays visible and a restore can be undone (AloneInv).   *)
(*                                                                         *)
(* The gate: no commit takes a reason to wait away, and what goes ahead    *)
(* has none.                                                               *)
(*                                                                         *)
(* The context: a text that shows activities once, and counts the others   *)
(* if it comes to its end, stays such when it is cut and composed.         *)
(*                                                                         *)
(* The habits: the total of the pool changes by what one row weighs, so    *)
(* the trigger and the gate bound it; whoever is alone writes, and is told *)
(* of, the table that was read (QuietInv).                                 *)
(***************************************************************************)
EXTENDS Migrations, Snapshots, GateCheck, StartContext, Habits,
        FiniteSetTheorems, SequenceTheorems, TLAPS

MigrationTypeOK ==
    /\ files \in [Migs -> Texts \union {Absent}]
    /\ DOMAIN ran \subseteq Migs
    /\ DOMAIN ledger \subseteq Migs
    /\ proc \in [Processes -> [at : UnderWay \union {"down", "stopped", "up"},
                               pending : SUBSET Migs, fresh : BOOLEAN, led : BOOLEAN]]

\* The lock keeps starts apart.
Owned == \A p \in Processes : proc[p].at \in UnderWay => lock = p

\* The ledger holds applied migrations only, with the text that ran; and of what
\* is not yet recorded the file still says what ran.  Both may be lost of what
\* was touched.
BooksInv ==
    /\ DOMAIN ledger \subseteq Applied
    /\ DOMAIN ledger # {} => LedgerExists
    /\ \A m \in Applied : ran[m] # Absent
    /\ \A m \in DOMAIN ledger \ touched : ledger[m] = ran[m]
    /\ \A m \in Applied \ (DOMAIN ledger \union touched) : files[m] = ran[m]

\* What a start has read when it began is still so ...
Plan(q) ==
    /\ q.pending \subseteq Present
    /\ q.pending \intersect Applied = {} \/ q.at = "apply"
    /\ \A m \in q.pending \intersect Applied : ran[m] = files[m]
    /\ q.fresh => q.at = "apply" /\ Applied \subseteq q.pending
    /\ q.led => LedgerExists
    /\ q.at = "apply" \/ q.led = LedgerExists
    /\ ~q.led => DOMAIN ledger \subseteq touched

\* ... and so is what its steps up to now have checked and saved.
Checked(q) ==
    /\ q.led /\ q.at # "verify" => (Applied \ q.pending) \intersect Present \subseteq DOMAIN ledger
    /\ q.at # "verify" =>
         \A m \in (Applied \intersect Present \intersect DOMAIN ledger) \ touched : files[m] = ran[m]
    /\ q.at \in {"rehearse", "apply"} /\ ~q.fresh => Applied \ q.pending \in saved
    /\ q.at = "apply" /\ ~q.fresh => Passes(q.pending)

StartInv == \A p \in Processes : proc[p].at \in UnderWay => Plan(proc[p]) /\ Checked(proc[p])

MigrationInv == MigrationTypeOK /\ Owned /\ BooksInv /\ StartInv

--------------------------------------------------------------------------------
LEMMA RecordFacts ==
    ASSUME NEW S
    PROVE  /\ DOMAIN Record(S) = DOMAIN ledger \union S
           /\ \A m \in S : Record(S)[m] = files[m]
           /\ \A m \in DOMAIN ledger \ S : Record(S)[m] = ledger[m]
BY DEF Record

LEMMA AppliedFacts ==
    ASSUME NEW m, NowApplied(m)
    PROVE  /\ DOMAIN ran' = Applied \union {m}
           /\ ran'[m] = files[m]
           /\ \A k \in Applied \ {m} : ran'[k] = ran[k]
BY DEF NowApplied, Applied

\* A process that leaves is no longer under way, and no other is.
LEMMA LeaveFacts ==
    ASSUME MigrationTypeOK, Owned, NEW p \in Processes, proc[p].at \in UnderWay,
           NEW why \in {"stopped", "up"}, Leave(p, why)
    PROVE  /\ proc' \in [Processes -> [at : UnderWay \union {"down", "stopped", "up"},
                                       pending : SUBSET Migs, fresh : BOOLEAN, led : BOOLEAN]]
           /\ \A q \in Processes : proc'[q].at \notin UnderWay
           /\ proc'[p].at = why /\ \A q \in Processes \ {p} : proc'[q] = proc[q]
BY DEF Leave, Down, MigrationTypeOK, Owned, UnderWay

\* A step of p changes no other process's start.
LEMMA GoFacts ==
    ASSUME MigrationTypeOK, Owned, NEW p \in Processes, proc[p].at \in UnderWay,
           NEW at \in UnderWay, Go(p, at)
    PROVE  /\ proc' \in [Processes -> [at : UnderWay \union {"down", "stopped", "up"},
                                       pending : SUBSET Migs, fresh : BOOLEAN, led : BOOLEAN]]
           /\ \A q \in Processes \ {p} : proc'[q] = proc[q] /\ proc'[q].at \notin UnderWay
           /\ proc'[p].at = at /\ proc'[p].pending = proc[p].pending
           /\ proc'[p].fresh = proc[p].fresh /\ proc'[p].led = proc[p].led
BY DEF Go, MigrationTypeOK, Owned, UnderWay

--------------------------------------------------------------------------------
LEMMA InitInv == MigrationInit => MigrationInv
BY DEF MigrationInit, MigrationInv, MigrationTypeOK, Owned, BooksInv, StartInv, Down, UnderWay, Applied, LedgerExists

LEMMA BeginInv ==
    ASSUME MigrationInv, NEW p \in Processes, Begin(p)
    PROVE  MigrationInv'
<1> USE MigrationsAssumption DEF MigrationInv
<1>1. \A q \in Processes : proc[q].at \notin UnderWay
  BY DEF Begin, Owned, Nobody
<1>2. /\ proc'[p] = [at |-> IF Applied = {} THEN "apply" ELSE "verify", fresh |-> Applied = {},
                     pending |-> Present \ Applied, led |-> LedgerExists]
      /\ \A q \in Processes \ {p} : proc'[q] = proc[q]
      /\ UNCHANGED <<files, ran, ledger, saved, touched>> /\ lock' = p
  BY DEF Begin, MigrationTypeOK
<1>3. MigrationTypeOK'
  BY <1>2 DEF Begin, MigrationTypeOK, Present, UnderWay, LedgerExists
<1>4. Owned' /\ BooksInv'
  BY <1>1, <1>2 DEF Owned, BooksInv, Applied, LedgerExists
<1>5. /\ proc'[p].pending = Present \ Applied /\ proc'[p].led = LedgerExists
      /\ proc'[p].fresh = (Applied = {})
      /\ proc'[p].at = IF Applied = {} THEN "apply" ELSE "verify"
  BY <1>2
<1>6. Plan(proc[p])' /\ Checked(proc[p])'
  <2>1. /\ Applied' = Applied /\ Present' = Present /\ LedgerExists' = LedgerExists
        /\ LedgerExists => Applied # {}
    BY <1>2 DEF Applied, Present, LedgerExists
  <2>2. DOMAIN ledger # {} => LedgerExists
    BY DEF BooksInv
  <2>3. CASE Applied = {}
    <3>1. proc'[p].at = "apply" /\ proc'[p].fresh /\ ~proc'[p].led /\ DOMAIN ledger' = {}
      BY <1>2, <1>5, <2>1, <2>2, <2>3
    <3> QED BY <1>5, <2>1, <2>3, <3>1 DEF Plan, Checked
  <2>4. CASE Applied # {}
    <3>1. proc'[p].at = "verify" /\ ~proc'[p].fresh
      BY <1>5, <2>4
    <3>2. ~LedgerExists => DOMAIN ledger' = {}
      BY <1>2, <2>2
    <3>3. Plan(proc[p])'
      BY <1>5, <2>1, <3>1, <3>2 DEF Plan
    <3> QED BY <3>1, <3>3 DEF Checked
  <2> QED BY <2>3, <2>4
<1>7. StartInv'
  BY <1>1, <1>2, <1>6 DEF StartInv
<1> QED BY <1>3, <1>4, <1>7

LEMMA VerifyInv ==
    ASSUME MigrationInv, NEW p \in Processes, Verify(p)
    PROVE  MigrationInv' /\ UpIsRecorded /\ ran' = ran
<1> USE DEF MigrationInv
<1>1. /\ proc[p].at = "verify" /\ proc[p].at \in UnderWay
      /\ UNCHANGED <<files, ran, saved, touched>>
      /\ proc[p].led = LedgerExists /\ Plan(proc[p])
  BY DEF Verify, UnderWay, StartInv, Plan
<1>2. CASE proc[p].led /\ Drifted(p) # {}
  <2>1. Leave(p, "stopped") /\ ledger' = ledger
    BY <1>2 DEF Verify
  <2>2. MigrationTypeOK' /\ StartInv' /\ Owned'
    BY <1>1, <2>1, LeaveFacts DEF MigrationTypeOK, StartInv, Owned
  <2>3. BooksInv'
    BY <1>1, <2>1 DEF BooksInv, Applied, LedgerExists
  <2>4. UpIsRecorded
    BY <1>1, <2>1, LeaveFacts DEF UpIsRecorded
  <2> QED BY <1>1, <2>2, <2>3, <2>4
<1>3. CASE ~(proc[p].led /\ Drifted(p) # {})
  <2>1. /\ ledger' = IF proc[p].led THEN Record(Unrecorded) ELSE ledger
        /\ \/ proc[p].pending = {} /\ Leave(p, "up")
           \/ proc[p].pending # {} /\ Go(p, "snapshot") /\ lock' = lock
    BY <1>3 DEF Verify
  <2>2. ~proc[p].led => ledger' = ledger
    BY <2>1
  <2>3. proc[p].led => /\ DOMAIN ledger' = DOMAIN ledger \union Unrecorded
                       /\ \A m \in Unrecorded : ledger'[m] = files[m]
                       /\ \A m \in DOMAIN ledger : ledger'[m] = ledger[m]
    BY <2>1, RecordFacts DEF Unrecorded
  <2>4. BooksInv' /\ DOMAIN ledger' \subseteq Migs
    BY <1>1, <2>2, <2>3 DEF BooksInv, MigrationTypeOK, Applied, LedgerExists, Unrecorded
  <2>5. proc[p].led =>
          /\ (Applied \intersect Present) \subseteq DOMAIN ledger'
          /\ \A m \in (Applied \intersect Present \intersect DOMAIN ledger') \ touched : files[m] = ran[m]
    BY <1>3, <2>3 DEF Unrecorded, Drifted, BooksInv
  <2>6. ~proc[p].led => DOMAIN ledger' \subseteq touched
    BY <1>1, <2>2 DEF Plan
  <2>7. CASE proc[p].pending = {} /\ Leave(p, "up")
    <3>1. MigrationTypeOK' /\ StartInv' /\ Owned'
      BY <1>1, <2>4, <2>7, LeaveFacts DEF MigrationTypeOK, StartInv, Owned
    <3>2. LedgerExists => Unrecorded' = {} /\ \A m \in DOMAIN ledger' \ touched : ledger'[m] = ran'[m]
      BY <1>1, <2>4, <2>5 DEF Unrecorded, Applied, Present, BooksInv
    <3>3. UpIsRecorded
      BY <3>2, <2>7, <1>1, LeaveFacts DEF UpIsRecorded
    <3> QED BY <1>1, <2>4, <3>1, <3>3
  <2>8. CASE proc[p].pending # {} /\ Go(p, "snapshot") /\ lock' = lock
    <3>1. "snapshot" \in UnderWay
      BY DEF UnderWay
    <3>2. MigrationTypeOK' /\ Owned'
      BY <1>1, <2>4, <2>8, <3>1, GoFacts DEF MigrationTypeOK, Owned
    <3>3. Plan(proc[p])'
      BY <1>1, <2>6, <2>8, <3>1, GoFacts DEF Plan, Applied, Present, LedgerExists
    <3>4. Checked(proc[p])'
      BY <1>1, <2>5, <2>6, <2>8, <3>1, GoFacts DEF Checked, Applied, Present
    <3>5. StartInv'
      BY <1>1, <2>8, <3>1, <3>3, <3>4, GoFacts DEF StartInv
    <3>6. UpIsRecorded
      BY <1>1, <2>8, <3>1, GoFacts DEF UpIsRecorded, UnderWay
    <3> QED BY <1>1, <2>4, <3>2, <3>5, <3>6
  <2> QED BY <2>1, <2>7, <2>8
<1> QED BY <1>2, <1>3

LEMMA SnapshotInv ==
    ASSUME MigrationInv, NEW p \in Processes, Snapshot(p)
    PROVE  MigrationInv' /\ UpIsRecorded /\ ran' = ran
<1> USE DEF MigrationInv
<1>1. /\ proc[p].at = "snapshot" /\ proc[p].at \in UnderWay
      /\ UNCHANGED <<files, ran, ledger, touched>>
      /\ Plan(proc[p]) /\ Checked(proc[p])
  BY DEF Snapshot, UnderWay, StartInv
<1>2. BooksInv'
  BY <1>1 DEF BooksInv, Applied, LedgerExists
<1>3. CASE Leave(p, "stopped")
  BY <1>1, <1>2, <1>3, LeaveFacts DEF MigrationTypeOK, StartInv, Owned, UpIsRecorded
<1>4. CASE saved' = saved \union {Applied} /\ Go(p, "rehearse") /\ lock' = lock
  <2>1. "rehearse" \in UnderWay
    BY DEF UnderWay
  <2>2. MigrationTypeOK' /\ Owned'
    BY <1>1, <1>4, <2>1, GoFacts DEF MigrationTypeOK, Owned
  <2>3. Plan(proc[p])'
    BY <1>1, <1>4, <2>1, GoFacts DEF Plan, Applied, Present, LedgerExists
  <2>4. Applied \ proc[p].pending = Applied
    BY <1>1 DEF Plan
  <2>5. Checked(proc[p])'
    BY <1>1, <1>4, <2>1, <2>4, GoFacts DEF Checked, Applied, Present
  <2>6. StartInv'
    BY <1>1, <1>4, <2>1, <2>3, <2>5, GoFacts DEF StartInv
  <2>7. UpIsRecorded
    BY <1>1, <1>4, <2>1, GoFacts DEF UpIsRecorded, UnderWay
  <2> QED BY <1>1, <1>2, <2>2, <2>6, <2>7
<1> QED BY <1>3, <1>4 DEF Snapshot

LEMMA RehearseInv ==
    ASSUME MigrationInv, NEW p \in Processes, Rehearse(p)
    PROVE  MigrationInv' /\ UpIsRecorded /\ ran' = ran
<1> USE DEF MigrationInv
<1>1. /\ proc[p].at = "rehearse" /\ proc[p].at \in UnderWay
      /\ UNCHANGED <<files, ran, ledger, saved, touched>>
      /\ Plan(proc[p]) /\ Checked(proc[p])
  BY DEF Rehearse, UnderWay, StartInv
<1>2. BooksInv'
  BY <1>1 DEF BooksInv, Applied, LedgerExists
<1>3. CASE Leave(p, "stopped")
  BY <1>1, <1>2, <1>3, LeaveFacts DEF MigrationTypeOK, StartInv, Owned, UpIsRecorded
<1>4. CASE Passes(proc[p].pending) /\ Go(p, "apply") /\ lock' = lock
  <2>1. "apply" \in UnderWay
    BY DEF UnderWay
  <2>2. MigrationTypeOK' /\ Owned'
    BY <1>1, <1>4, <2>1, GoFacts DEF MigrationTypeOK, Owned
  <2>3. Plan(proc[p])'
    BY <1>1, <1>4, <2>1, GoFacts DEF Plan, Applied, Present, LedgerExists
  <2>4. Passes(proc[p].pending)'
    BY <1>1, <1>4, <2>1, GoFacts DEF Passes
  <2>5. Checked(proc[p])'
    BY <1>1, <1>4, <2>1, <2>4, GoFacts DEF Checked, Applied, Present
  <2>6. StartInv'
    BY <1>1, <1>4, <2>1, <2>3, <2>5, GoFacts DEF StartInv
  <2>7. UpIsRecorded
    BY <1>1, <1>4, <2>1, GoFacts DEF UpIsRecorded, UnderWay
  <2> QED BY <1>1, <1>2, <2>2, <2>6, <2>7
<1> QED BY <1>3, <1>4 DEF Rehearse

\* What is applied was pending: it went through on the copy.
LEMMA ApplyInv ==
    ASSUME MigrationInv, NEW p \in Processes, Apply(p)
    PROVE  MigrationInv' /\ UpIsRecorded /\ TouchedWithCare
<1> USE DEF MigrationInv
<1>1. /\ proc[p].at = "apply" /\ proc[p].at \in UnderWay /\ lock = p
      /\ UNCHANGED <<files, ledger, saved, touched>>
      /\ Plan(proc[p]) /\ Checked(proc[p])
  BY DEF Apply, UnderWay, StartInv, Owned
<1>2. PICK m \in proc[p].pending \ Applied :
        \/ files[m] \in Breaks /\ Leave(p, "stopped") /\ ran' = ran
        \/ files[m] \notin Breaks /\ NowApplied(m) /\ lock' = lock /\ proc' = proc
  BY DEF Apply
<1>3. CASE Leave(p, "stopped") /\ ran' = ran
  <2>1. BooksInv'
    BY <1>1, <1>3 DEF BooksInv, Applied, LedgerExists
  <2> QED BY <1>1, <1>3, <2>1, LeaveFacts DEF MigrationTypeOK, StartInv, Owned, UpIsRecorded, TouchedWithCare
<1>4. CASE files[m] \notin Breaks /\ NowApplied(m) /\ lock' = lock /\ proc' = proc
  <2>1. /\ DOMAIN ran' = Applied \union {m} /\ ran'[m] = files[m]
        /\ \A k \in Applied : ran'[k] = ran[k]
        /\ m \in Migs /\ files[m] # Absent
    BY <1>1, <1>2, <1>4, AppliedFacts DEF Plan, Present
  <2>2. MigrationTypeOK' /\ Owned'
    BY <1>1, <1>4, <2>1 DEF MigrationTypeOK, Owned, Applied
  <2>3. BooksInv'
    BY <1>1, <1>2, <2>1 DEF BooksInv, Applied, LedgerExists
  <2>4. Plan(proc[p])'
    BY <1>1, <1>2, <1>4, <2>1 DEF Plan, Applied, Present, LedgerExists
  <2>5. Applied' \ proc[p].pending = Applied \ proc[p].pending
    BY <1>2, <2>1 DEF Applied
  <2>6. m \notin DOMAIN ledger
    BY <1>2 DEF BooksInv
  <2>7. Checked(proc[p])'
    <3>1. Passes(proc[p].pending)' <=> Passes(proc[p].pending)
      BY <1>1, <1>4 DEF Passes
    <3> QED BY <1>1, <1>4, <2>1, <2>5, <2>6, <3>1 DEF Checked, Applied, Present
  <2>8. StartInv'
    BY <1>1, <1>4, <2>4, <2>7 DEF StartInv, Owned
  <2>9. UpIsRecorded
    BY <1>4 DEF UpIsRecorded
  <2>10. TouchedWithCare
    <3>1. SUFFICES ASSUME ~proc[p].fresh
                   PROVE  /\ files[m] \in Loses \intersect Shows => files[m] \in Declares
                          /\ Applied \ proc[p].pending \in saved
                          /\ \A k \in Applied \intersect Present \intersect DOMAIN ledger :
                                k \notin touched => files[k] = ran[k]
      BY <1>1, <1>4, <2>1 DEF TouchedWithCare, Applied
    <3>2. Passes(proc[p].pending)
      BY <1>1, <3>1 DEF Checked
    <3> QED BY <1>1, <1>2, <3>1, <3>2 DEF Checked, Passes
  <2> QED BY <2>2, <2>3, <2>8, <2>9, <2>10
<1> QED BY <1>2, <1>3, <1>4

LEMMA RecordAppliedInv ==
    ASSUME MigrationInv, NEW p \in Processes, RecordApplied(p)
    PROVE  MigrationInv' /\ UpIsRecorded /\ ran' = ran
<1> USE DEF MigrationInv
<1>1. /\ proc[p].at = "apply" /\ proc[p].at \in UnderWay /\ proc[p].pending \subseteq Applied
      /\ UNCHANGED <<files, ran, saved, touched>> /\ Leave(p, "up")
      /\ Plan(proc[p]) /\ Checked(proc[p])
  BY DEF RecordApplied, UnderWay, StartInv
<1> DEFINE S == proc[p].pending \union (IF ~proc[p].fresh /\ ~proc[p].led THEN Unrecorded ELSE {})
<1>2. ledger' = IF ~LedgerExists THEN ledger ELSE Record(S)
  BY DEF RecordApplied
<1>3. /\ S \subseteq Applied \intersect Present
      /\ \A m \in S \ touched : files[m] = ran[m]
      /\ (~proc[p].led => Unrecorded \subseteq S)
  <2>1. \A m \in Unrecorded \ touched : files[m] = ran[m]
    BY DEF Unrecorded, BooksInv
  <2>2. S \subseteq Applied \intersect Present
    BY <1>1 DEF Plan, Unrecorded
  <2>3. \A m \in S \ touched : files[m] = ran[m]
    BY <1>1, <2>1 DEF Plan
  <2>4. ~proc[p].led => Unrecorded \subseteq S
    BY <1>1 DEF Plan, Unrecorded
  <2> QED BY <2>2, <2>3, <2>4
<1> HIDE DEF S
<1>4. LedgerExists => /\ DOMAIN ledger' = DOMAIN ledger \union S
                      /\ \A m \in S : ledger'[m] = files[m]
                      /\ \A m \in DOMAIN ledger \ S : ledger'[m] = ledger[m]
  BY <1>2, RecordFacts
<1>5. ~LedgerExists => ledger' = ledger
  BY <1>2
<1>6. BooksInv' /\ DOMAIN ledger' \subseteq Migs
  BY <1>1, <1>3, <1>4, <1>5 DEF BooksInv, MigrationTypeOK, Applied, LedgerExists
<1>7. MigrationTypeOK' /\ StartInv' /\ Owned'
  BY <1>1, <1>6, LeaveFacts DEF MigrationTypeOK, StartInv, Owned
<1>8. LedgerExists => Unrecorded' = {}
  <2>1. proc[p].led => (Applied \ proc[p].pending) \intersect Present \subseteq DOMAIN ledger
    BY <1>1 DEF Checked
  <2>2. proc[p].pending \subseteq S
    BY DEF S
  <2> QED BY <1>1, <1>3, <1>4, <2>1, <2>2 DEF Unrecorded, Applied, Present
<1>9. UpIsRecorded
  BY <1>1, <1>6, <1>8, LeaveFacts DEF UpIsRecorded, BooksInv
<1> QED BY <1>1, <1>6, <1>7, <1>9

--------------------------------------------------------------------------------
\* A file changes under no start; what was not recorded then is touched.
LEMMA EditInv ==
    ASSUME MigrationInv, NEW m \in Migs, NEW text \in Texts \union {Absent}, Edit(m, text)
    PROVE  MigrationInv'
<1> USE MigrationsAssumption DEF MigrationInv
<1>1. \A q \in Processes : proc[q].at \notin UnderWay
  BY DEF Edit, Owned, Nobody
<1>2. /\ UNCHANGED <<ran, ledger, saved, lock, proc>>
      /\ touched' = touched \union ({m} \intersect Unrecorded)
      /\ files' \in [Migs -> Texts \union {Absent}] /\ \A k \in Migs \ {m} : files'[k] = files[k]
  BY DEF Edit, MigrationTypeOK
<1>3. MigrationTypeOK' /\ Owned' /\ StartInv'
  BY <1>1, <1>2 DEF MigrationTypeOK, Owned, StartInv
<1>4. BooksInv'
  <2>1. m \in Applied \ (DOMAIN ledger \union touched) => m \in Unrecorded
    BY DEF BooksInv, Unrecorded, Present
  <2> QED BY <1>2, <2>1 DEF BooksInv, Applied, LedgerExists, MigrationTypeOK
<1> QED BY <1>3, <1>4

LEMMA ReMarkInv ==
    ASSUME MigrationInv, NEW m \in Migs, ReMark(m)
    PROVE  MigrationInv'
<1> USE DEF MigrationInv
<1>1. /\ LedgerExists /\ m \in Applied /\ m \in Present
      /\ touched' = touched \union {m} /\ UNCHANGED <<files, ran, saved, lock, proc>>
      /\ DOMAIN ledger' = DOMAIN ledger \union {m}
      /\ \A k \in DOMAIN ledger \ {m} : ledger'[k] = ledger[k]
  BY RecordFacts DEF ReMark
<1>2. MigrationTypeOK' /\ Owned' /\ BooksInv'
  BY <1>1 DEF MigrationTypeOK, Owned, BooksInv, Applied, LedgerExists
<1>3. ASSUME NEW p \in Processes, proc[p].at \in UnderWay
      PROVE  Plan(proc[p])' /\ Checked(proc[p])'
  <2>1. Plan(proc[p]) /\ Checked(proc[p])
    BY <1>3 DEF StartInv
  <2>2. Plan(proc[p])'
    BY <1>1, <2>1 DEF Plan, Applied, Present, LedgerExists
  <2>3. Passes(proc[p].pending)' <=> Passes(proc[p].pending)
    BY <1>1 DEF Passes
  <2>4. Checked(proc[p])'
    BY <1>1, <2>1, <2>3 DEF Checked, Applied, Present
  <2> QED BY <2>2, <2>4
<1>4. StartInv'
  BY <1>1, <1>3 DEF StartInv
<1> QED BY <1>2, <1>4

LEMMA MarkInv ==
    ASSUME MigrationInv, NEW m \in Migs, Mark(m)
    PROVE  MigrationInv' /\ TouchedWithCare
<1> USE MigrationsAssumption DEF MigrationInv
<1>1. \A q \in Processes : proc[q].at \notin UnderWay /\ lock # q
  BY DEF Mark, Owned, Nobody
<1>2. /\ m \notin Applied /\ files[m] # Absent /\ UNCHANGED <<files, saved, lock, proc, touched>>
      /\ DOMAIN ran' = Applied \union {m} /\ ran'[m] = files[m]
      /\ \A k \in Applied : ran'[k] = ran[k]
  BY AppliedFacts DEF Mark, Present
<1>3. \/ ledger' = ledger
      \/ /\ LedgerExists \/ m = LedgerMig
         /\ DOMAIN ledger' = DOMAIN ledger \union {m} /\ ledger'[m] = files[m]
         /\ \A k \in DOMAIN ledger \ {m} : ledger'[k] = ledger[k]
  BY RecordFacts DEF Mark
<1>4. MigrationTypeOK' /\ Owned' /\ StartInv'
  BY <1>1, <1>2, <1>3 DEF MigrationTypeOK, Owned, StartInv, Applied
<1>5. BooksInv'
  BY <1>2, <1>3 DEF BooksInv, Applied, LedgerExists
<1>6. TouchedWithCare
  BY <1>1 DEF TouchedWithCare
<1> QED BY <1>4, <1>5, <1>6

LEMMA CrashInv ==
    ASSUME MigrationInv, NEW p \in Processes, Crash(p)
    PROVE  MigrationInv' /\ UpIsRecorded
<1> USE DEF MigrationInv
<1>1. /\ proc'[p] = Down /\ \A q \in Processes \ {p} : proc'[q] = proc[q]
      /\ lock = p /\ UNCHANGED <<files, ran, ledger, saved, lock, touched>>
  BY DEF Crash, MigrationTypeOK, Owned
<1>2. \A q \in Processes : proc'[q].at \notin UnderWay
  BY <1>1 DEF Owned, Down, UnderWay
<1>3. MigrationTypeOK'
  BY DEF Crash, MigrationTypeOK, Down
<1>4. Owned' /\ StartInv' /\ BooksInv'
  BY <1>1, <1>2 DEF Owned, StartInv, BooksInv, Applied, LedgerExists
<1>5. UpIsRecorded
  BY <1>1 DEF UpIsRecorded, Down
<1> QED BY <1>3, <1>4, <1>5

LEMMA BreakLockInv ==
    ASSUME MigrationInv, BreakLock
    PROVE  MigrationInv'
<1> USE DEF MigrationInv
<1>1. \A q \in Processes : proc[q].at \notin UnderWay
  BY DEF BreakLock, Owned
<1>2. UNCHANGED <<files, ran, ledger, saved, proc, touched>>
  BY DEF BreakLock
<1> QED BY <1>1, <1>2 DEF MigrationTypeOK, Owned, BooksInv, StartInv, Applied, LedgerExists

--------------------------------------------------------------------------------
LEMMA Unmoved ==
    ASSUME UNCHANGED <<ran, proc>>
    PROVE  TouchedWithCare /\ UpIsRecorded
BY DEF TouchedWithCare, UpIsRecorded

\* Every step keeps the invariant and is as safe as it should be.
LEMMA StepInv ==
    ASSUME MigrationInv, [MigrationNext]_migrationVars
    PROVE  MigrationInv' /\ (TouchedWithCare /\ UpIsRecorded)
<1>1. ASSUME NEW p \in Processes, Begin(p) PROVE MigrationInv' /\ TouchedWithCare /\ UpIsRecorded
  <2>1. \A q \in Processes : proc'[q].at = "up" => proc[q].at = "up"
    BY <1>1 DEF Begin, MigrationInv, MigrationTypeOK
  <2>2. ran' = ran
    BY <1>1 DEF Begin
  <2> QED BY <1>1, <2>1, <2>2, BeginInv DEF TouchedWithCare, UpIsRecorded
<1>2. ASSUME NEW p \in Processes, Verify(p) \/ Snapshot(p) \/ Rehearse(p) \/ RecordApplied(p)
      PROVE  MigrationInv' /\ TouchedWithCare /\ UpIsRecorded
  <2>1. MigrationInv' /\ UpIsRecorded /\ ran' = ran
    BY <1>2, VerifyInv, SnapshotInv, RehearseInv, RecordAppliedInv
  <2> QED BY <2>1 DEF TouchedWithCare
<1>3. ASSUME NEW p \in Processes, Apply(p) PROVE MigrationInv' /\ TouchedWithCare /\ UpIsRecorded
  BY <1>3, ApplyInv
<1>4. ASSUME NEW p \in Processes, Crash(p) PROVE MigrationInv' /\ TouchedWithCare /\ UpIsRecorded
  <2>1. ran' = ran
    BY <1>4 DEF Crash
  <2> QED BY <1>4, <2>1, CrashInv DEF TouchedWithCare
<1>5. CASE BreakLock
  <2>1. UNCHANGED <<ran, proc>>
    BY <1>5 DEF BreakLock
  <2> QED BY <1>5, <2>1, BreakLockInv, Unmoved
<1>6. ASSUME NEW m \in Migs, ReMark(m) PROVE MigrationInv' /\ TouchedWithCare /\ UpIsRecorded
  <2>1. UNCHANGED <<ran, proc>>
    BY <1>6 DEF ReMark
  <2> QED BY <1>6, <2>1, ReMarkInv, Unmoved
<1>7. ASSUME NEW m \in Migs, Mark(m) PROVE MigrationInv' /\ TouchedWithCare /\ UpIsRecorded
  <2>1. proc' = proc
    BY <1>7 DEF Mark
  <2> QED BY <1>7, <2>1, MarkInv DEF UpIsRecorded
<1>8. ASSUME NEW m \in Migs, NEW text \in Texts \union {Absent}, Edit(m, text)
      PROVE  MigrationInv' /\ TouchedWithCare /\ UpIsRecorded
  <2>1. UNCHANGED <<ran, proc>>
    BY <1>8 DEF Edit
  <2> QED BY <1>8, <2>1, EditInv, Unmoved
<1>9. CASE UNCHANGED migrationVars
  <2>1. UNCHANGED <<files, ran, ledger, saved, lock, proc, touched>>
    BY <1>9 DEF migrationVars
  <2>2. MigrationTypeOK' /\ Owned' /\ BooksInv'
    BY <2>1 DEF MigrationInv, MigrationTypeOK, Owned, BooksInv, Applied, LedgerExists
  <2>3. StartInv'
    BY <2>1 DEF MigrationInv, StartInv, Plan, Checked, Passes, Applied, Present, LedgerExists
  <2> QED BY <2>1, <2>2, <2>3, Unmoved DEF MigrationInv
<1> QED BY <1>1, <1>2, <1>3, <1>4, <1>5, <1>6, <1>7, <1>8, <1>9 DEF MigrationNext

--------------------------------------------------------------------------------
\* Starts do not overlap: under way is who holds the lock (db.py, the with block
\* of yoyo's backend.lock).
THEOREM OneStart == MigrationSpec => [](MigrationTypeOK /\ Owned)
<1>1. MigrationInv => MigrationTypeOK /\ Owned
  BY DEF MigrationInv
<1> QED BY InitInv, StepInv, <1>1, PTL DEF MigrationSpec

\* A database in use is changed only by migrations that went through on a copy and
\* lose no rows undeclared, with a snapshot of what was before; and a server that
\* comes up leaves every applied migration in the ledger with the text that ran,
\* whatever died, failed or was edited before (db.py:144-237).
THEOREM MigrationsAlwaysSafe == MigrationSpec => MigrationsAreSafe
<1>1. MigrationInv /\ [MigrationNext]_migrationVars => [TouchedWithCare /\ UpIsRecorded]_migrationVars
  BY StepInv
<1> QED BY InitInv, StepInv, <1>1, PTL DEF MigrationSpec, MigrationsAreSafe

--------------------------------------------------------------------------------
AFile == [dir : Dirs \cup {"none"}, rows : 0..MaxRows, copied : BOOLEAN,
          described : BOOLEAN, counts : 0..MaxRows, taken : 0..MaxNow]

\* The files of a set begun after n, and how many of them a rotation leaves.
Above(S, n) == {m \in S : m > n}
Least(dir) == Quota[dir] - (IF dir = "prerestore" THEN 1 ELSE 0)
OldFiles == {x \in Dirs \X Names : Cardinality(Above(In(x[1]), x[2])) >= Least(x[1])}

\* The days daily/ keeps a file of, or has enough later ones to have dropped.
OfDay(d) == {m \in In("daily") : Day(m) = d}
AfterDay(d) == {m \in In("daily") : Day(m) > d}
CoveredDays == {d \in Nat : OfDay(d) # {} \/ Cardinality(AfterDay(d)) >= Quota["daily"]}

\* The directory a process is rotating.
Rotated(p) == IF pc[p] = "promote" THEN "periodic" ELSE Plain(p)

Named ==
  /\ \A n \in Names : n > begun => file[n].dir = "none"
  /\ \A p \in Procs : mine[p] <= begun
  /\ \A p \in Procs : \A n \in doomed[p] : n <= begun
TakenInOrder ==
  /\ \A n \in Names : file[n].taken <= now
  /\ \A m, n \in Names : m < n /\ file[m].dir # "none" /\ file[n].dir # "none" =>
        file[m].taken <= file[n].taken
DoomedAreOld ==
  \A p \in Procs :
     /\ doomed[p] # {} => pc[p] \in {"promote", "prune"}
     /\ pc[p] \in {"dates", "list", "promote"} => p \in Hooks
     /\ \A n \in doomed[p] : <<Rotated(p), n>> \in OldFiles
DaysCovered == \A h \in Hooks : dates[h] \subseteq CoveredDays

DirInv == TypeOK /\ Named /\ TakenInOrder /\ DoomedAreOld /\ DaysCovered

LEMMA Bounds ==
  /\ MaxName \in Nat /\ MaxRows \in Nat /\ MaxNow \in Nat /\ MaxFaults \in Nat
  /\ \A dir \in Dirs : Quota[dir] \in Nat \ {0} /\ Least(dir) \in Nat
  /\ \A p \in Procs : Home(p) \in {"periodic", "prerestore"} /\ Plain(p) \in {"daily", "prerestore"}
  BY SnapshotsAssumption DEF Dirs, Least, Home, Plain

LEMMA NamesAreNumbers == \A n \in Names : n \in Nat
  BY Bounds DEF Names

\* What TypeOK says of one process, one file and the numbers.
LEMMA Typed ==
  ASSUME TypeOK
  PROVE  /\ db \in 0..MaxRows /\ db \in Nat /\ now \in 0..MaxNow /\ now \in Nat
         /\ begun \in 0..MaxName /\ begun \in Nat
         /\ file \in [Names -> AFile]
         /\ \A n \in Names : /\ file[n] \in AFile /\ file[n].dir \in Dirs \cup {"none"}
                             /\ file[n].rows \in Nat /\ file[n].counts \in Nat /\ file[n].taken \in Nat
         /\ \A p \in Procs : mine[p] \in 0..MaxName /\ mine[p] \in Nat /\ doomed[p] \subseteq Names
<1>. USE Bounds
<1>1. db \in 0..MaxRows /\ now \in 0..MaxNow /\ begun \in 0..MaxName /\ file \in [Names -> AFile]
  BY DEF TypeOK, AFile
<1>2. \A p \in Procs : mine[p] \in 0..MaxName /\ doomed[p] \subseteq Names
  BY DEF TypeOK
<1>3. \A n \in Names : file[n] \in AFile
  BY <1>1
<1>4. \A f \in AFile : /\ f.dir \in Dirs \cup {"none"}
                      /\ f.rows \in Nat /\ f.counts \in Nat /\ f.taken \in Nat
  BY DEF AFile
<1>. QED  BY <1>1, <1>2, <1>3, <1>4

LEMMA NoFileIsAFile == NoFile \in AFile
  BY Bounds DEF NoFile, AFile

\* Any set of names is finite, and a larger one has no fewer.
LEMMA Counting ==
  ASSUME NEW T \in SUBSET Names
  PROVE  /\ IsFiniteSet(T) /\ Cardinality(T) \in Nat
         /\ \A S \in SUBSET T : Cardinality(S) <= Cardinality(T)
<1>1. IsFiniteSet(Names)
  BY Bounds, FS_Interval DEF Names
<1>2. IsFiniteSet(T)
  BY <1>1, FS_Subset
<1>3. Cardinality(T) \in Nat
  BY <1>2, FS_CardinalityType
<1>4. \A S \in SUBSET T : Cardinality(S) <= Cardinality(T)
  BY <1>2, FS_Subset
<1>. QED  BY <1>2, <1>3, <1>4

\* However one name leaves a set, those with k names above them keep as many, if
\* the one that leaves has as many too.
LEMMA AboveKept ==
  ASSUME NEW S \in SUBSET Names, NEW T \in SUBSET Names, NEW g \in Names, NEW n \in Names, NEW k \in Nat,
         S \ {g} \subseteq T,
         g \in S => Cardinality(Above(S, g)) >= k,
         Cardinality(Above(S, n)) >= k
  PROVE  Cardinality(Above(T, n)) >= k
<1>1. Above(T, n) \subseteq Names /\ Above(S, n) \subseteq Names /\ Above(S, g) \subseteq Names
  BY DEF Above
<1>2. Cardinality(Above(T, n)) \in Nat /\ Cardinality(Above(S, n)) \in Nat /\ Cardinality(Above(S, g)) \in Nat
  BY <1>1, Counting
<1>3. CASE g \in S /\ g > n
  <2>1. Above(S, g) \subseteq Above(T, n)
    <3>. SUFFICES ASSUME NEW m \in Above(S, g) PROVE m \in Above(T, n)
      OBVIOUS
    <3>1. m \in S /\ m > g /\ m \in Nat /\ g \in Nat /\ n \in Nat
      BY NamesAreNumbers DEF Above
    <3>. QED  BY <3>1, <1>3 DEF Above
  <2>. QED  BY <2>1, <1>1, <1>2, <1>3, Counting
<1>4. CASE ~(g \in S /\ g > n)
  <2>1. Above(S, n) \subseteq Above(T, n)
    BY <1>4 DEF Above
  <2>. QED  BY <2>1, <1>1, <1>2, Counting
<1>. QED  BY <1>3, <1>4

LEMMA CardUnion ==
  ASSUME NEW A \in SUBSET Names, NEW B \in SUBSET Names
  PROVE  Cardinality(A \cup B) <= Cardinality(A) + Cardinality(B)
<1>1. IsFiniteSet(A) /\ IsFiniteSet(B) /\ Cardinality(A) \in Nat /\ Cardinality(B) \in Nat
      /\ Cardinality(A \cap B) \in Nat
  BY Counting
<1>2. Cardinality(A \cup B) = Cardinality(A) + Cardinality(B) - Cardinality(A \cap B)
  BY <1>1, FS_Union
<1>. QED  BY <1>1, <1>2

LEMMA CardOne == \A n \in Names : Cardinality({n}) = 1
  BY FS_Singleton

\* A rotation dooms old files of its directory, and of the periodic ones the first.
LEMMA SurplusIsOld ==
  ASSUME TypeOK, NEW p \in Procs, NEW dir \in Dirs, p \in Restorers => dir = "prerestore",
         NEW n \in Surplus(p, dir)
  PROVE  /\ n \in In(dir) /\ n \in Names
         /\ <<dir, n>> \in OldFiles
         /\ p \in Hooks => \A m \in In(dir) : m < n => m \in Surplus(p, dir)
<1>. DEFINE I == In(dir)
            free == {m \in I : p \in Restorers => [name |-> m, dir |-> dir] #
                                                   [name |-> source[p].name, dir |-> source[p].dir]}
            below(k) == {m \in free : m < k}
            kept == I \ free
<1>1. n \in free /\ Cardinality(below(n)) < Cardinality(I) - Quota[dir]
  BY DEF Surplus
<1>2. I \subseteq Names /\ free \subseteq Names /\ below(n) \subseteq Names /\ kept \subseteq Names
      /\ Above(I, n) \subseteq Names /\ n \in Names
  BY <1>1 DEF In, Above
<1>3. Cardinality(I) \in Nat /\ Cardinality(below(n)) \in Nat /\ Cardinality(Above(I, n)) \in Nat
      /\ Cardinality(kept) \in Nat /\ Quota[dir] \in Nat
  BY <1>2, Counting, Bounds
<1>4. I \subseteq (below(n) \cup Above(I, n)) \cup ({n} \cup kept)
  <2>1. \A m \in I : m \in Nat /\ n \in Nat
    BY <1>2, NamesAreNumbers
  <2>. QED  BY <2>1 DEF Above
<1>5. Cardinality(I) <= Cardinality(below(n)) + Cardinality(Above(I, n)) + 1 + Cardinality(kept)
  <2>1. Cardinality(I) <= Cardinality((below(n) \cup Above(I, n)) \cup ({n} \cup kept))
    BY <1>2, <1>4, Counting
  <2>2. Cardinality((below(n) \cup Above(I, n)) \cup ({n} \cup kept))
        <= Cardinality(below(n) \cup Above(I, n)) + Cardinality({n} \cup kept)
    BY <1>2, CardUnion
  <2>3. Cardinality(below(n) \cup Above(I, n)) <= Cardinality(below(n)) + Cardinality(Above(I, n))
    BY <1>2, CardUnion
  <2>4. Cardinality({n} \cup kept) <= 1 + Cardinality(kept)
    BY <1>2, CardUnion, CardOne
  <2>5. /\ Cardinality((below(n) \cup Above(I, n)) \cup ({n} \cup kept)) \in Nat
        /\ Cardinality(below(n) \cup Above(I, n)) \in Nat /\ Cardinality({n} \cup kept) \in Nat
    BY <1>2, Counting
  <2>. QED  BY <2>1, <2>2, <2>3, <2>4, <2>5, <1>3
<1>6. Cardinality(kept) <= IF dir = "prerestore" THEN 1 ELSE 0
  <2>1. CASE p \in Restorers
    <3>1. kept \subseteq {source[p].name}
      OBVIOUS
    <3>2. kept = {} \/ (kept = {source[p].name} /\ source[p].name \in Names)
      BY <3>1, <1>2
    <3>3. Cardinality(kept) \in {0, 1}
      BY <3>2, FS_EmptySet, CardOne
    <3>. QED  BY <2>1, <3>3
  <2>2. CASE p \notin Restorers
    <3>1. kept = {}
      BY <2>2
    <3>2. Cardinality(kept) = 0
      BY <3>1, FS_EmptySet
    <3>. QED  BY <3>2
  <2>. QED  BY <2>1, <2>2
<1>7. Cardinality(Above(I, n)) >= Least(dir)
  BY <1>1, <1>3, <1>5, <1>6 DEF Least
<1>8. ASSUME p \in Hooks, NEW m \in In(dir), m < n
      PROVE  m \in Surplus(p, dir)
  <2>1. m \in free
    BY <1>8, SnapshotsAssumption
  <2>2. below(m) \subseteq below(n) /\ m \in Names
    <3>1. \A k \in I : k \in Nat /\ n \in Nat
      BY <1>2, NamesAreNumbers
    <3>. QED  BY <3>1, <1>2, <1>8
  <2>3. Cardinality(below(m)) <= Cardinality(below(n)) /\ Cardinality(below(m)) \in Nat
    BY <2>2, <1>2, Counting
  <2>. QED  BY <2>1, <2>3, <1>1, <1>3 DEF Surplus
<1>. QED  BY <1>1, <1>2, <1>7, <1>8 DEF OldFiles

--------------------------------------------------------------------------------
\* What steps do to the directories.  First, those that move no file.
LEMMA DirsSame ==
  ASSUME TypeOK, \A n \in Names : file'[n].dir = file[n].dir /\ file'[n].taken = file[n].taken
  PROVE  OldFiles \subseteq OldFiles' /\ CoveredDays \subseteq CoveredDays'
<1>1. \A dir \in Dirs : {n \in Names : file'[n].dir = dir} = {n \in Names : file[n].dir = dir}
  OBVIOUS
<1>2. OldFiles' = OldFiles
  BY <1>1 DEF OldFiles, In, Above, Least
<1>3. \A d \in Nat : /\ {m \in {n \in Names : file'[n].dir = "daily"} : file'[m].taken \div 2 = d}
                        = {m \in {n \in Names : file[n].dir = "daily"} : file[m].taken \div 2 = d}
                     /\ {m \in {n \in Names : file'[n].dir = "daily"} : file'[m].taken \div 2 > d}
                        = {m \in {n \in Names : file[n].dir = "daily"} : file[m].taken \div 2 > d}
  OBVIOUS
<1>4. CoveredDays' = CoveredDays
  BY <1>3 DEF CoveredDays, OfDay, AfterDay, In, Day
<1>. QED  BY <1>2, <1>4

\* A file that comes to a directory.
LEMMA DirsGrow ==
  ASSUME TypeOK, TypeOK', NEW g \in Names, file[g].dir = "none",
         \A n \in Names \ {g} : file'[n] = file[n]
  PROVE  OldFiles \subseteq OldFiles' /\ CoveredDays \subseteq CoveredDays'
<1>. DEFINE T(dir) == {n \in Names : file'[n].dir = dir}
<1>1. \A dir \in Dirs : In(dir) \subseteq T(dir) /\ In(dir) \subseteq Names
  BY DEF In, Dirs
<1>2. ASSUME NEW dir \in Dirs, NEW n \in Names, Cardinality(Above(In(dir), n)) >= Least(dir)
      PROVE  Cardinality(Above(T(dir), n)) >= Least(dir)
  <2>1. Above(In(dir), n) \subseteq Above(T(dir), n) /\ Above(T(dir), n) \subseteq Names
    BY <1>1 DEF Above
  <2>2. Cardinality(Above(In(dir), n)) <= Cardinality(Above(T(dir), n))
        /\ Cardinality(Above(In(dir), n)) \in Nat /\ Cardinality(Above(T(dir), n)) \in Nat
    BY <2>1, Counting
  <2>. QED  BY <1>2, <2>2, Bounds
<1>3. OldFiles \subseteq OldFiles'
  BY <1>2 DEF OldFiles, In, Above, Least
<1>4. ASSUME NEW d \in Nat
      PROVE  /\ OfDay(d) \subseteq OfDay(d)' /\ AfterDay(d) \subseteq AfterDay(d)'
             /\ AfterDay(d) \subseteq Names /\ AfterDay(d)' \subseteq Names
  BY DEF OfDay, AfterDay, In, Day
<1>5. ASSUME NEW d \in Nat
      PROVE  /\ Cardinality(AfterDay(d)) <= Cardinality(AfterDay(d)')
             /\ Cardinality(AfterDay(d)) \in Nat /\ Cardinality(AfterDay(d)') \in Nat
  BY <1>4, Counting
<1>6. Quota["daily"] \in Nat
  BY Bounds DEF Dirs
<1>7. CoveredDays \subseteq CoveredDays'
  BY <1>4, <1>5, <1>6 DEF CoveredDays
<1>. QED  BY <1>3, <1>7

\* A file that leaves its directory, being old in it: for daily/ if it is not the
\* only one of its day, or as the first of the days that are left.
LEMMA DirsShrink ==
  ASSUME TypeOK, TypeOK', TakenInOrder, NEW g \in Names, NEW from \in Dirs, file[g].dir = from,
         <<from, g>> \in OldFiles,
         \A n \in Names \ {g} : file'[n] = file[n],
         from = "periodic" \/ file'[g].dir = "none"
  PROVE  OldFiles \subseteq OldFiles' /\ CoveredDays \subseteq CoveredDays'
<1>. DEFINE T(dir) == {n \in Names : file'[n].dir = dir}
<1>1. ASSUME NEW dir \in Dirs
      PROVE  In(dir) \ {g} \subseteq T(dir) /\ In(dir) \subseteq Names /\ T(dir) \subseteq Names
  BY DEF In
<1>2. ASSUME NEW dir \in Dirs, NEW n \in Names, Cardinality(Above(In(dir), n)) >= Least(dir)
      PROVE  Cardinality(Above(T(dir), n)) >= Least(dir)
  <2>1. g \in In(dir) => Cardinality(Above(In(dir), g)) >= Least(dir)
    BY DEF In, OldFiles
  <2>2. Least(dir) \in Nat
    BY Bounds
  <2>. QED  BY <1>1, <1>2, <2>1, <2>2, AboveKept
<1>3. OldFiles \subseteq OldFiles'
  BY <1>2 DEF OldFiles, In, Above, Least
<1>4. ASSUME NEW d \in CoveredDays
      PROVE  d \in CoveredDays'
  <2>. DEFINE O == {n \in T("daily") : Day(n) = d}
              A == {n \in T("daily") : Day(n) > d}
              Q == Quota["daily"]
  <2>0. d \in Nat /\ Q \in Nat /\ Least("daily") = Q /\ "daily" \in Dirs
    BY Bounds DEF CoveredDays, Least, Dirs
  <2>1. \A n \in Names \ {g} : file'[n].taken = file[n].taken
    OBVIOUS
  <2>2. (O \ {g} # {} \/ Cardinality(A \ {g}) >= Q) => d \in CoveredDays'
    <3>1. O \ {g} \subseteq OfDay(d)' /\ A \ {g} \subseteq AfterDay(d)' /\ AfterDay(d)' \subseteq Names
      BY <2>1 DEF OfDay, AfterDay, In, Day
    <3>2. Cardinality(A \ {g}) <= Cardinality(AfterDay(d)') /\ Cardinality(A \ {g}) \in Nat
          /\ Cardinality(AfterDay(d)') \in Nat
      BY <3>1, Counting
    <3>. QED  BY <3>1, <3>2, <2>0 DEF CoveredDays
  <2>3. In("daily") \ {g} \subseteq T("daily")
    BY <1>1, <2>0
  <2>4. \A n \in Names : Day(n) \in Nat /\ file[n].taken \in Nat
    BY Bounds DEF TypeOK, Day
  <2>5. CASE g \in In("daily") /\ Day(g) >= d
    <3>1. Cardinality(Above(In("daily"), g)) >= Q
      BY <2>5, <2>0 DEF OldFiles, In
    <3>2. \A n \in Above(In("daily"), g) : n \in T("daily") \ {g} /\ Day(n) >= Day(g) /\ Day(g) \in Nat /\ Day(n) \in Nat
      <4>. SUFFICES ASSUME NEW n \in Above(In("daily"), g) PROVE n \in T("daily") \ {g} /\ Day(n) >= Day(g) /\ Day(g) \in Nat /\ Day(n) \in Nat
        OBVIOUS
      <4>1. n \in In("daily") /\ n > g /\ n \in Names /\ n \in Nat /\ g \in Nat
        BY NamesAreNumbers DEF Above, In
      <4>2. file[g].taken <= file[n].taken /\ file[n].taken \in Nat /\ file[g].taken \in Nat
        BY <4>1, <2>4, <2>5 DEF TakenInOrder, In
      <4>3. Day(n) >= Day(g)
        BY <4>2 DEF Day
      <4>. QED  BY <4>1, <4>3, <2>3, <2>4
    <3>3. CASE \E n \in Above(In("daily"), g) : Day(n) = d
      BY <3>2, <3>3, <2>2
    <3>4. CASE \A n \in Above(In("daily"), g) : Day(n) # d
      <4>1. Above(In("daily"), g) \subseteq A \ {g} /\ A \ {g} \subseteq Names
        BY <3>2, <3>4, <2>5, <2>0
      <4>2. Cardinality(Above(In("daily"), g)) <= Cardinality(A \ {g})
            /\ Cardinality(Above(In("daily"), g)) \in Nat /\ Cardinality(A \ {g}) \in Nat
        BY <4>1, Counting
      <4>. QED  BY <3>1, <4>2, <2>0, <2>2
    <3>. QED  BY <3>3, <3>4
  <2>6. CASE ~(g \in In("daily") /\ Day(g) >= d)
    <3>1. OfDay(d) \subseteq O \ {g}
      BY <2>6, <2>3, <2>4, <2>0 DEF OfDay
    <3>2. AfterDay(d) \subseteq A \ {g} /\ A \ {g} \subseteq Names
      BY <2>6, <2>3, <2>4, <2>0 DEF AfterDay
    <3>3. Cardinality(AfterDay(d)) <= Cardinality(A \ {g})
          /\ Cardinality(AfterDay(d)) \in Nat /\ Cardinality(A \ {g}) \in Nat
      BY <3>2, Counting
    <3>. QED  BY <3>1, <3>3, <2>0, <2>2 DEF CoveredDays
  <2>. QED  BY <2>5, <2>6
<1>. QED  BY <1>3, <1>4

--------------------------------------------------------------------------------
SourceNamed == \A r \in Restorers : pc[r] # "idle" => source[r].name \in Names

\* The directories, whatever overlaps, dies or fails.
LEMMA DirInit == Init => DirInv
<1> SUFFICES ASSUME Init PROVE DirInv
  OBVIOUS
<1>1. TypeOK
  <2>1. file \in [Names -> AFile]
    BY NoFileIsAFile DEF Init
  <2>2. NoSource \in [name : 0..MaxName, dir : Dirs \cup {"none"}, rows : 0..MaxRows]
    BY Bounds DEF NoSource
  <2>3. 0 \in 0..MaxName /\ 0 \in 0..MaxNow /\ 0 \in 0..MaxFaults
    BY Bounds
  <2>. QED  BY <2>1, <2>2, <2>3 DEF Init, TypeOK, AFile
<1>. QED  BY <1>1, Bounds DEF DirInv, Init, Named, TakenInOrder, DoomedAreOld, DaysCovered, NoFile

\* A step that moves no file, begins no snapshot and dooms none anew.
LEMMA DirQuiet ==
  ASSUME DirInv, TypeOK', UNCHANGED begun, now' >= now,
         \A n \in Names : file'[n].dir = file[n].dir /\ file'[n].taken = file[n].taken,
         \A p \in Procs : mine'[p] \in {mine[p], 0},
         \A p \in Procs : /\ doomed'[p] \in {doomed[p], {}}
                          /\ doomed'[p] # {} => pc'[p] = pc[p]
                          /\ pc'[p] \in {"dates", "list", "promote"} => p \in Hooks,
         \A h \in Hooks : dates'[h] \in {dates[h], {}}
  PROVE  DirInv'
<1>1. OldFiles \subseteq OldFiles' /\ CoveredDays \subseteq CoveredDays'
  BY DirsSame DEF DirInv
<1>2. Named'
  BY Typed DEF DirInv, Named
<1>3. TakenInOrder'
  <2>1. /\ \A n \in Names : file[n].taken \in Nat /\ file[n].taken <= now
        /\ now \in Nat /\ now' \in Nat
    BY Bounds DEF DirInv, TakenInOrder, TypeOK
  <2>. QED  BY <2>1 DEF DirInv, TakenInOrder
<1>4. DoomedAreOld'
  BY <1>1 DEF DirInv, DoomedAreOld, Rotated, Plain
<1>5. DaysCovered'
  BY <1>1 DEF DirInv, DaysCovered
<1>. QED  BY <1>2, <1>3, <1>4, <1>5 DEF DirInv

LEMMA DirWorld ==
  ASSUME DirInv, StartServer \/ StopServer \/ Write \/ Lose \/ Pass
  PROVE  DirInv'
<1>1. TypeOK'
  <2>1. db' \in 0..MaxRows /\ serving' \in BOOLEAN /\ now' \in 0..MaxNow
    <3>1. /\ db \in 0..MaxRows /\ serving \in BOOLEAN /\ now \in 0..MaxNow
          /\ db \in Nat /\ now \in Nat /\ MaxRows \in Nat /\ MaxNow \in Nat
      BY Bounds, Typed DEF DirInv, TypeOK
    <3>2. CASE StartServer \/ StopServer
      BY <3>1, <3>2 DEF StartServer, StopServer
    <3>3. CASE Write
      BY <3>1, <3>3 DEF Write
    <3>4. CASE Lose
      BY <3>1, <3>4 DEF Lose
    <3>5. CASE Pass
      BY <3>1, <3>5 DEF Pass
    <3>. QED  BY <3>2, <3>3, <3>4, <3>5
  <2>. QED  BY <2>1 DEF DirInv, TypeOK, StartServer, StopServer, Write, Lose, Pass
<1>2. UNCHANGED <<begun, file, mine, doomed, pc, dates>> /\ now' >= now
  BY DEF DirInv, TypeOK, StartServer, StopServer, Write, Lose, Pass
<1>. QED  BY <1>1, <1>2, DirQuiet DEF DirInv, DoomedAreOld

LEMMA DirHookStart ==
  ASSUME DirInv, NEW h \in Hooks, HookStart(h)
  PROVE  DirInv'
<1>1. pc' = [pc EXCEPT ![h] = "reserve"] /\ UNCHANGED <<begun, now, file, mine, doomed, dates>>
      /\ pc[h] = "idle" /\ h \in Procs
  BY DEF HookStart, Procs
<1>2. TypeOK'
  BY <1>1 DEF DirInv, TypeOK, HookStart
<1>3. pc'[h] = "reserve" /\ doomed[h] = {} /\ \A p \in Procs \ {h} : pc'[p] = pc[p]
  BY <1>1 DEF DirInv, TypeOK, DoomedAreOld
<1>4. now' >= now
  BY <1>1, Bounds DEF DirInv, TypeOK
<1>. QED  BY <1>1, <1>2, <1>3, <1>4, DirQuiet DEF DirInv, DoomedAreOld

LEMMA DirFail ==
  ASSUME DirInv, NEW p \in Procs, Fail(p)
  PROVE  DirInv'
<1>1. UNCHANGED <<begun, now, file>> /\ mine' = [mine EXCEPT ![p] = 0]
  BY DEF Fail
<1>2. TypeOK'
  BY Bounds DEF DirInv, TypeOK, Fail, NoSource
<1>3. now' >= now
  BY <1>1, Bounds DEF DirInv, TypeOK
<1>4. \A q \in Procs : mine'[q] \in {mine[q], 0}
  BY <1>1 DEF DirInv, TypeOK
<1>5. CASE pc' = [pc EXCEPT ![p] = "idle"] /\ doomed' = [doomed EXCEPT ![p] = {}]
           /\ dates' = [h \in Hooks |-> IF h = p THEN {} ELSE dates[h]]
  <2>1. \A q \in Procs : /\ doomed'[q] \in {doomed[q], {}}
                         /\ doomed'[q] # {} => pc'[q] = pc[q]
                         /\ pc'[q] \in {"dates", "list", "promote"} => q \in Hooks
    BY <1>5 DEF DirInv, TypeOK, DoomedAreOld
  <2>2. \A h \in Hooks : dates'[h] \in {dates[h], {}}
    BY <1>5
  <2>. QED  BY <1>1, <1>2, <1>3, <1>4, <2>1, <2>2, DirQuiet
<1>6. CASE pc' = [pc EXCEPT ![p] = "reserveRaw"] /\ pc[p] = "copy" /\ UNCHANGED <<doomed, dates>>
  <2>1. \A q \in Procs : /\ doomed'[q] = doomed[q]
                         /\ doomed'[q] # {} => pc'[q] = pc[q]
                         /\ pc'[q] \in {"dates", "list", "promote"} => q \in Hooks
    BY <1>6 DEF DirInv, TypeOK, DoomedAreOld
  <2>. QED  BY <1>1, <1>2, <1>3, <1>4, <1>6, <2>1, DirQuiet
<1>. QED  BY <1>5, <1>6 DEF Fail

LEMMA DirReserve ==
  ASSUME DirInv, NEW p \in Procs, Reserve(p)
  PROVE  DirInv'
<1>. DEFINE g == begun + 1
            new == [NoFile EXCEPT !.dir = Home(p), !.taken = now]
<1>1. /\ begun' = g /\ mine' = [mine EXCEPT ![p] = g] /\ file' = [file EXCEPT ![g] = new]
      /\ pc' = [pc EXCEPT ![p] = IF pc[p] = "reserve" THEN "copy" ELSE "copyRaw"]
      /\ pc[p] \in {"reserve", "reserveRaw"} /\ begun < MaxName
      /\ UNCHANGED <<db, serving, now, source, dates, doomed, faults>>
  BY DEF Reserve
<1>2. TypeOK /\ g \in Names /\ g > begun /\ begun \in Nat /\ now \in 0..MaxNow /\ now \in Nat
  <2>1. TypeOK
    BY DEF DirInv
  <2>. QED  BY <1>1, <2>1, Typed, Bounds DEF Names
<1>3. file[g].dir = "none"
  BY <1>2 DEF DirInv, Named
<1>4. new \in AFile /\ new.dir \in Dirs /\ new.taken = now
  <2>1. Home(p) \in Dirs
    BY Bounds DEF Dirs
  <2>2. new.dir = Home(p) /\ new.taken = now
    BY NoFileIsAFile DEF AFile
  <2>3. new \in AFile
    BY <2>1, <1>2, NoFileIsAFile DEF AFile
  <2>. QED  BY <2>1, <2>2, <2>3
<1>. HIDE DEF new
<1>5. TypeOK'
  <2>1. file' \in [Names -> AFile]
    BY <1>1, <1>2, <1>4 DEF TypeOK, AFile
  <2>2. begun' \in 0..MaxName /\ mine' \in [Procs -> 0..MaxName]
    BY <1>1, <1>2, Bounds DEF TypeOK, Names
  <2>. QED  BY <1>1, <1>2, <2>1, <2>2 DEF TypeOK, AFile
<1>6. file'[g] = new /\ \A n \in Names \ {g} : file'[n] = file[n]
  BY <1>1, <1>2 DEF TypeOK
<1>7. OldFiles \subseteq OldFiles' /\ CoveredDays \subseteq CoveredDays'
  BY <1>2, <1>3, <1>5, <1>6, DirsGrow
<1>8. Named'
  <2>1. \A n \in Names : n > g => n > begun /\ n # g
    BY <1>2, NamesAreNumbers
  <2>2. \A q \in Procs : mine[q] \in Nat /\ mine[q] <= begun
    BY Bounds DEF DirInv, Named, TypeOK
  <2>3. \A q \in Procs : mine'[q] <= g
    BY <1>1, <1>2, <2>2 DEF TypeOK
  <2>4. \A q \in Procs : \A n \in doomed'[q] : n <= g
    <3>1. \A q \in Procs : \A n \in doomed[q] : n \in Nat /\ n <= begun
      BY NamesAreNumbers DEF DirInv, Named, TypeOK
    <3>. QED  BY <3>1, <1>1, <1>2
  <2>5. \A n \in Names : n > begun => file[n].dir = "none"
    BY DEF DirInv, Named
  <2>. QED  BY <2>1, <2>3, <2>4, <2>5, <1>1, <1>6 DEF Named
<1>9. TakenInOrder'
  <2>1. \A n \in Names : file[n].dir # "none" => n < g
    <3>1. \A n \in Names : file[n].dir # "none" => n <= begun
      BY <1>2, NamesAreNumbers DEF DirInv, Named
    <3>. QED  BY <3>1, <1>2, NamesAreNumbers
  <2>2. \A n \in Names : file[n].taken \in Nat /\ file[n].taken <= now
    BY Bounds DEF DirInv, TakenInOrder, TypeOK
  <2>3. \A n \in Names : file'[n].taken <= now'
    BY <1>1, <1>2, <1>4, <1>6, <2>2
  <2>4. ASSUME NEW m \in Names, NEW n \in Names, m < n, file'[m].dir # "none", file'[n].dir # "none"
        PROVE  file'[m].taken <= file'[n].taken
    <3>1. CASE n = g
      BY <3>1, <2>2, <2>4, <1>4, <1>6, NamesAreNumbers
    <3>2. CASE n # g
      <4>1. m # g
        BY <3>2, <2>1, <2>4, <1>2, <1>6, NamesAreNumbers
      <4>. QED  BY <3>2, <4>1, <2>4, <1>6 DEF DirInv, TakenInOrder
    <3>. QED  BY <3>1, <3>2
  <2>. QED  BY <2>3, <2>4 DEF TakenInOrder
<1>10. DoomedAreOld'
  <2>1. doomed[p] = {}
    BY <1>1 DEF DirInv, DoomedAreOld
  <2>2. pc'[p] \in {"copy", "copyRaw"} /\ \A q \in Procs \ {p} : pc'[q] = pc[q]
    BY <1>1, <1>2 DEF TypeOK
  <2>. QED  BY <2>1, <2>2, <1>1, <1>7 DEF DirInv, DoomedAreOld, Rotated, Plain
<1>11. DaysCovered'
  BY <1>1, <1>7 DEF DirInv, DaysCovered
<1>. QED  BY <1>5, <1>8, <1>9, <1>10, <1>11 DEF DirInv

LEMMA DirCopyDescribe ==
  ASSUME DirInv, NEW p \in Procs, Copy(p) \/ Describe(p)
  PROVE  DirInv'
<1>. DEFINE g == mine[p]
            copied == [file[g] EXCEPT !.rows = db, !.copied = TRUE]
            described == [file[g] EXCEPT !.described = TRUE, !.counts = db]
<1>1. file' = [file EXCEPT ![g] = copied] \/ file' = [file EXCEPT ![g] = described]
  BY DEF Copy, Describe
<1>2. TypeOK
  BY DEF DirInv
<1>3. g \in Names => /\ file[g] \in AFile /\ copied \in AFile /\ described \in AFile
                     /\ copied.dir = file[g].dir /\ copied.taken = file[g].taken
                     /\ described.dir = file[g].dir /\ described.taken = file[g].taken
  <2>1. \A f \in AFile, k \in 0..MaxRows :
           /\ [f EXCEPT !.rows = k, !.copied = TRUE] \in AFile
           /\ [f EXCEPT !.rows = k, !.copied = TRUE].dir = f.dir
           /\ [f EXCEPT !.rows = k, !.copied = TRUE].taken = f.taken
           /\ [f EXCEPT !.described = TRUE, !.counts = k] \in AFile
           /\ [f EXCEPT !.described = TRUE, !.counts = k].dir = f.dir
           /\ [f EXCEPT !.described = TRUE, !.counts = k].taken = f.taken
    BY DEF AFile
  <2>. QED  BY <2>1, <1>2, Typed
<1>. HIDE DEF copied, described
<1>4. /\ file' \in [Names -> AFile]
      /\ \A n \in Names : file'[n].dir = file[n].dir /\ file'[n].taken = file[n].taken
  <2>1. file \in [Names -> AFile]
    BY <1>2, Typed
  <2>. QED  BY <2>1, <1>1, <1>3
<1>5. /\ pc' \in [Procs -> {"idle", "reserve", "reserveRaw", "copy", "copyRaw", "describe", "dates",
                            "list", "promote", "listPlain", "prune", "write"}]
      /\ mine' \in [Procs -> 0..MaxName]
      /\ UNCHANGED <<db, serving, now, begun, source, dates, doomed, faults>>
  BY <1>2, Bounds DEF TypeOK, Copy, Describe
<1>6. TypeOK'
  BY <1>2, <1>4, <1>5 DEF TypeOK, AFile
<1>7. \A q \in Procs : mine'[q] \in {mine[q], 0}
  BY <1>2 DEF TypeOK, Copy, Describe
<1>8. \A q \in Procs : /\ doomed'[q] = doomed[q]
                       /\ doomed'[q] # {} => pc'[q] = pc[q]
                       /\ pc'[q] \in {"dates", "list", "promote"} => q \in Hooks
  BY <1>2, <1>5 DEF DirInv, TypeOK, DoomedAreOld, Copy, Describe
<1>9. now' >= now
  BY <1>2, <1>5, Bounds DEF TypeOK
<1>. QED  BY <1>4, <1>5, <1>6, <1>7, <1>8, <1>9, DirQuiet

\* What a step that moves no file and dooms some files anew leaves as it was.
LEMMA DirListing ==
  ASSUME DirInv, TypeOK', NEW p \in Procs,
         UNCHANGED <<db, serving, now, begun, file, mine, source, faults>>,
         \A q \in Procs \ {p} : doomed'[q] = doomed[q] /\ pc'[q] = pc[q],
         doomed'[p] # {} => pc'[p] \in {"promote", "prune"},
         pc'[p] \in {"dates", "list", "promote"} => p \in Hooks,
         \A n \in doomed'[p] : n <= begun /\ <<Rotated(p)', n>> \in OldFiles,
         \A h \in Hooks : dates'[h] \in {dates[h], {}} \/ dates'[h] \subseteq CoveredDays
  PROVE  DirInv'
<1>1. OldFiles' = OldFiles /\ CoveredDays' = CoveredDays
  BY DEF OldFiles, CoveredDays, In, Above, Least, OfDay, AfterDay, Day
<1>2. Named' /\ TakenInOrder'
  BY DEF DirInv, Named, TakenInOrder
<1>3. DoomedAreOld'
  BY <1>1 DEF DirInv, DoomedAreOld, Rotated, Plain
<1>4. DaysCovered'
  BY <1>1 DEF DirInv, DaysCovered
<1>. QED  BY <1>2, <1>3, <1>4 DEF DirInv

LEMMA DirReadDates ==
  ASSUME DirInv, NEW h \in Hooks, ReadDates(h)
  PROVE  DirInv'
<1>. DEFINE days == {Day(n) : n \in In("daily")}
<1>1. /\ dates' = [dates EXCEPT ![h] = days] /\ pc' = [pc EXCEPT ![h] = "list"] /\ pc[h] = "dates"
      /\ UNCHANGED <<db, serving, now, begun, file, mine, source, doomed, faults>> /\ h \in Procs
  BY DEF ReadDates, Procs
<1>2. \A n \in In("daily") : Day(n) \in 0..MaxNow /\ Day(n) \in Nat
  <2>1. \A n \in Names : file[n].taken \in 0..MaxNow /\ file[n].taken \in Nat
    BY Typed DEF DirInv, AFile
  <2>2. \A t \in 0..MaxNow : t \div 2 \in 0..MaxNow
    BY Bounds
  <2>3. \A t \in Nat : t \div 2 \in Nat
    OBVIOUS
  <2>. QED  BY <2>1, <2>2, <2>3 DEF Day, In
<1>3. days \subseteq CoveredDays
  BY <1>2 DEF CoveredDays, OfDay
<1>4. TypeOK'
  BY <1>1, <1>2 DEF DirInv, TypeOK
<1>5. doomed[h] = {} /\ pc'[h] = "list" /\ \A q \in Procs \ {h} : pc'[q] = pc[q]
  BY <1>1 DEF DirInv, TypeOK, DoomedAreOld
<1>6. \A k \in Hooks : dates'[k] = dates[k] \/ dates'[k] = days
  BY <1>1 DEF DirInv, TypeOK
<1>. QED  BY <1>1, <1>3, <1>4, <1>5, <1>6, DirListing

LEMMA DirList ==
  ASSUME DirInv, NEW p \in Procs, (p \in Hooks /\ ListPeriodic(p)) \/ ListPlain(p)
  PROVE  DirInv'
<1>. DEFINE dir == IF pc[p] = "list" THEN "periodic" ELSE Plain(p)
            next == IF pc[p] = "list" THEN "promote" ELSE "prune"
<1>1. /\ doomed' = [doomed EXCEPT ![p] = Surplus(p, dir)] /\ pc' = [pc EXCEPT ![p] = next]
      /\ pc[p] = "list" => p \in Hooks
      /\ UNCHANGED <<db, serving, now, begun, file, mine, source, dates, faults>>
  BY DEF ListPeriodic, ListPlain
<1>2. TypeOK
  BY DEF DirInv
<1>3. dir \in Dirs /\ (p \in Restorers => dir = "prerestore")
  BY <1>1, SnapshotsAssumption DEF Dirs, Plain
<1>4. \A n \in Surplus(p, dir) : n \in Names /\ n \in In(dir) /\ <<dir, n>> \in OldFiles
  BY <1>2, <1>3, SurplusIsOld
<1>5. \A n \in Surplus(p, dir) : n <= begun
  <2>. SUFFICES ASSUME NEW n \in In(dir) PROVE n <= begun
    BY <1>4
  <2>1. n \in Names /\ n \in Nat /\ begun \in Nat /\ file[n].dir # "none"
    BY <1>2, <1>3, NamesAreNumbers, Typed DEF In, Dirs
  <2>2. ~(n > begun)
    BY <2>1 DEF DirInv, Named
  <2>. QED  BY <2>1, <2>2
<1>6. TypeOK'
  BY <1>1, <1>2, <1>4 DEF TypeOK
<1>7. /\ doomed'[p] = Surplus(p, dir) /\ pc'[p] = next
      /\ \A q \in Procs \ {p} : doomed'[q] = doomed[q] /\ pc'[q] = pc[q]
  BY <1>1, <1>2 DEF TypeOK
<1>8. Rotated(p)' = dir
  BY <1>7 DEF Rotated, Plain
<1>. QED  BY <1>1, <1>4, <1>5, <1>6, <1>7, <1>8, DirListing

LEMMA DirListed ==
  ASSUME DirInv, NEW p \in Procs, (p \in Hooks /\ Promoted(p)) \/ Pruned(p)
  PROVE  DirInv'
<1>1. /\ UNCHANGED <<db, serving, now, begun, file, mine, source, doomed, faults>>
      /\ \E next \in {"listPlain", "idle", "write"} : pc' = [pc EXCEPT ![p] = next]
      /\ doomed[p] = {}
      /\ dates' = dates \/ (p \in Hooks /\ dates' = [dates EXCEPT ![p] = {}])
  BY DEF Promoted, Pruned
<1>2. TypeOK'
  BY <1>1 DEF DirInv, TypeOK
<1>3. pc'[p] \in {"listPlain", "idle", "write"} /\ \A q \in Procs \ {p} : pc'[q] = pc[q]
  BY <1>1 DEF DirInv, TypeOK
<1>4. \A h \in Hooks : dates'[h] \in {dates[h], {}}
  BY <1>1 DEF DirInv, TypeOK
<1>. QED  BY <1>1, <1>2, <1>3, <1>4, DirListing

LEMMA DirRestore ==
  ASSUME DirInv, SourceNamed, NEW r \in Restorers, RestoreWrite(r) \/ \E n \in Names : RestoreStart(r, n)
  PROVE  DirInv'
<1>0. TypeOK /\ r \in Procs
  BY DEF DirInv, Procs
<1>1. /\ UNCHANGED <<serving, now, begun, file, mine, dates, doomed, faults>>
      /\ \E next \in {"idle", "reserve"} : pc' = [pc EXCEPT ![r] = next]
      /\ pc[r] \in {"idle", "write"}
  BY DEF RestoreWrite, RestoreStart
<1>2. db' \in 0..MaxRows
  <2>1. \A n \in Names : file[n].rows \in 0..MaxRows
    BY <1>0, Typed DEF AFile
  <2>2. db \in 0..MaxRows /\ 0 \in 0..MaxRows
    BY <1>0, Typed, Bounds
  <2>3. CASE RestoreWrite(r)
    <3>1. source[r].name \in Names
      BY <2>3 DEF RestoreWrite, SourceNamed
    <3>. QED  BY <2>1, <2>2, <2>3, <3>1 DEF RestoreWrite
  <2>4. CASE \E n \in Names : RestoreStart(r, n)
    BY <1>0, <2>4, Typed DEF RestoreStart
  <2>. QED  BY <2>3, <2>4
<1>3. source' \in [Restorers -> [name : 0..MaxName, dir : Dirs \cup {"none"}, rows : 0..MaxRows]]
  <2>1. \A n \in Names : /\ n \in 0..MaxName /\ file[n].rows \in 0..MaxRows
                         /\ file[n].dir \in Dirs \cup {"none"}
    BY <1>0, Typed, Bounds DEF AFile, Names
  <2>2. NoSource \in [name : 0..MaxName, dir : Dirs \cup {"none"}, rows : 0..MaxRows]
    BY Bounds DEF NoSource
  <2>3. source \in [Restorers -> [name : 0..MaxName, dir : Dirs \cup {"none"}, rows : 0..MaxRows]]
    BY <1>0 DEF TypeOK
  <2>4. CASE RestoreWrite(r)
    BY <2>2, <2>3, <2>4 DEF RestoreWrite
  <2>5. ASSUME NEW n \in Names, RestoreStart(r, n)
        PROVE  source' \in [Restorers -> [name : 0..MaxName, dir : Dirs \cup {"none"}, rows : 0..MaxRows]]
    BY <2>1, <2>3, <2>5 DEF RestoreStart
  <2>. QED  BY <2>4, <2>5
<1>4. TypeOK'
  BY <1>0, <1>1, <1>2, <1>3 DEF TypeOK
<1>5. /\ doomed[r] = {} /\ pc'[r] \in {"idle", "reserve"}
      /\ \A q \in Procs \ {r} : pc'[q] = pc[q]
  BY <1>0, <1>1 DEF DirInv, TypeOK, DoomedAreOld
<1>6. now' >= now
  BY <1>0, <1>1, Typed
<1>. QED  BY <1>0, <1>1, <1>4, <1>5, <1>6, DirQuiet DEF DirInv, DoomedAreOld

\* Taking a file out of the directory it is rotated from.
LEMMA DirTreat ==
  ASSUME DirInv, TypeOK', NEW p \in Procs, pc[p] \in {"promote", "prune"}, NEW g \in doomed[p],
         UNCHANGED <<begun, now, mine>>,
         \/ file' = Unlinked(g, Rotated(p))
         \/ pc[p] = "promote" /\ file[g].dir = "periodic" /\ file' = [file EXCEPT ![g].dir = "daily"],
         doomed' = [doomed EXCEPT ![p] = @ \ {g}],
         UNCHANGED pc,
         dates' = dates \/ \E h \in Hooks : dates' = [dates EXCEPT ![h] = @ \cup {Day(g)}] /\ file'[g].dir = "daily"
  PROVE  DirInv'
<1>0. TypeOK /\ g \in Names
  BY Typed DEF DirInv
<1>. DEFINE from == Rotated(p)
<1>1. from \in Dirs /\ <<from, g>> \in OldFiles
  BY Bounds DEF DirInv, DoomedAreOld, Rotated, Dirs
<1>2. /\ \A n \in Names \ {g} : file'[n] = file[n]
      /\ \/ file' = file
         \/ file[g].dir = from /\ file'[g] = NoFile
         \/ file[g].dir = from /\ from = "periodic" /\ file'[g].dir = "daily" /\ file'[g].taken = file[g].taken
  <2>1. file \in [Names -> AFile] /\ file[g] \in AFile
    BY <1>0, Typed
  <2>2. CASE file' = Unlinked(g, from)
    BY <1>0, <2>1, <2>2 DEF Unlinked
  <2>3. CASE pc[p] = "promote" /\ file[g].dir = "periodic" /\ file' = [file EXCEPT ![g].dir = "daily"]
    <3>1. file' = [file EXCEPT ![g] = [file[g] EXCEPT !.dir = "daily"]]
      BY <2>3
    <3>2. [file[g] EXCEPT !.dir = "daily"].dir = "daily" /\ [file[g] EXCEPT !.dir = "daily"].taken = file[g].taken
      BY <2>1 DEF AFile
    <3>. QED  BY <1>0, <2>1, <2>3, <3>1, <3>2 DEF Rotated
  <2>. QED  BY <2>2, <2>3
<1>. HIDE DEF from
<1>3. OldFiles \subseteq OldFiles' /\ CoveredDays \subseteq CoveredDays'
  <2>1. CASE file' = file
    BY <2>1, <1>0, DirsSame
  <2>2. CASE file[g].dir = from /\ file'[g] = NoFile
    BY <2>2, <1>0, <1>1, <1>2, DirsShrink DEF DirInv, NoFile
  <2>3. CASE file[g].dir = from /\ from = "periodic"
    BY <2>3, <1>0, <1>1, <1>2, DirsShrink DEF DirInv
  <2>. QED  BY <1>2, <2>1, <2>2, <2>3
<1>4. \/ file' = file
      \/ file'[g].dir = "none" /\ file'[g].taken = 0
      \/ file[g].dir # "none" /\ file'[g].taken = file[g].taken
  <2>1. NoFile.dir = "none" /\ NoFile.taken = 0 /\ "none" \notin Dirs
    BY DEF NoFile, Dirs
  <2>. QED  BY <1>1, <1>2, <2>1
<1>5. Named'
  <2>1. \A n \in Names : file[n].dir = "none" => file'[n].dir = "none"
    BY <1>1, <1>2 DEF NoFile, Dirs
  <2>2. \A q \in Procs : doomed'[q] \subseteq doomed[q]
    BY <1>0 DEF TypeOK
  <2>. QED  BY <2>1, <2>2 DEF DirInv, Named
<1>6. TakenInOrder'
  <2>1. \A n \in Names : file'[n].dir # "none" => file[n].dir # "none" /\ file'[n].taken = file[n].taken
    BY <1>1, <1>2, <1>4 DEF Dirs
  <2>2. \A n \in Names : file'[n].taken = file[n].taken \/ file'[n].taken = 0
    BY <1>2, <1>4
  <2>. QED  BY <2>1, <2>2, <1>0, Typed DEF DirInv, TakenInOrder
<1>7. DoomedAreOld'
  <2>1. \A q \in Procs : doomed'[q] \subseteq doomed[q]
    BY <1>0 DEF TypeOK
  <2>2. \A q \in Procs : Rotated(q)' = Rotated(q)
    BY DEF Rotated, Plain
  <2>3. \A q \in Procs : Rotated(q) = Rotated(q)
    OBVIOUS
  <2>. QED  BY <2>1, <1>3 DEF DirInv, DoomedAreOld, Rotated, Plain
<1>8. DaysCovered'
  <2>1. CASE dates' = dates
    BY <2>1, <1>3 DEF DirInv, DaysCovered
  <2>2. ASSUME NEW h \in Hooks, dates' = [dates EXCEPT ![h] = @ \cup {Day(g)}], file'[g].dir = "daily"
        PROVE  DaysCovered'
    <3>1. file'[g].taken = file[g].taken
      BY <2>2, <1>4
    <3>2. Day(g) \in Nat
      BY <1>0, Typed DEF Day
    <3>3. g \in OfDay(Day(g))'
      BY <1>0, <2>2, <3>1 DEF OfDay, In, Day
    <3>4. Day(g) \in CoveredDays'
      BY <1>0, <2>2, <3>1, <3>2 DEF CoveredDays, OfDay, In, Day
    <3>. QED  BY <2>2, <3>4, <1>3, <1>0 DEF DirInv, DaysCovered, TypeOK
  <2>. QED  BY <2>1, <2>2
<1>. QED  BY <1>5, <1>6, <1>7, <1>8 DEF DirInv

LEMMA UnlinkedType ==
  ASSUME TypeOK, NEW g \in Names, NEW dir
  PROVE  Unlinked(g, dir) \in [Names -> AFile] /\ [file EXCEPT ![g].dir = "daily"] \in [Names -> AFile]
<1>1. file \in [Names -> AFile] /\ file[g] \in AFile
  BY Typed
<1>2. [file[g] EXCEPT !.dir = "daily"] \in AFile
  BY <1>1 DEF AFile, Dirs
<1>3. [file EXCEPT ![g].dir = "daily"] = [file EXCEPT ![g] = [file[g] EXCEPT !.dir = "daily"]]
  BY <1>1
<1>. QED  BY <1>1, <1>2, <1>3, NoFileIsAFile DEF Unlinked

LEMMA DirPromote ==
  ASSUME DirInv, NEW h \in Hooks, Promote(h)
  PROVE  DirInv'
<1>0. TypeOK /\ h \in Procs /\ pc[h] = "promote" /\ Rotated(h) = "periodic"
  BY DEF DirInv, Promote, Procs, Rotated
<1>1. PICK n \in Oldest(doomed[h]) :
       \/ /\ Day(n) \in dates[h]
          /\ file' = Unlinked(n, "periodic")
          /\ doomed' = [doomed EXCEPT ![h] = @ \ {n}]
          /\ UNCHANGED <<dates, pc>>
       \/ /\ Day(n) \notin dates[h] /\ file[n].dir = "periodic"
          /\ file' = [file EXCEPT ![n].dir = "daily"]
          /\ dates' = [dates EXCEPT ![h] = @ \cup {Day(n)}]
          /\ doomed' = [doomed EXCEPT ![h] = @ \ {n}]
          /\ UNCHANGED pc
       \/ /\ Day(n) \notin dates[h] /\ file[n].dir # "periodic"
          /\ pc' = [pc EXCEPT ![h] = "idle"]
          /\ doomed' = [doomed EXCEPT ![h] = {}]
          /\ dates' = [dates EXCEPT ![h] = {}]
          /\ UNCHANGED file
  BY DEF Promote
<1>2. n \in doomed[h] /\ n \in Names
  BY <1>0, Typed DEF Oldest
<1>3. UNCHANGED <<db, serving, now, begun, mine, source, faults>>
  BY DEF Promote
<1>4. Day(n) \in 0..MaxNow
  <2>1. file[n].taken \in 0..MaxNow
    BY <1>0, <1>2, Typed DEF AFile
  <2>2. \A t \in 0..MaxNow : t \div 2 \in 0..MaxNow
    BY Bounds
  <2>. QED  BY <2>1, <2>2 DEF Day
<1>5. CASE Day(n) \in dates[h] /\ file' = Unlinked(n, "periodic")
           /\ doomed' = [doomed EXCEPT ![h] = @ \ {n}] /\ UNCHANGED <<dates, pc>>
  <2>1. file' \in [Names -> AFile]
    BY <1>0, <1>2, <1>5, UnlinkedType
  <2>2. TypeOK'
    BY <1>0, <1>3, <1>5, <2>1 DEF TypeOK, AFile
  <2>. QED  BY <1>0, <1>2, <1>3, <1>5, <2>2, DirTreat
<1>6. CASE file[n].dir = "periodic" /\ file' = [file EXCEPT ![n].dir = "daily"]
           /\ dates' = [dates EXCEPT ![h] = @ \cup {Day(n)}]
           /\ doomed' = [doomed EXCEPT ![h] = @ \ {n}] /\ UNCHANGED pc
  <2>1. file' \in [Names -> AFile]
    BY <1>0, <1>2, <1>6, UnlinkedType
  <2>2. TypeOK'
    BY <1>0, <1>3, <1>4, <1>6, <2>1 DEF TypeOK, AFile
  <2>3. file'[n].dir = "daily"
    <3>1. file \in [Names -> AFile] /\ file[n] \in AFile
      BY <1>0, <1>2, Typed
    <3>2. file' = [file EXCEPT ![n] = [file[n] EXCEPT !.dir = "daily"]]
      BY <1>6
    <3>. QED  BY <1>2, <3>1, <3>2 DEF AFile
  <2>. QED  BY <1>0, <1>2, <1>3, <1>6, <2>2, <2>3, DirTreat
<1>7. CASE pc' = [pc EXCEPT ![h] = "idle"] /\ doomed' = [doomed EXCEPT ![h] = {}]
           /\ dates' = [dates EXCEPT ![h] = {}] /\ UNCHANGED file
  <2>1. TypeOK'
    BY <1>0, <1>3, <1>7 DEF TypeOK
  <2>2. /\ \A q \in Procs : /\ doomed'[q] \in {doomed[q], {}}
                            /\ doomed'[q] # {} => pc'[q] = pc[q]
                            /\ pc'[q] \in {"dates", "list", "promote"} => q \in Hooks
        /\ \A k \in Hooks : dates'[k] \in {dates[k], {}}
    BY <1>0, <1>7 DEF DirInv, TypeOK, DoomedAreOld
  <2>3. now' >= now
    BY <1>0, <1>3, Typed
  <2>. QED  BY <1>3, <1>7, <2>1, <2>2, <2>3, DirQuiet
<1>. QED  BY <1>1, <1>5, <1>6, <1>7

LEMMA DirPrune ==
  ASSUME DirInv, NEW p \in Procs, Prune(p)
  PROVE  DirInv'
<1>0. TypeOK /\ pc[p] = "prune" /\ Rotated(p) = Plain(p)
  BY DEF DirInv, Prune, Rotated
<1>1. PICK n \in Oldest(doomed[p]) : /\ file' = Unlinked(n, Plain(p))
                                     /\ doomed' = [doomed EXCEPT ![p] = @ \ {n}]
  BY DEF Prune
<1>2. n \in doomed[p] /\ n \in Names
  BY <1>0, Typed DEF Oldest
<1>3. UNCHANGED <<db, serving, now, begun, pc, mine, source, dates, faults>>
  BY DEF Prune
<1>4. file' \in [Names -> AFile]
  BY <1>0, <1>1, <1>2, UnlinkedType
<1>5. TypeOK'
  BY <1>0, <1>1, <1>3, <1>4 DEF TypeOK, AFile
<1>. QED  BY <1>0, <1>1, <1>2, <1>3, <1>5, DirTreat

LEMMA DirStep == DirInv /\ SourceNamed /\ [Next]_vars => DirInv'
<1> SUFFICES ASSUME DirInv, SourceNamed, [Next]_vars PROVE DirInv'
  OBVIOUS
<1>1. CASE UNCHANGED vars
  <2>1. OldFiles' = OldFiles /\ CoveredDays' = CoveredDays
    BY <1>1 DEF vars, OldFiles, CoveredDays, In, Above, Least, OfDay, AfterDay, Day
  <2>. QED  BY <1>1, <2>1 DEF vars, DirInv, TypeOK, Named, TakenInOrder, DoomedAreOld, DaysCovered, Rotated, Plain
<1>2. CASE Next
  <2>1. CASE StartServer \/ StopServer \/ Write \/ Lose \/ Pass
    BY <2>1, DirWorld
  <2>2. ASSUME NEW h \in Hooks, HookStart(h) \/ ReadDates(h) \/ ListPeriodic(h) \/ Promote(h) \/ Promoted(h)
        PROVE  DirInv'
    BY <2>2, DirHookStart, DirReadDates, DirList, DirPromote, DirListed DEF Procs
  <2>3. ASSUME NEW p \in Procs, \/ Reserve(p) \/ Copy(p) \/ Describe(p) \/ Fail(p)
                                \/ ListPlain(p) \/ Prune(p) \/ Pruned(p)
        PROVE  DirInv'
    BY <2>3, DirReserve, DirCopyDescribe, DirFail, DirList, DirPrune, DirListed
  <2>4. ASSUME NEW r \in Restorers, RestoreWrite(r) \/ \E n \in Names : RestoreStart(r, n)
        PROVE  DirInv'
    BY <2>4, DirRestore
  <2>. QED  BY <1>2, <2>1, <2>2, <2>3, <2>4 DEF Next
<1>. QED  BY <1>1, <1>2

LEMMA SourceStep == DirInv /\ SourceNamed /\ [Next]_vars => SourceNamed'
<1> SUFFICES ASSUME DirInv, SourceNamed, [Next]_vars, NEW r \in Restorers, pc'[r] # "idle"
             PROVE  source'[r].name \in Names
  BY DEF SourceNamed
<1>1. /\ pc \in [Procs -> {"idle", "reserve", "reserveRaw", "copy", "copyRaw", "describe", "dates",
                           "list", "promote", "listPlain", "prune", "write"}]
      /\ source \in [Restorers -> [name : 0..MaxName, dir : Dirs \cup {"none"}, rows : 0..MaxRows]]
      /\ r \in Procs /\ r \notin Hooks
  BY SnapshotsAssumption DEF DirInv, TypeOK, Procs
<1>2. CASE pc[r] # "idle" /\ source'[r] = source[r]
  BY <1>2 DEF SourceNamed
<1>3. CASE UNCHANGED vars \/ StartServer \/ StopServer \/ Write \/ Lose \/ Pass
  BY <1>2, <1>3 DEF vars, StartServer, StopServer, Write, Lose, Pass
<1>4. ASSUME NEW h \in Hooks, HookStart(h) \/ ReadDates(h) \/ ListPeriodic(h) \/ Promote(h) \/ Promoted(h)
      PROVE  source'[r].name \in Names
  <2>1. source' = source /\ pc'[r] = pc[r]
    BY <1>1, <1>4 DEF HookStart, ReadDates, ListPeriodic, Promote, Promoted
  <2>. QED  BY <2>1, <1>2
<1>5. ASSUME NEW p \in Procs, \/ Reserve(p) \/ Copy(p) \/ Describe(p)
                              \/ ListPlain(p) \/ Prune(p) \/ Pruned(p)
      PROVE  source'[r].name \in Names
  <2>1. source' = source /\ pc[p] # "idle" /\ \A q \in Procs \ {p} : pc'[q] = pc[q]
    BY <1>1, <1>5 DEF Reserve, Copy, Describe, ListPlain, Prune, Pruned
  <2>. QED  BY <2>1, <1>1, <1>2
<1>6. ASSUME NEW p \in Procs, Fail(p)
      PROVE  source'[r].name \in Names
  <2>1. pc[r] # "idle" /\ source'[r] = source[r]
    BY <1>1, <1>6 DEF Fail
  <2>. QED  BY <2>1, <1>2
<1>7. ASSUME NEW q \in Restorers, RestoreWrite(q) \/ \E n \in Names : RestoreStart(q, n)
      PROVE  source'[r].name \in Names
  <2>1. CASE RestoreWrite(q)
    <3>1. pc[r] # "idle" /\ source'[r] = source[r]
      BY <1>1, <2>1 DEF RestoreWrite, Procs
    <3>. QED  BY <3>1, <1>2
  <2>2. ASSUME NEW n \in Names, RestoreStart(q, n)
        PROVE  source'[r].name \in Names
    <3>1. CASE q = r
      BY <1>1, <2>2, <3>1 DEF RestoreStart
    <3>2. CASE q # r
      BY <1>1, <1>2, <2>2, <3>2 DEF RestoreStart, Procs
    <3>. QED  BY <3>1, <3>2
  <2>. QED  BY <1>7, <2>1, <2>2
<1>. QED  BY <1>3, <1>4, <1>5, <1>6, <1>7 DEF Next

\* What a rotation deletes is old where it is.
LEMMA DeletedIsOld == DirInv /\ [Next]_vars => NewestKept /\ (Usable => KeepsDates)
<1> SUFFICES ASSUME DirInv, [Next]_vars PROVE NewestKept /\ (Usable => KeepsDates)
  OBVIOUS
<1>0. TypeOK /\ file \in [Names -> AFile]
  BY Typed DEF DirInv
<1>1. CASE \A n \in Names : file'[n].dir = file[n].dir \/ file[n].dir = "none"
  <2>1. NewestKept
    BY <1>1 DEF NewestKept
  <2>2. KeepsDates
    BY <1>1 DEF KeepsDates
  <2>. QED  BY <2>1, <2>2
<1>2. ASSUME NEW p \in Procs, NEW g \in doomed[p], file' = Unlinked(g, Rotated(p)),
             Rotated(p) = "periodic" => p \in Hooks /\ Day(g) \in dates[p]
      PROVE  NewestKept /\ (Usable => KeepsDates)
  <2>. DEFINE from == Rotated(p)
  <2>1. g \in Names /\ from \in Dirs /\ <<from, g>> \in OldFiles
    BY <1>0, Typed, Bounds DEF DirInv, DoomedAreOld, Rotated, Dirs
  <2>2. Cardinality(Above(In(from), g)) >= Least(from)
    BY <2>1 DEF OldFiles
  <2>3. \A n \in Names : file'[n] = file[n] \/ (n = g /\ file[g].dir = from)
    BY <1>0, <1>2 DEF Unlinked
  <2>. HIDE DEF from
  <2>4. NewestKept
    BY <2>2, <2>3 DEF NewestKept, Least, Above
  <2>5. ASSUME Usable
        PROVE  KeepsDates
    <3>. SUFFICES ASSUME NEW n \in Names, file[n].dir = "periodic", Complete(n), file'[n].dir # "periodic"
                  PROVE  \/ \E m \in Names : file'[m].dir = "daily" /\ Complete(m)' /\ Day(m)' = Day(n)
                         \/ Cardinality({m \in Names : file'[m].dir = "daily" /\ Day(m)' > Day(n)}) >= Quota["daily"]
      BY DEF KeepsDates
    <3>1. n = g /\ from = "periodic"
      BY <2>3
    <3>2. Day(n) \in CoveredDays
      BY <3>1, <1>2 DEF from, DirInv, DaysCovered
    <3>3. \A m \in In("daily") : m \in Names /\ file'[m] = file[m]
      BY <2>3, <3>1 DEF In
    <3>4. CASE \E m \in In("daily") : Day(m) = Day(n)
      BY <3>3, <3>4, <2>5 DEF Usable, In, Complete, Day
    <3>5. CASE Cardinality(AfterDay(Day(n))) >= Quota["daily"]
      <4>. DEFINE L == {m \in Names : file'[m].dir = "daily" /\ Day(m)' > Day(n)}
      <4>1. AfterDay(Day(n)) \subseteq L /\ L \subseteq Names
        BY <3>3 DEF AfterDay, In, Day
      <4>2. Cardinality(AfterDay(Day(n))) <= Cardinality(L) /\ Cardinality(L) \in Nat
            /\ Cardinality(AfterDay(Day(n))) \in Nat /\ Quota["daily"] \in Nat
        BY <4>1, Counting, Bounds DEF Dirs
      <4>. QED  BY <3>5, <4>2
    <3>. QED  BY <3>2, <3>4, <3>5 DEF CoveredDays, OfDay
  <2>. QED  BY <2>4, <2>5
<1>3. ASSUME NEW g \in Names, file[g].dir = "periodic", file' = [file EXCEPT ![g].dir = "daily"]
      PROVE  NewestKept /\ (Usable => KeepsDates)
  <2>1. file[g] \in AFile /\ file' = [file EXCEPT ![g] = [file[g] EXCEPT !.dir = "daily"]]
    BY <1>0, <1>3
  <2>2. /\ \A n \in Names \ {g} : file'[n] = file[n]
        /\ file'[g] = [file[g] EXCEPT !.dir = "daily"]
    BY <1>0, <2>1
  <2>3. /\ file'[g].dir = "daily" /\ file'[g].copied = file[g].copied
        /\ file'[g].described = file[g].described /\ file'[g].taken = file[g].taken
    BY <2>1, <2>2 DEF AFile
  <2>4. NewestKept
    BY <2>2, <2>3 DEF NewestKept
  <2>5. KeepsDates
    BY <2>2, <2>3 DEF KeepsDates, Complete, Day
  <2>. QED  BY <2>4, <2>5
<1>4. CASE UNCHANGED vars \/ StartServer \/ StopServer \/ Write \/ Lose \/ Pass
  BY <1>1, <1>4 DEF vars, StartServer, StopServer, Write, Lose, Pass
<1>5. ASSUME NEW h \in Hooks, HookStart(h) \/ ReadDates(h) \/ ListPeriodic(h) \/ Promoted(h)
      PROVE  NewestKept /\ (Usable => KeepsDates)
  BY <1>1, <1>5 DEF HookStart, ReadDates, ListPeriodic, Promoted
<1>6. ASSUME NEW h \in Hooks, Promote(h)
      PROVE  NewestKept /\ (Usable => KeepsDates)
  <2>1. PICK n \in Oldest(doomed[h]) :
          \/ Day(n) \in dates[h] /\ file' = Unlinked(n, "periodic")
          \/ file[n].dir = "periodic" /\ file' = [file EXCEPT ![n].dir = "daily"]
          \/ UNCHANGED file
    BY <1>6 DEF Promote
  <2>2. h \in Procs /\ Rotated(h) = "periodic" /\ n \in doomed[h]
    BY <1>6 DEF Procs, Rotated, Promote, Oldest
  <2>3. n \in Names
    BY <2>2, <1>0, Typed
  <2>. QED  BY <2>1, <2>2, <2>3, <1>1, <1>2, <1>3
<1>7. ASSUME NEW p \in Procs, Prune(p)
      PROVE  NewestKept /\ (Usable => KeepsDates)
  <2>1. PICK n \in Oldest(doomed[p]) : file' = Unlinked(n, Plain(p))
    BY <1>7 DEF Prune
  <2>2. Rotated(p) = Plain(p) /\ Rotated(p) # "periodic" /\ n \in doomed[p]
    BY <1>7 DEF Prune, Rotated, Oldest, Plain
  <2>. QED  BY <2>1, <2>2, <1>2
<1>8. ASSUME NEW p \in Procs, Fail(p) \/ ListPlain(p) \/ Pruned(p)
      PROVE  NewestKept /\ (Usable => KeepsDates)
  BY <1>1, <1>8 DEF Fail, ListPlain, Pruned
<1>9. ASSUME NEW p \in Procs, Reserve(p)
      PROVE  NewestKept /\ (Usable => KeepsDates)
  <2>1. begun + 1 \in Names /\ begun + 1 > begun
    BY <1>0, <1>9, Typed, Bounds DEF Reserve, Names
  <2>2. file[begun + 1].dir = "none"
    BY <2>1 DEF DirInv, Named
  <2>. QED  BY <2>2, <1>0, <1>1, <1>9 DEF Reserve
<1>10. ASSUME NEW p \in Procs, Copy(p) \/ Describe(p)
       PROVE  NewestKept /\ (Usable => KeepsDates)
  <2>. DEFINE g == mine[p]
  <2>3. \/ file' = [file EXCEPT ![g] = [file[g] EXCEPT !.rows = db, !.copied = TRUE]]
        \/ file' = [file EXCEPT ![g] = [file[g] EXCEPT !.described = TRUE, !.counts = db]]
    BY <1>10 DEF Copy, Describe
  <2>4. g \in Names => /\ [file[g] EXCEPT !.rows = db, !.copied = TRUE].dir = file[g].dir
                       /\ [file[g] EXCEPT !.described = TRUE, !.counts = db].dir = file[g].dir
    BY <1>0, Typed DEF AFile
  <2>5. \A n \in Names : file'[n].dir = file[n].dir
    BY <1>0, <2>3, <2>4
  <2>. QED  BY <2>5, <1>1
<1>11. ASSUME NEW r \in Restorers, RestoreWrite(r) \/ \E n \in Names : RestoreStart(r, n)
       PROVE  NewestKept /\ (Usable => KeepsDates)
  BY <1>1, <1>11 DEF RestoreWrite, RestoreStart
<1>. QED  BY <1>4, <1>5, <1>6, <1>7, <1>8, <1>9, <1>10, <1>11 DEF Next

--------------------------------------------------------------------------------
\* One thing at a time: nothing is lost and nothing restored while sessions start,
\* and a restore has the snapshots to itself.
AtWork == {"reserve", "reserveRaw", "copy", "copyRaw", "describe"}

\* Each rotation of the periodic snapshots dooms the first of them.
DoomedFirst ==
  \A h \in Hooks : pc[h] = "promote" =>
     \A n \in doomed[h], m \in In("periodic") : m < n => m \in doomed[h]
Apart ==
  /\ Restoring => ~Taking /\ ~serving
  /\ \A r, q \in Restorers : pc[r] # "idle" /\ pc[q] # "idle" => r = q
HealthyWhileTaking == "loss" \notin Overlap => ((\E h \in Hooks : pc[h] \in AtWork) => Healthy)

\* What a restore has chosen stays as it was chosen, and what it sets aside is the
\* last snapshot begun.
SourceKept(r) ==
  pc[r] # "idle" =>
     /\ source[r].name \in Names /\ source[r].name <= begun /\ source[r].dir \in Dirs
     /\ file[source[r].name].dir = source[r].dir
     /\ file[source[r].name].rows = source[r].rows
     /\ source[r].dir = "prerestore" => source[r].name \notin doomed[r]
BackupKept(r) ==
  /\ pc[r] \in {"copy", "copyRaw", "describe"} =>
        mine[r] = begun /\ begun \in In("prerestore") /\ source[r].name # begun
  /\ pc[r] = "describe" => file[begun].copied /\ file[begun].rows = db
  /\ pc[r] \in {"listPlain", "prune", "write"} =>
        /\ begun \in In("prerestore") /\ Complete(begun) /\ file[begun].rows = db
        /\ begun \notin doomed[r]

StartsInv == DoomedFirst /\ HealthyWhileTaking
RestoresInv == \A r \in Restorers : SourceKept(r) /\ BackupKept(r)
AloneInv == StartsInv /\ Apart /\ RestoresInv

LEMMA AloneInit == Init => AloneInv
<1> SUFFICES ASSUME Init PROVE AloneInv
  OBVIOUS
<1>1. \A p \in Procs : pc[p] = "idle"
  BY DEF Init
<1>2. \A h \in Hooks : pc[h] = "idle"
  BY <1>1 DEF Procs
<1>3. \A r \in Restorers : pc[r] = "idle"
  BY <1>1 DEF Procs
<1>. QED  BY <1>2, <1>3 DEF AloneInv, StartsInv, RestoresInv, DoomedFirst, Apart, HealthyWhileTaking,
          SourceKept, BackupKept, AtWork, Restoring

\* The last snapshot begun survives the rotation of those set aside, beside the one
\* that is restored.
LEMMA LastIsSpared ==
  ASSUME TypeOK, Named, NEW r \in Restorers, begun \in In("prerestore")
  PROVE  begun \notin Surplus(r, "prerestore")
<1>. DEFINE I == In("prerestore")
            free == {m \in I : r \in Restorers => [name |-> m, dir |-> "prerestore"] #
                                                  [name |-> source[r].name, dir |-> source[r].dir]}
            below == {m \in free : m < begun}
            rest == I \ below
<1>0. I \subseteq Names /\ below \subseteq Names /\ rest \subseteq Names /\ begun \in Names
      /\ Quota["prerestore"] \in Nat /\ Quota["prerestore"] > 1
  BY SnapshotsAssumption, Bounds DEF In, Dirs
<1>1. Cardinality(I) \in Nat /\ Cardinality(below) \in Nat /\ Cardinality(rest) \in Nat
  BY <1>0, Counting
<1>2. \A m \in I : m = begun \/ m < begun
  <2>1. \A m \in I : m \in Names /\ ~(m > begun)
    BY DEF Named, In
  <2>2. begun \in Nat /\ \A m \in I : m \in Nat
    BY <1>0, NamesAreNumbers, Typed
  <2>. QED  BY <2>1, <2>2
<1>3. rest \subseteq {begun} \cup {source[r].name}
  BY <1>2
<1>4. Cardinality(rest) <= 2
  <2>. DEFINE other == rest \ {begun}
  <2>1. other = {} \/ (other = {source[r].name} /\ source[r].name \in Names)
    BY <1>0, <1>3
  <2>2. Cardinality(other) \in {0, 1}
    BY <2>1, FS_EmptySet, CardOne
  <2>3. other \subseteq Names /\ {begun} \subseteq Names /\ {begun} \cup other \subseteq Names
        /\ rest \subseteq {begun} \cup other
    BY <1>0
  <2>4. Cardinality({begun} \cup other) <= 1 + Cardinality(other)
    BY <1>0, <2>3, CardUnion, CardOne
  <2>5. Cardinality(rest) <= Cardinality({begun} \cup other) /\ Cardinality({begun} \cup other) \in Nat
    BY <2>3, Counting
  <2>. QED  BY <2>2, <2>4, <2>5, <1>1
<1>5. Cardinality(I) <= Cardinality(below) + Cardinality(rest)
  <2>1. I = below \cup rest
    OBVIOUS
  <2>. QED  BY <2>1, <1>0, CardUnion
<1>6. ~(Cardinality(below) < Cardinality(I) - Quota["prerestore"])
  BY <1>0, <1>1, <1>4, <1>5
<1>. QED  BY <1>6 DEF Surplus

\* The world around.
LEMMA AloneWorld ==
  ASSUME DirInv, AloneInv, "restore" \notin Overlap, StartServer \/ StopServer \/ Write \/ Lose \/ Pass
  PROVE  AloneInv'
<1>1. UNCHANGED <<begun, file, mine, source, dates, doomed, pc>>
  BY DEF StartServer, StopServer, Write, Lose, Pass
<1>2. DoomedFirst'
  BY <1>1 DEF AloneInv, StartsInv, DoomedFirst, In
<1>3. Apart'
  BY <1>1 DEF AloneInv, Apart, Restoring, Taking, Alone, StartServer, StopServer, Write, Lose, Pass
<1>4. HealthyWhileTaking'
  <2>. SUFFICES ASSUME "loss" \notin Overlap, NEW h \in Hooks, pc[h] \in AtWork, NEW n \in Newest(Described)
                PROVE  file[n].counts < db' + Threshold
    BY <1>1 DEF HealthyWhileTaking, Healthy, Newest, Described, In
  <2>1. file[n].counts < db + Threshold
    BY DEF AloneInv, StartsInv, HealthyWhileTaking, Healthy
  <2>2. Taking
    BY DEF Taking, AtWork
  <2>3. db' = db \/ db' = db + 1
    BY <2>2 DEF StartServer, StopServer, Write, Lose, Pass
  <2>4. db \in Nat /\ Threshold \in Nat /\ file[n].counts \in Nat
    BY Typed, SnapshotsAssumption DEF DirInv, Newest, Described, In
  <2>. QED  BY <2>1, <2>3, <2>4
<1>5. ASSUME NEW r \in Restorers
      PROVE  (SourceKept(r) /\ BackupKept(r))'
  <2>1. pc[r] # "idle" => db' = db
    BY DEF AloneInv, Apart, Restoring, Alone, StartServer, StopServer, Write, Lose, Pass
  <2>2. SourceKept(r) /\ BackupKept(r)
    BY DEF AloneInv, RestoresInv
  <2>3. SourceKept(r)'
    BY <1>1, <2>2 DEF SourceKept
  <2>4. BackupKept(r)'
    BY <1>1, <2>1, <2>2 DEF BackupKept, In, Complete
  <2>. QED  BY <2>3, <2>4
<1>. QED  BY <1>2, <1>3, <1>4, <1>5 DEF AloneInv, StartsInv, RestoresInv

\* A step of a session's start: no restore is under way.
LEMMA AloneStart ==
  ASSUME DirInv, AloneInv, NEW h \in Hooks, pc[h] # "idle" \/ ~Restoring,
         \A p \in Procs \ {h} : pc'[p] = pc[p], UNCHANGED <<serving>>, StartsInv'
  PROVE  AloneInv'
<1>1. \A r \in Restorers : pc[r] = "idle"
  BY DEF AloneInv, Apart, Taking, Restoring
<1>2. \A r \in Restorers : pc'[r] = "idle"
  BY <1>1, SnapshotsAssumption DEF Procs
<1>3. Apart'
  BY <1>2 DEF Apart, Restoring
<1>4. RestoresInv'
  BY <1>2 DEF RestoresInv, SourceKept, BackupKept
<1>. QED  BY <1>3, <1>4 DEF AloneInv

\* A step of a restore: no session starts.
LEMMA AloneRestore ==
  ASSUME DirInv, AloneInv, NEW r \in Restorers, pc[r] # "idle" \/ (~Restoring /\ ~Taking /\ ~serving),
         \A p \in Procs \ {r} : pc'[p] = pc[p], UNCHANGED <<serving>>,
         (SourceKept(r) /\ BackupKept(r))'
  PROVE  AloneInv'
<1>1. /\ \A h \in Hooks : pc[h] = "idle"
      /\ ~serving
      /\ \A q \in Restorers \ {r} : pc[q] = "idle"
  BY DEF AloneInv, Apart, Taking, Restoring
<1>2. /\ \A h \in Hooks : pc'[h] = "idle"
      /\ \A q \in Restorers \ {r} : pc'[q] = "idle"
  BY <1>1, SnapshotsAssumption DEF Procs
<1>3. Apart'
  BY <1>1, <1>2 DEF Apart, Taking
<1>4. DoomedFirst' /\ HealthyWhileTaking'
  BY <1>2 DEF DoomedFirst, HealthyWhileTaking, AtWork
<1>5. RestoresInv'
  BY <1>2 DEF RestoresInv, SourceKept, BackupKept
<1>. QED  BY <1>3, <1>4, <1>5 DEF AloneInv, StartsInv

\* A step that leaves the periodic snapshots and what is known of them alone.
LEMMA StartsSame ==
  ASSUME StartsInv, db' = db,
         \A n \in Names : file'[n].dir = "periodic" \/ file[n].dir = "periodic" =>
            file'[n].dir = file[n].dir /\ file'[n].described = file[n].described /\ file'[n].counts = file[n].counts,
         \A h \in Hooks : pc'[h] = "promote" =>
            \/ pc[h] = "promote" /\ doomed'[h] = doomed[h]
            \/ \A n \in doomed'[h], m \in In("periodic") : m < n => m \in doomed'[h],
         \A h \in Hooks : pc'[h] \in AtWork => pc[h] \in AtWork \/ Healthy
  PROVE  StartsInv'
<1>1. {n \in Names : file'[n].dir = "periodic"} = {n \in Names : file[n].dir = "periodic"}
  OBVIOUS
<1>2. DoomedFirst'
  BY <1>1 DEF StartsInv, DoomedFirst, In
<1>3. Healthy => Healthy'
  BY <1>1 DEF Healthy, Newest, Described, In
<1>. QED  BY <1>2, <1>3 DEF StartsInv, HealthyWhileTaking

\* A hook begins a snapshot, which has no metadata yet.
LEMMA StartsReserve ==
  ASSUME DirInv, StartsInv, NEW h \in Hooks, Reserve(h)
  PROVE  StartsInv'
<1>. DEFINE g == begun + 1
            new == [NoFile EXCEPT !.dir = Home(h), !.taken = now]
<1>1. /\ file' = [file EXCEPT ![g] = new] /\ db' = db /\ doomed' = doomed
      /\ pc' = [pc EXCEPT ![h] = IF pc[h] = "reserve" THEN "copy" ELSE "copyRaw"]
      /\ pc[h] \in {"reserve", "reserveRaw"} /\ begun < MaxName
  BY DEF Reserve
<1>2. g \in Names /\ g > begun /\ begun \in Nat /\ file \in [Names -> AFile] /\ ~new.described
  BY <1>1, Typed, Bounds DEF DirInv, Names, NoFile
<1>. HIDE DEF new
<1>3. file'[g] = new /\ \A n \in Names \ {g} : file'[n] = file[n]
  BY <1>1, <1>2
<1>4. file[g].dir = "none"
  BY <1>2 DEF DirInv, Named
<1>5. \A q \in Hooks : pc'[q] = pc[q] \/ (q = h /\ pc'[q] # "promote" /\ pc[q] \in AtWork)
  BY <1>1 DEF DirInv, TypeOK, Procs, AtWork
<1>6. DoomedFirst'
  <2>. SUFFICES ASSUME NEW q \in Hooks, pc[q] = "promote", NEW n \in doomed[q], NEW m \in Names,
                       file'[m].dir = "periodic", m < n
                PROVE  m \in doomed[q]
    BY <1>1, <1>5 DEF DoomedFirst, In
  <2>1. n \in Names /\ n <= begun /\ q \in Procs
    BY Typed DEF DirInv, Named, Procs
  <2>2. m # g
    BY <2>1, <1>2, NamesAreNumbers
  <2>. QED  BY <2>2, <1>3 DEF StartsInv, DoomedFirst, In
<1>7. Described' = Described
  BY <1>2, <1>3, <1>4 DEF Described, In
<1>8. Healthy => Healthy'
  BY <1>1, <1>3, <1>4, <1>7 DEF Healthy, Newest, Described, In
<1>. QED  BY <1>5, <1>6, <1>8 DEF StartsInv, HealthyWhileTaking

\* What a copy and a description change of a file.
LEMMA Written ==
  ASSUME TypeOK, NEW p \in Procs, Copy(p) \/ Describe(p)
  PROVE  /\ \A n \in Names : /\ file'[n].dir = file[n].dir
                             /\ n # mine[p] => file'[n] = file[n]
         /\ mine[p] \in Names /\ Copy(p) =>
              /\ file'[mine[p]].copied /\ file'[mine[p]].rows = db
              /\ file'[mine[p]].described = file[mine[p]].described
              /\ file'[mine[p]].counts = file[mine[p]].counts
         /\ mine[p] \in Names /\ Describe(p) =>
              /\ file'[mine[p]].described /\ file'[mine[p]].counts = db
              /\ file'[mine[p]].copied = file[mine[p]].copied
              /\ file'[mine[p]].rows = file[mine[p]].rows
<1>. DEFINE g == mine[p]
            copied == [file[g] EXCEPT !.rows = db, !.copied = TRUE]
            described == [file[g] EXCEPT !.described = TRUE, !.counts = db]
<1>2. file \in [Names -> AFile] /\ g \in 0..MaxName
  BY Typed
<1>3. (Copy(p) => file' = [file EXCEPT ![g] = copied]) /\ (Describe(p) => file' = [file EXCEPT ![g] = described])
  BY DEF Copy, Describe
<1>4. g \in Names => /\ copied.dir = file[g].dir /\ copied.copied /\ copied.rows = db
                     /\ copied.described = file[g].described /\ copied.counts = file[g].counts
                     /\ described.dir = file[g].dir /\ described.described /\ described.counts = db
                     /\ described.copied = file[g].copied /\ described.rows = file[g].rows
  <2>1. \A f \in AFile : LET c == [f EXCEPT !.rows = db, !.copied = TRUE]
                             d == [f EXCEPT !.described = TRUE, !.counts = db]
                         IN  /\ c.dir = f.dir /\ c.copied /\ c.rows = db
                             /\ c.described = f.described /\ c.counts = f.counts
                             /\ d.dir = f.dir /\ d.described /\ d.counts = db
                             /\ d.copied = f.copied /\ d.rows = f.rows
    BY DEF AFile
  <2>. QED  BY <2>1, <1>2
<1>. HIDE DEF copied, described
<1>5. ~(Copy(p) /\ Describe(p))
  BY DEF Copy, Describe
<1>. QED  BY <1>2, <1>3, <1>4

LEMMA StartsCopy ==
  ASSUME DirInv, StartsInv, NEW h \in Hooks, Copy(h)
  PROVE  StartsInv'
<1>1. h \in Procs /\ TypeOK
  BY DEF Procs, DirInv
<1>2. \A n \in Names : file'[n].dir = file[n].dir /\ file'[n].described = file[n].described
                       /\ file'[n].counts = file[n].counts
  BY <1>1, Written
<1>3. db' = db /\ doomed' = doomed /\ pc[h] \in AtWork /\ pc'[h] = "describe" /\ \A q \in Procs \ {h} : pc'[q] = pc[q]
  BY <1>1 DEF Copy, AtWork, TypeOK
<1>4. \A q \in Hooks : pc'[q] = pc[q] \/ (q = h /\ pc'[q] # "promote" /\ pc[q] \in AtWork)
  BY <1>3 DEF Procs
<1>. QED  BY <1>2, <1>3, <1>4, StartsSame

\* The health check holds of the snapshot just described.
LEMMA StartsDescribe ==
  ASSUME DirInv, StartsInv, NEW h \in Hooks, Describe(h)
  PROVE  StartsInv'
<1>1. h \in Procs /\ TypeOK
  BY DEF Procs, DirInv
<1>2. /\ \A n \in Names : file'[n].dir = file[n].dir /\ (n # mine[h] => file'[n] = file[n])
      /\ mine[h] \in Names => file'[mine[h]].counts = db /\ file'[mine[h]].described
  BY <1>1, Written
<1>3. db' = db /\ doomed' = doomed /\ pc[h] \in AtWork /\ pc'[h] = "dates" /\ \A q \in Procs \ {h} : pc'[q] = pc[q]
  BY <1>1 DEF Describe, AtWork, TypeOK
<1>4. \A q \in Hooks : pc'[q] = pc[q] \/ (q = h /\ pc'[q] = "dates")
  BY <1>3 DEF Procs
<1>5. DoomedFirst'
  BY <1>2, <1>3, <1>4 DEF StartsInv, DoomedFirst, In
<1>6. "loss" \notin Overlap => Healthy
  BY <1>3 DEF StartsInv, HealthyWhileTaking
<1>7. "loss" \notin Overlap => Healthy'
  <2>. SUFFICES ASSUME "loss" \notin Overlap, NEW n \in Names, file'[n].dir = "periodic", file'[n].described,
                       \A m \in Names : file'[m].dir = "periodic" /\ file'[m].described => m <= n
                PROVE  file'[n].counts < db + Threshold
    BY <1>3 DEF Healthy, Newest, Described, In
  <2>1. CASE n = mine[h]
    <3>1. db \in Nat /\ Threshold \in Nat \ {0}
      BY <1>1, Typed, SnapshotsAssumption
    <3>. QED  BY <2>1, <3>1, <1>2
  <2>2. CASE n # mine[h]
    <3>1. n \in Newest(Described)
      BY <2>2, <1>2 DEF Newest, Described, In
    <3>. QED  BY <2>2, <3>1, <1>2, <1>6 DEF Healthy
  <2>. QED  BY <2>1, <2>2
<1>. QED  BY <1>5, <1>7 DEF StartsInv, HealthyWhileTaking

\* A periodic snapshot goes: the first that is doomed, so none older is left that
\* could now count as the newest.
LEMMA StartsTreat ==
  ASSUME DirInv, StartsInv, NEW h \in Hooks, pc[h] = "promote", NEW n \in Oldest(doomed[h]),
         UNCHANGED <<db, pc>>, doomed' = [doomed EXCEPT ![h] = @ \ {n}],
         \A m \in Names \ {n} : file'[m] = file[m], file'[n].dir # "periodic"
  PROVE  StartsInv'
<1>1. n \in Names /\ n \in doomed[h] /\ h \in Procs /\ \A m \in doomed[h] : n <= m
  BY Typed DEF DirInv, Oldest, Procs
<1>2. \A q \in Hooks : doomed'[q] = IF q = h THEN doomed[h] \ {n} ELSE doomed[q]
  BY DEF DirInv, TypeOK, Procs
<1>3. \A m \in Names : file'[m].dir = "periodic" => m # n /\ file'[m] = file[m]
  OBVIOUS
<1>4. DoomedFirst'
  BY <1>2, <1>3 DEF StartsInv, DoomedFirst, In
<1>5. ASSUME Healthy
      PROVE  Healthy'
  <2>. SUFFICES ASSUME NEW k \in Names, file'[k].dir = "periodic", file'[k].described,
                       \A m \in Names : file'[m].dir = "periodic" /\ file'[m].described => m <= k
                PROVE  file'[k].counts < db + Threshold
    BY DEF Healthy, Newest, Described, In
  <2>1. k # n /\ file'[k] = file[k] /\ k \in In("periodic")
    BY <1>3 DEF In
  <2>2. ~(k < n)
    <3>1. k < n => k \in doomed[h]
      BY <1>1, <2>1 DEF StartsInv, DoomedFirst
    <3>. QED  BY <3>1, <1>1, NamesAreNumbers
  <2>3. \A m \in Described : m <= k
    <3>1. n <= k
      BY <2>1, <2>2, <1>1, NamesAreNumbers
    <3>. QED  BY <3>1 DEF Described, In
  <2>. QED  BY <2>1, <2>3, <1>5 DEF Healthy, Newest, Described, In
<1>. QED  BY <1>4, <1>5 DEF StartsInv, HealthyWhileTaking

LEMMA StartsPromote ==
  ASSUME DirInv, StartsInv, NEW h \in Hooks, Promote(h)
  PROVE  StartsInv'
<1>0. /\ file \in [Names -> AFile] /\ h \in Procs /\ pc[h] = "promote" /\ db' = db
      /\ pc \in [Procs -> {"idle", "reserve", "reserveRaw", "copy", "copyRaw", "describe", "dates",
                           "list", "promote", "listPlain", "prune", "write"}]
      /\ doomed \in [Procs -> SUBSET Names]
  BY Typed DEF DirInv, TypeOK, Procs, Promote
<1>1. PICK n \in Oldest(doomed[h]) :
        \/ file' = Unlinked(n, "periodic") /\ doomed' = [doomed EXCEPT ![h] = @ \ {n}] /\ pc' = pc
        \/ /\ file[n].dir = "periodic" /\ file' = [file EXCEPT ![n].dir = "daily"]
           /\ doomed' = [doomed EXCEPT ![h] = @ \ {n}] /\ pc' = pc
        \/ pc' = [pc EXCEPT ![h] = "idle"] /\ doomed' = [doomed EXCEPT ![h] = {}] /\ file' = file
  BY DEF Promote
<1>2. n \in Names
  BY <1>0 DEF Oldest
<1>3. CASE file' = Unlinked(n, "periodic") /\ doomed' = [doomed EXCEPT ![h] = @ \ {n}] /\ pc' = pc
  <2>1. (\A m \in Names \ {n} : file'[m] = file[m]) /\ file'[n].dir # "periodic"
    BY <1>0, <1>2, <1>3 DEF Unlinked, NoFile
  <2>. QED  BY <2>1, <1>0, <1>3, StartsTreat
<1>4. CASE /\ file[n].dir = "periodic" /\ file' = [file EXCEPT ![n].dir = "daily"]
           /\ doomed' = [doomed EXCEPT ![h] = @ \ {n}] /\ pc' = pc
  <2>1. file[n] \in AFile /\ file' = [file EXCEPT ![n] = [file[n] EXCEPT !.dir = "daily"]]
    BY <1>0, <1>2, <1>4
  <2>2. /\ \A m \in Names \ {n} : file'[m] = file[m]
        /\ file'[n] = [file[n] EXCEPT !.dir = "daily"]
    BY <1>0, <1>2, <2>1
  <2>3. file'[n].dir # "periodic"
    BY <2>1, <2>2 DEF AFile
  <2>. QED  BY <2>2, <2>3, <1>0, <1>4, StartsTreat
<1>5. CASE pc' = [pc EXCEPT ![h] = "idle"] /\ doomed' = [doomed EXCEPT ![h] = {}] /\ file' = file
  <2>1. \A q \in Hooks : \/ pc'[q] = pc[q] /\ doomed'[q] = doomed[q]
                         \/ pc'[q] = "idle"
    BY <1>0, <1>5 DEF Procs
  <2>. QED  BY <2>1, <1>0, <1>5, StartsSame DEF AtWork
<1>. QED  BY <1>1, <1>3, <1>4, <1>5

\* The other steps of a hook.
LEMMA StartsOther ==
  ASSUME DirInv, StartsInv, NEW h \in Hooks,
         \/ HookStart(h) \/ ReadDates(h) \/ ListPeriodic(h) \/ Promoted(h)
         \/ ListPlain(h) \/ Prune(h) \/ Pruned(h) \/ Fail(h)
  PROVE  StartsInv'
<1>0. TypeOK /\ h \in Procs /\ h \notin Restorers /\ db' = db
      /\ doomed \in [Procs -> SUBSET Names] /\ file \in [Names -> AFile]
  BY Typed, SnapshotsAssumption
     DEF DirInv, TypeOK, Procs, HookStart, ReadDates, ListPeriodic, Promoted, ListPlain, Prune, Pruned, Fail
<1>1. \A q \in Hooks : q # h => pc'[q] = pc[q] /\ doomed'[q] = doomed[q]
  <2>1. CASE Prune(h)
    BY <2>1, <1>0 DEF TypeOK, Procs, Prune
  <2>2. CASE HookStart(h) \/ ReadDates(h) \/ ListPeriodic(h) \/ Promoted(h) \/ ListPlain(h) \/ Pruned(h)
    BY <2>2, <1>0 DEF TypeOK, Procs, HookStart, ReadDates, ListPeriodic, Promoted, ListPlain, Pruned
  <2>3. CASE Fail(h)
    BY <2>3, <1>0 DEF TypeOK, Procs, Fail
  <2>. QED  BY <2>1, <2>2, <2>3
<1>2. \A n \in Names : file'[n].dir = "periodic" \/ file[n].dir = "periodic" => file'[n] = file[n]
  <2>1. CASE Prune(h)
    <3>1. PICK n \in Names : file' = Unlinked(n, "daily")
      BY <2>1, <1>0 DEF Prune, Oldest, Plain
    <3>. QED  BY <3>1, <1>0 DEF Unlinked, NoFile
  <2>2. CASE ~Prune(h)
    BY <2>2 DEF HookStart, ReadDates, ListPeriodic, Promoted, ListPlain, Pruned, Fail
  <2>. QED  BY <2>1, <2>2
<1>3. pc'[h] \in AtWork => Healthy
  BY <1>0 DEF TypeOK, AtWork, HookStart, ReadDates, ListPeriodic, Promoted, ListPlain, Prune, Pruned, Fail
<1>4. pc'[h] = "promote" => \A n \in doomed'[h], m \in In("periodic") : m < n => m \in doomed'[h]
  <2>. SUFFICES ASSUME pc'[h] = "promote" PROVE \A n \in doomed'[h], m \in In("periodic") : m < n => m \in doomed'[h]
    OBVIOUS
  <2>1. doomed' = [doomed EXCEPT ![h] = Surplus(h, "periodic")]
    BY <1>0 DEF TypeOK, HookStart, ReadDates, ListPeriodic, Promoted, ListPlain, Prune, Pruned, Fail
  <2>2. doomed'[h] = Surplus(h, "periodic")
    BY <2>1, <1>0
  <2>3. "periodic" \in Dirs
    BY DEF Dirs
  <2>4. ASSUME NEW n \in Surplus(h, "periodic")
        PROVE  \A m \in In("periodic") : m < n => m \in Surplus(h, "periodic")
    BY <1>0, <2>3, SurplusIsOld
  <2>. QED  BY <2>2, <2>4
<1>. QED  BY <1>0, <1>1, <1>2, <1>3, <1>4, StartsSame

--------------------------------------------------------------------------------
\* The steps of a restore.
LEMMA RestoreStarted ==
  ASSUME DirInv, AloneInv, "restore" \notin Overlap, NEW r \in Restorers, NEW n \in Names, RestoreStart(r, n)
  PROVE  AloneInv'
<1>1. /\ TypeOK /\ r \in Procs /\ ~Restoring /\ ~Taking /\ ~serving
      /\ UNCHANGED <<begun, file, doomed, serving>> /\ file[n].dir # "none" /\ pc[r] = "idle"
      /\ source' = [source EXCEPT ![r] = [name |-> n, dir |-> file[n].dir, rows |-> file[n].rows]]
      /\ pc' = [pc EXCEPT ![r] = "reserve"]
  BY DEF DirInv, Procs, RestoreStart, Alone
<1>2. /\ source'[r] = [name |-> n, dir |-> file[n].dir, rows |-> file[n].rows]
      /\ pc'[r] = "reserve" /\ \A p \in Procs \ {r} : pc'[p] = pc[p]
  BY <1>1 DEF TypeOK
<1>3. n <= begun /\ file[n].dir \in Dirs /\ doomed[r] = {}
  <2>1. ~(n > begun)
    BY <1>1 DEF DirInv, Named
  <2>. QED  BY <2>1, <1>1, Typed, NamesAreNumbers DEF DirInv, DoomedAreOld
<1>4. SourceKept(r)'
  BY <1>1, <1>2, <1>3 DEF SourceKept
<1>5. BackupKept(r)'
  BY <1>2 DEF BackupKept
<1>. QED  BY <1>1, <1>2, <1>4, <1>5, AloneRestore

LEMMA RestoreReserved ==
  ASSUME DirInv, AloneInv, NEW r \in Restorers, Reserve(r)
  PROVE  AloneInv'
<1>. DEFINE g == begun + 1
            new == [NoFile EXCEPT !.dir = Home(r), !.taken = now]
<1>1. /\ TypeOK /\ r \in Procs /\ begun' = g /\ mine' = [mine EXCEPT ![r] = g]
      /\ file' = [file EXCEPT ![g] = new]
      /\ pc[r] \in {"reserve", "reserveRaw"} /\ begun < MaxName
      /\ pc' = [pc EXCEPT ![r] = IF pc[r] = "reserve" THEN "copy" ELSE "copyRaw"]
      /\ UNCHANGED <<serving, source, doomed>>
  BY DEF DirInv, Procs, Reserve
<1>2. g \in Names /\ begun \in Nat /\ file \in [Names -> AFile]
  BY <1>1, Typed, Bounds DEF Names
<1>3. new.dir = "prerestore"
  BY SnapshotsAssumption DEF NoFile, Home
<1>. HIDE DEF new
<1>4. /\ file'[g].dir = "prerestore" /\ \A n \in Names \ {g} : file'[n] = file[n]
      /\ mine'[r] = g /\ pc'[r] \in {"copy", "copyRaw"} /\ \A p \in Procs \ {r} : pc'[p] = pc[p]
  BY <1>1, <1>2, <1>3 DEF TypeOK
<1>5. SourceKept(r)
  BY DEF AloneInv, RestoresInv
<1>6. source[r].name \in Names /\ source[r].name <= begun /\ source[r].name # g
  BY <1>1, <1>2, <1>5, NamesAreNumbers DEF SourceKept
<1>7. SourceKept(r)'
  BY <1>1, <1>2, <1>4, <1>5, <1>6, NamesAreNumbers DEF SourceKept
<1>8. BackupKept(r)'
  BY <1>1, <1>2, <1>4, <1>6 DEF BackupKept, In
<1>. QED  BY <1>1, <1>4, <1>7, <1>8, AloneRestore

LEMMA RestoreWritten ==
  ASSUME DirInv, AloneInv, NEW r \in Restorers, Copy(r) \/ Describe(r)
  PROVE  AloneInv'
<1>1. /\ TypeOK /\ r \in Procs /\ r \notin Hooks /\ pc[r] \in {"copy", "copyRaw", "describe"}
      /\ SourceKept(r) /\ BackupKept(r)
      /\ UNCHANGED <<db, begun, serving, source, doomed>>
  BY SnapshotsAssumption DEF DirInv, Procs, AloneInv, RestoresInv, Copy, Describe
<1>2. mine[r] = begun /\ begun \in In("prerestore") /\ begun \in Names /\ source[r].name # begun
      /\ source[r].name \in Names /\ doomed[r] = {}
  BY <1>1 DEF BackupKept, SourceKept, In, DirInv, DoomedAreOld
<1>3. /\ \A n \in Names : file'[n].dir = file[n].dir /\ (n # begun => file'[n] = file[n])
      /\ Copy(r) => file'[begun].copied /\ file'[begun].rows = db
      /\ Describe(r) => /\ file'[begun].described
                        /\ file'[begun].copied = file[begun].copied
                        /\ file'[begun].rows = file[begun].rows
  BY <1>1, <1>2, Written
<1>4. /\ \A p \in Procs \ {r} : pc'[p] = pc[p]
      /\ Copy(r) => pc'[r] = "describe" /\ mine' = mine
      /\ Describe(r) => pc'[r] = "listPlain" /\ pc[r] = "describe"
  BY <1>1 DEF TypeOK, Copy, Describe
<1>5. SourceKept(r)'
  BY <1>1, <1>2, <1>3 DEF SourceKept
<1>6. BackupKept(r)'
  <2>1. CASE Copy(r)
    BY <2>1, <1>1, <1>2, <1>3, <1>4 DEF BackupKept, In
  <2>2. CASE Describe(r)
    BY <2>2, <1>1, <1>2, <1>3, <1>4 DEF BackupKept, In, Complete
  <2>. QED  BY <1>1, <2>1, <2>2
<1>. QED  BY <1>1, <1>4, <1>5, <1>6, AloneRestore

LEMMA RestoreFailed ==
  ASSUME DirInv, AloneInv, NEW r \in Restorers, Fail(r)
  PROVE  AloneInv'
<1>1. /\ TypeOK /\ r \in Procs /\ pc[r] # "idle" /\ SourceKept(r)
      /\ UNCHANGED <<db, begun, serving, file>>
  BY DEF DirInv, Procs, AloneInv, RestoresInv, Fail
<1>2. /\ \A p \in Procs \ {r} : pc'[p] = pc[p]
      /\ \/ pc'[r] = "idle"
         \/ pc'[r] = "reserveRaw" /\ UNCHANGED <<doomed, source>>
  BY <1>1 DEF TypeOK, Fail
<1>3. SourceKept(r)' /\ BackupKept(r)'
  BY <1>1, <1>2 DEF SourceKept, BackupKept
<1>. QED  BY <1>1, <1>2, <1>3, AloneRestore

\* Neither the chosen snapshot nor the one set aside is rotated out.
LEMMA RestoreListed ==
  ASSUME DirInv, AloneInv, NEW r \in Restorers, ListPlain(r)
  PROVE  AloneInv'
<1>1. /\ TypeOK /\ Named /\ r \in Procs /\ r \notin Hooks /\ pc[r] = "listPlain" /\ SourceKept(r) /\ BackupKept(r)
      /\ UNCHANGED <<db, begun, serving, file, source, mine>>
      /\ doomed' = [doomed EXCEPT ![r] = Surplus(r, "prerestore")] /\ pc' = [pc EXCEPT ![r] = "prune"]
  BY SnapshotsAssumption DEF DirInv, Procs, AloneInv, RestoresInv, ListPlain, Plain
<1>2. /\ \A p \in Procs \ {r} : pc'[p] = pc[p]
      /\ pc'[r] = "prune" /\ doomed'[r] = Surplus(r, "prerestore")
  BY <1>1 DEF TypeOK
<1>3. source[r].dir = "prerestore" => source[r].name \notin Surplus(r, "prerestore")
  BY <1>1 DEF Surplus
<1>4. begun \notin Surplus(r, "prerestore")
  BY <1>1, LastIsSpared DEF BackupKept
<1>5. SourceKept(r)'
  BY <1>1, <1>2, <1>3 DEF SourceKept
<1>6. BackupKept(r)'
  BY <1>1, <1>2, <1>4 DEF BackupKept, In, Complete
<1>. QED  BY <1>1, <1>2, <1>5, <1>6, AloneRestore

LEMMA RestorePruned ==
  ASSUME DirInv, AloneInv, NEW r \in Restorers, Prune(r)
  PROVE  AloneInv'
<1>1. /\ TypeOK /\ r \in Procs /\ r \notin Hooks /\ pc[r] = "prune" /\ SourceKept(r) /\ BackupKept(r)
      /\ UNCHANGED <<db, begun, serving, source, mine, pc>> /\ file \in [Names -> AFile]
  BY SnapshotsAssumption, Typed DEF DirInv, Procs, AloneInv, RestoresInv, Prune
<1>2. PICK n \in doomed[r] : file' = Unlinked(n, "prerestore") /\ doomed' = [doomed EXCEPT ![r] = @ \ {n}]
  BY <1>1 DEF Prune, Oldest, Plain
<1>3. doomed'[r] = doomed[r] \ {n}
  BY <1>1, <1>2 DEF TypeOK
<1>4. n # begun /\ (source[r].name = n => source[r].dir # "prerestore")
  BY <1>1 DEF SourceKept, BackupKept
<1>5. /\ \A m \in Names \ {n} : file'[m] = file[m]
      /\ file[n].dir # "prerestore" => file' = file
  BY <1>1, <1>2 DEF Unlinked
<1>6. SourceKept(r)'
  BY <1>1, <1>3, <1>4, <1>5 DEF SourceKept
<1>7. BackupKept(r)'
  BY <1>1, <1>3, <1>4, <1>5 DEF BackupKept, In, Complete
<1>. QED  BY <1>1, <1>6, <1>7, AloneRestore

LEMMA RestoreEnds ==
  ASSUME DirInv, AloneInv, NEW r \in Restorers, Pruned(r) \/ RestoreWrite(r)
  PROVE  AloneInv'
<1>1. /\ TypeOK /\ r \in Procs /\ r \notin Hooks /\ pc[r] # "idle" /\ SourceKept(r) /\ BackupKept(r)
      /\ UNCHANGED <<begun, serving, file, mine, doomed>>
  BY SnapshotsAssumption DEF DirInv, Procs, AloneInv, RestoresInv, Pruned, RestoreWrite
<1>2. /\ \A p \in Procs \ {r} : pc'[p] = pc[p]
      /\ \/ pc'[r] = "idle"
         \/ pc[r] = "prune" /\ pc'[r] = "write" /\ UNCHANGED <<db, source>>
  BY <1>1 DEF TypeOK, Pruned, RestoreWrite
<1>3. SourceKept(r)' /\ BackupKept(r)'
  BY <1>1, <1>2 DEF SourceKept, BackupKept, In, Complete
<1>. QED  BY <1>1, <1>2, <1>3, AloneRestore

LEMMA HookSteps ==
  ASSUME DirInv, AloneInv, "restore" \notin Overlap, NEW h \in Hooks,
         \/ HookStart(h) \/ ReadDates(h) \/ ListPeriodic(h) \/ Promote(h) \/ Promoted(h)
         \/ Reserve(h) \/ Copy(h) \/ Describe(h) \/ Fail(h) \/ ListPlain(h) \/ Prune(h) \/ Pruned(h)
  PROVE  AloneInv'
<1>1. StartsInv /\ h \in Procs /\ h \notin Restorers /\ TypeOK
  BY SnapshotsAssumption DEF AloneInv, Procs, DirInv
<1>2. StartsInv'
  BY <1>1, StartsReserve, StartsCopy, StartsDescribe, StartsPromote, StartsOther
<1>3. pc[h] # "idle" \/ ~Restoring
  BY DEF HookStart, Alone, ReadDates, ListPeriodic, Promote, Promoted, Reserve, Copy, Describe, Fail,
         ListPlain, Prune, Pruned
<1>4. (\A p \in Procs \ {h} : pc'[p] = pc[p]) /\ serving' = serving
  BY <1>1 DEF TypeOK, HookStart, ReadDates, ListPeriodic, Promote, Promoted, Reserve, Copy, Describe, Fail,
         ListPlain, Prune, Pruned
<1>. QED  BY <1>2, <1>3, <1>4, AloneStart

LEMMA AloneStutter == AloneInv /\ UNCHANGED vars => AloneInv'
  BY DEF AloneInv, StartsInv, RestoresInv, DoomedFirst, Apart, HealthyWhileTaking, SourceKept, BackupKept,
         Healthy, Newest, Described, In, Complete, Restoring, Taking, vars

LEMMA AloneStep == "restore" \notin Overlap /\ DirInv /\ AloneInv /\ [Next]_vars => AloneInv'
<1> SUFFICES ASSUME "restore" \notin Overlap, DirInv, AloneInv, [Next]_vars PROVE AloneInv'
  OBVIOUS
<1>1. CASE UNCHANGED vars
  BY <1>1, AloneStutter
<1>2. CASE StartServer \/ StopServer \/ Write \/ Lose \/ Pass
  BY <1>2, AloneWorld
<1>3. ASSUME NEW h \in Hooks, HookStart(h) \/ ReadDates(h) \/ ListPeriodic(h) \/ Promote(h) \/ Promoted(h)
      PROVE  AloneInv'
  BY <1>3, HookSteps
<1>4. ASSUME NEW p \in Procs, \/ Reserve(p) \/ Copy(p) \/ Describe(p) \/ Fail(p)
                              \/ ListPlain(p) \/ Prune(p) \/ Pruned(p)
      PROVE  AloneInv'
  <2>1. CASE p \in Hooks
    BY <1>4, <2>1, HookSteps
  <2>2. CASE p \in Restorers
    BY <1>4, <2>2, RestoreReserved, RestoreWritten, RestoreFailed, RestoreListed, RestorePruned, RestoreEnds
  <2>. QED  BY <2>1, <2>2 DEF Procs
<1>5. ASSUME NEW r \in Restorers, RestoreWrite(r) \/ \E n \in Names : RestoreStart(r, n)
      PROVE  AloneInv'
  BY <1>5, RestoreEnds, RestoreStarted
<1>. QED  BY <1>1, <1>2, <1>3, <1>4, <1>5 DEF Next

--------------------------------------------------------------------------------
\* What is described is described as healthy.
LEMMA LossSeen == Overlap = {} /\ DirInv /\ AloneInv /\ [Next]_vars => LossStaysVisible
<1> SUFFICES ASSUME Overlap = {}, DirInv, AloneInv, [Next]_vars, NEW n \in Names, n \notin Described, n \in Described',
                    NEW m \in Newest(Described)
             PROVE  file[m].counts < file'[n].counts + Threshold
  BY DEF LossStaysVisible
<1>0. TypeOK /\ file \in [Names -> AFile]
  BY Typed DEF DirInv
<1>1. file'[n].dir = "periodic" /\ file'[n].described /\ ~(file[n].dir = "periodic" /\ file[n].described)
  BY DEF Described, In
<1>2. CASE \A k \in Names : file'[k].dir = "periodic" /\ file'[k].described => file[k].dir = "periodic" /\ file[k].described
  BY <1>1, <1>2
<1>3. CASE UNCHANGED file
  BY <1>2, <1>3
<1>4. ASSUME NEW p \in Procs, Describe(p)
      PROVE  file[m].counts < file'[n].counts + Threshold
  <2>1. /\ \A k \in Names : file'[k].dir = file[k].dir /\ (k # mine[p] => file'[k] = file[k])
        /\ mine[p] \in Names => file'[mine[p]].counts = db
    BY <1>0, <1>4, Written
  <2>2. n = mine[p] /\ file[n].dir = "periodic"
    BY <1>1, <2>1
  <2>3. p \in Hooks
    <3>1. p \in Restorers => file[mine[p]].dir = "prerestore"
      BY <1>4 DEF AloneInv, RestoresInv, BackupKept, Describe, In
    <3>. QED  BY <3>1, <2>2 DEF Procs
  <2>4. Healthy
    BY <2>3, <1>4 DEF AloneInv, StartsInv, HealthyWhileTaking, AtWork, Describe
  <2>. QED  BY <2>1, <2>2, <2>4 DEF Healthy
<1>5. ASSUME NEW p \in Procs, Copy(p)
      PROVE  file[m].counts < file'[n].counts + Threshold
  <2>1. /\ \A k \in Names : file'[k].dir = file[k].dir /\ (k # mine[p] => file'[k] = file[k])
        /\ mine[p] \in Names => file'[mine[p]].described = file[mine[p]].described
    BY <1>0, <1>5, Written
  <2>. QED  BY <2>1, <1>2
<1>6. ASSUME NEW p \in Procs, Reserve(p)
      PROVE  file[m].counts < file'[n].counts + Threshold
  <2>. DEFINE new == [NoFile EXCEPT !.dir = Home(p), !.taken = now]
  <2>1. file' = [file EXCEPT ![begun + 1] = new] /\ ~new.described
    BY <1>6 DEF Reserve, NoFile
  <2>. HIDE DEF new
  <2>. QED  BY <2>1, <1>0, <1>2
<1>7. ASSUME NEW g, NEW dir, file' = Unlinked(g, dir)
      PROVE  file[m].counts < file'[n].counts + Threshold
  BY <1>7, <1>0, <1>2 DEF Unlinked, NoFile
<1>8. ASSUME NEW p \in Procs, Prune(p)
      PROVE  file[m].counts < file'[n].counts + Threshold
  BY <1>7, <1>8 DEF Prune
<1>9. ASSUME NEW h \in Hooks, Promote(h)
      PROVE  file[m].counts < file'[n].counts + Threshold
  <2>1. PICK k \in Oldest(doomed[h]) : \/ file' = Unlinked(k, "periodic")
                                       \/ file' = [file EXCEPT ![k].dir = "daily"]
                                       \/ UNCHANGED file
    BY <1>9 DEF Promote
  <2>2. k \in Names
    BY <1>0, Typed DEF Oldest, Procs
  <2>3. CASE file' = [file EXCEPT ![k].dir = "daily"]
    <3>1. file[k] \in AFile /\ file' = [file EXCEPT ![k] = [file[k] EXCEPT !.dir = "daily"]]
      BY <1>0, <2>2, <2>3
    <3>2. /\ \A j \in Names \ {k} : file'[j] = file[j]
          /\ file'[k] = [file[k] EXCEPT !.dir = "daily"]
      BY <1>0, <2>2, <3>1
    <3>3. file'[k].dir # "periodic"
      BY <3>1, <3>2 DEF AFile
    <3>. QED  BY <3>2, <3>3, <1>2
  <2>. QED  BY <2>1, <2>3, <1>3, <1>7
<1>10. UNCHANGED vars \/ StartServer \/ StopServer \/ Write \/ Lose \/ Pass => UNCHANGED file
  BY DEF vars, StartServer, StopServer, Write, Lose, Pass
<1>11. ASSUME NEW h \in Hooks
       PROVE  HookStart(h) \/ ReadDates(h) \/ ListPeriodic(h) \/ Promoted(h) => UNCHANGED file
  BY DEF HookStart, ReadDates, ListPeriodic, Promoted
<1>12. ASSUME NEW p \in Procs
       PROVE  Fail(p) \/ ListPlain(p) \/ Pruned(p) => UNCHANGED file
  BY DEF Fail, ListPlain, Pruned
<1>13. ASSUME NEW r \in Restorers
       PROVE  RestoreWrite(r) \/ (\E k \in Names : RestoreStart(r, k)) => UNCHANGED file
  BY DEF RestoreWrite, RestoreStart
<1>. QED  BY <1>3, <1>4, <1>5, <1>6, <1>8, <1>9, <1>10, <1>11, <1>12, <1>13 DEF Next

\* Only a restore's last step writes, and it finds both snapshots as they were.
LEMMA WritesSound == DirInv /\ AloneInv /\ [Next]_vars => WritesChosen /\ OverwrittenIsKept
<1> SUFFICES ASSUME DirInv, AloneInv, [Next]_vars, NEW r \in Restorers, Writes(r)
             PROVE  /\ db' \in {db, source[r].rows}
                    /\ \E n \in In("prerestore") : Complete(n) /\ file[n].rows = db
  BY DEF WritesChosen, OverwrittenIsKept
<1>1. TypeOK /\ pc[r] = "write" /\ pc'[r] = "idle" /\ faults' = faults /\ r \in Procs /\ r \notin Hooks
  BY SnapshotsAssumption DEF DirInv, Writes, Procs
<1>2. SourceKept(r) /\ BackupKept(r)
  BY DEF AloneInv, RestoresInv
<1>3. RestoreWrite(r)
  <2>1. ~(UNCHANGED vars \/ StartServer \/ StopServer \/ Write \/ Lose \/ Pass)
    BY <1>1 DEF vars, StartServer, StopServer, Write, Lose, Pass
  <2>2. ASSUME NEW h \in Hooks
        PROVE  ~(HookStart(h) \/ ReadDates(h) \/ ListPeriodic(h) \/ Promote(h) \/ Promoted(h))
    BY <1>1 DEF TypeOK, HookStart, ReadDates, ListPeriodic, Promote, Promoted
  <2>3. ASSUME NEW p \in Procs
        PROVE  ~(Reserve(p) \/ Copy(p) \/ Describe(p) \/ ListPlain(p) \/ Prune(p) \/ Pruned(p))
    BY <1>1 DEF TypeOK, Reserve, Copy, Describe, ListPlain, Prune, Pruned
  <2>4. ASSUME NEW p \in Procs
        PROVE  ~Fail(p)
    <3>1. faults \in Nat
      BY <1>1, Bounds DEF TypeOK
    <3>. QED  BY <1>1, <3>1 DEF Fail
  <2>5. ASSUME NEW q \in Restorers, NEW n \in Names
        PROVE  ~RestoreStart(q, n)
    BY <1>1 DEF TypeOK, RestoreStart
  <2>6. ASSUME NEW q \in Restorers, RestoreWrite(q)
        PROVE  q = r
    BY <1>1, <2>6 DEF TypeOK, RestoreWrite
  <2>. QED  BY <2>1, <2>2, <2>3, <2>4, <2>5, <2>6 DEF Next
<1>4. db' = file[source[r].name].rows \/ db' = 0 \/ db' = db
  BY <1>3 DEF RestoreWrite
<1>5. file[source[r].name].dir = source[r].dir /\ file[source[r].name].rows = source[r].rows
  BY <1>1, <1>2 DEF SourceKept
<1>6. db' = source[r].rows
  BY <1>3, <1>5 DEF RestoreWrite
<1>7. begun \in In("prerestore") /\ Complete(begun) /\ file[begun].rows = db
  BY <1>1, <1>2 DEF BackupKept
<1>. QED  BY <1>6, <1>7

LEMMA DirsAlways == Spec => [](DirInv /\ SourceNamed)
<1>1. Init => DirInv /\ SourceNamed
  <2>1. ASSUME Init PROVE SourceNamed
    BY <2>1 DEF Init, SourceNamed, Procs
  <2>. QED  BY <2>1, DirInit
<1>2. DirInv /\ SourceNamed /\ [Next]_vars => DirInv' /\ SourceNamed'
  BY DirStep, SourceStep
<1>. QED  BY <1>1, <1>2, PTL DEF Spec

LEMMA AloneAlways == ASSUME "restore" \notin Overlap PROVE Spec => []AloneInv
<1>1. DirInv /\ AloneInv /\ [Next]_vars => AloneInv'
  BY AloneStep
<1>. QED  BY <1>1, AloneInit, DirsAlways, PTL DEF Spec

\* The newest snapshots stay, each day keeps one, and a loss stays visible while
\* nothing else goes on: for any number of hooks and restores, whatever overlaps,
\* dies or fails.
THEOREM SnapshotsAlwaysKept == Spec => SnapshotsAreKept
<1>. DEFINE Kept == NewestKept /\ (Usable => KeepsDates)
            Seen == Overlap = {} => LossStaysVisible
<1>1. DirInv /\ [Next]_vars => Kept
  BY DeletedIsOld
<1>2. Spec => [][Kept]_file
  <2>1. [Kept]_vars => [Kept]_file
    BY DEF vars
  <2>2. DirInv /\ [Next]_vars => [Kept]_file
    BY <1>1, <2>1
  <2>. HIDE DEF Kept
  <2>. QED  BY <2>2, DirsAlways, PTL DEF Spec
<1>3. Spec => [][Seen]_file
  <2>1. CASE Overlap = {}
    <3>1. DirInv /\ AloneInv /\ [Next]_vars => [Seen]_file
      BY <2>1, LossSeen
    <3>2. Spec => []AloneInv
      BY <2>1, AloneAlways
    <3>. HIDE DEF Seen
    <3>. QED  BY <3>1, <3>2, DirsAlways, PTL DEF Spec
  <2>2. CASE Overlap # {}
    <3>1. [Next]_vars => [Seen]_file
      BY <2>2
    <3>. HIDE DEF Seen
    <3>. QED  BY <3>1, PTL DEF Spec
  <2>. QED  BY <2>1, <2>2
<1>4. [Kept]_file /\ [Seen]_file => [NewestKept /\ (Usable => KeepsDates) /\ (Overlap = {} => LossStaysVisible)]_file
  OBVIOUS
<1>. HIDE DEF Kept, Seen
<1>. QED  BY <1>2, <1>3, <1>4, PTL DEF SnapshotsAreKept

\* While a restore has the snapshots to itself it writes what was chosen, and what it
\* overwrites can be restored in turn: for any number of hooks and restores.
THEOREM RestoresUndoable == ASSUME "restore" \notin Overlap PROVE Spec => RestoreIsUndoable
<1>1. DirInv /\ AloneInv /\ [Next]_vars => [WritesChosen /\ OverwrittenIsKept]_vars
  BY WritesSound
<1>2. Spec => []AloneInv
  BY AloneAlways
<1>. QED  BY <1>1, <1>2, DirsAlways, PTL DEF Spec, RestoreIsUndoable

--------------------------------------------------------------------------------
\* The gate.  A branch changes finitely many files, each as git can show it.
AnyChange(p) == UNION {Change(p, o) : o \in Paths}
GateInv ==
    /\ diff = [p \in Paths |-> diff[p]]
    /\ \A p \in Paths : diff[p] \in AnyChange(p) \union {Unchanged}
    /\ IsFiniteSet(Changed)

\* What waits for a human does so for one of these reasons.
Reasons ==
    \/ Touched \intersect (MigrationFiles \union PublicIf \union Detector) # {}
    \/ \E p \in Changed : Counted(p) \intersect {"ddl", "destroy"} # {}
    \/ \E p \in Changed : diff[p].binary

LEMMA WaitsForAReason == (Classify(FALSE) = "pre_go") <=> Reasons
  <1>1. (Classify(FALSE) = "pre_go") <=> SelfTouched \/ Findings # {}
    BY DEF Classify
  <1>2. Findings # {} <=> \/ Touched \intersect MigrationFiles # {}
                          \/ Touched \intersect PublicIf # {}
                          \/ \E p \in Changed : "ddl" \in Counted(p)
                          \/ \E p \in Changed : "destroy" \in Counted(p)
                          \/ \E p \in Changed : diff[p].binary
    BY DEF Findings
  <1> QED
    BY <1>1, <1>2 DEF Reasons, SelfTouched

LEMMA ChangeFacts ==
    ASSUME GateAssumption, NEW p \in Paths, NEW c \in AnyChange(p)
    PROVE  /\ c # Unchanged /\ c.old \in Paths /\ c.binary \in BOOLEAN /\ c.header \in BOOLEAN
           /\ c.lines \in Nat /\ c.shows \subseteq {"ddl", "destroy"} /\ c.counts \subseteq c.shows
           /\ ~c.header => c.counts = Read(p, c.shows)
           /\ c.binary => c.shows = {}
  <1>1. "none" \notin Paths
    BY DEF GateAssumption, MigrationFiles, PublicIf, Dependencies, Detector, Docs, Tests
  <1>2. PICK o \in Paths : c \in Change(p, o)
    BY DEF AnyChange
  <1>3. \A n \in LinesOf(p) : n \in Nat
    BY DEF GateAssumption, LinesOf
  <1>4. /\ c.old = o /\ c.binary \in BOOLEAN /\ c.header \in BOOLEAN /\ c.lines \in LinesOf(p) \union {0}
        /\ c.shows \subseteq Kinds /\ c.counts \subseteq c.shows
        /\ ~c.header => c.counts = Read(p, c.shows)
        /\ c.binary => c.shows = {}
    BY <1>2 DEF Change, Read
  <1>5. c # Unchanged
    BY <1>1, <1>4 DEF Unchanged
  <1> QED
    BY <1>3, <1>4, <1>5 DEF Kinds

\* A commit takes no name and nothing binary away, and what is read of the lines
\* grows with them: a file that becomes binary is a reason itself.
Lasting ==
    \/ Touched \intersect (MigrationFiles \union PublicIf \union Detector) # {}
    \/ \E p \in Changed : diff[p].binary

LEMMA CommitSteps ==
    ASSUME GateAssumption, GateInv, Commit
    PROVE  GateInv' /\ GuardStays
  <1> DEFINE Grows(p, c) ==
               \/ diff[p] = Unchanged
               \/ c.binary
               \/ /\ ~diff[p].binary /\ (diff[p].header => c.header)
                  /\ diff[p].shows \subseteq c.shows
  <1>0. PICK p \in Paths, o \in Paths : \E c \in Change(p, o) :
           /\ Grows(p, c)
           /\ diff[p] # Unchanged => o = diff[p].old
           /\ diff' = [diff EXCEPT ![p] = c]
    <2>1. PICK p \in Paths : Extend(p) \/ \E o \in Paths : Add(p, o)
      BY DEF Commit
    <2>2. CASE Extend(p)
      <3>1. diff[p].old \in Paths
        BY <2>2, ChangeFacts DEF GateInv, Extend
      <3> QED
        BY <2>2, <3>1 DEF Extend
    <2>3. CASE \E o \in Paths : Add(p, o)
      BY <2>3 DEF Add
    <2> QED
      BY <2>1, <2>2, <2>3
  <1>1. PICK c \in Change(p, o) :
           /\ Grows(p, c)
           /\ diff[p] # Unchanged => o = diff[p].old
           /\ diff' = [diff EXCEPT ![p] = c]
    BY <1>0
  <1>2. c \in AnyChange(p)
    BY DEF AnyChange
  <1>3. /\ c # Unchanged /\ c.old \in Paths /\ c.binary \in BOOLEAN /\ c.header \in BOOLEAN
        /\ ~c.header => c.counts = Read(p, c.shows)
    BY <1>2, ChangeFacts
  <1>4. \A q \in Paths : diff'[q] = IF q = p THEN c ELSE diff[q]
    BY <1>1 DEF GateInv
  <1>5. Changed' = Changed \union {p}
    BY <1>3, <1>4 DEF Changed
  <1>6. GateInv'
    <2>1. diff' = [q \in Paths |-> diff'[q]]
      BY <1>1 DEF GateInv
    <2>2. \A q \in Paths : diff'[q] \in AnyChange(q) \union {Unchanged}
      BY <1>2, <1>4 DEF GateInv
    <2>3. IsFiniteSet(Changed')
      BY <1>5, FS_AddElement DEF GateInv
    <2> QED
      BY <2>1, <2>2, <2>3 DEF GateInv, AnyChange, Change, LinesOf, Read, Changed
  <1>7. c.old = o
    BY DEF Change
  <1>8. Touched \subseteq Touched'
    <2>1. \A q \in Changed : diff'[q].old = diff[q].old
      BY <1>1, <1>4, <1>7 DEF Changed
    <2> QED
      BY <1>5, <2>1 DEF Touched
  <1>9. \A q \in Changed : diff[q].binary => diff'[q].binary
    BY <1>1, <1>4 DEF Changed
  <1>10. Lasting => Lasting'
    BY <1>5, <1>8, <1>9 DEF Lasting
  <1>11. ASSUME NEW q \in Changed, Counted(q) \intersect {"ddl", "destroy"} # {}, AllRead'
         PROVE  diff'[q].binary \/ Counted(q)' \intersect {"ddl", "destroy"} # {}
    <2>1. q \in Changed' /\ ~diff'[q].header /\ q \in Paths
      BY <1>5, <1>11 DEF AllRead, Changed
    <2>2. CASE q # p
      BY <1>4, <1>11, <2>1, <2>2 DEF Counted
    <2>3. CASE q = p /\ ~c.binary
      <3>1. ~diff[p].header /\ diff[p].shows \subseteq c.shows
        BY <1>1, <1>4, <1>11, <2>1, <2>3 DEF Changed
      <3>2. diff[p] \in AnyChange(p)
        BY <1>11, <2>3 DEF GateInv, Changed
      <3>3. diff[p].counts = Read(p, diff[p].shows)
        BY <3>1, <3>2, ChangeFacts
      <3>4. c.counts = Read(p, c.shows)
        BY <1>3, <1>4, <2>1, <2>3
      <3>5. diff[p].counts \subseteq c.counts
        BY <3>1, <3>3, <3>4 DEF Read
      <3> QED
        BY <1>4, <1>11, <2>3, <3>5 DEF Counted
    <2>4. CASE q = p /\ c.binary
      BY <1>4, <2>4
    <2> QED
      BY <2>2, <2>3, <2>4
  <1>12. /\ Reasons /\ AllRead' => Reasons'
         /\ Lasting => Reasons'
    BY <1>5, <1>10, <1>11 DEF Reasons, Lasting
  <1>13. (\E q \in Changed : diff[q].binary \/ BothNames(q) \cap (Guarded \ Dependencies) # {}) => Lasting
    <2>1. Guarded \ Dependencies \subseteq MigrationFiles \union PublicIf \union Detector
      BY DEF Guarded
    <2>2. \A q \in Changed : BothNames(q) \subseteq Touched
      BY DEF BothNames, Touched
    <2> QED
      BY <2>1, <2>2 DEF Lasting
  <1>14. GuardStays
    <2>1. Waits <=> Reasons
      BY WaitsForAReason DEF Waits
    <2>2. (Waits <=> Reasons)'
      <3>1. ((Classify(FALSE) = "pre_go") <=> Reasons)'
        BY WaitsForAReason, PTL
      <3> QED
        BY <3>1 DEF Waits
    <2> QED
      BY <1>12, <1>13, <2>1, <2>2 DEF GuardStays
  <1> QED
    BY <1>6, <1>14

LEMMA IntervalSize ==
    ASSUME NEW n \in Nat
    PROVE  IsFiniteSet(1..n) /\ Cardinality(1..n) = n
  BY FS_Interval

LEMMA LinesOfOne ==
    ASSUME NEW x, NEW n \in Nat
    PROVE  IsFiniteSet({x} \X (1..n)) /\ Cardinality({x} \X (1..n)) = n
  <1>1. IsFiniteSet({x}) /\ Cardinality({x}) = 1
    BY FS_Singleton
  <1>2. IsFiniteSet(1..n) /\ Cardinality(1..n) = n
    BY IntervalSize
  <1>3. IsFiniteSet({x} \X (1..n)) /\ Cardinality({x} \X (1..n)) = 1 * n
    <2>1. /\ IsFiniteSet({x} \X (1..n))
          /\ Cardinality({x} \X (1..n)) = Cardinality({x}) * Cardinality(1..n)
      BY <1>1, <1>2, FS_Product
    <2> QED
      BY <1>1, <1>2, <2>1
  <1> QED
    BY <1>3

\* A file that counts has no more lines than are counted in all.
LEMMA LinesAreCounted ==
    ASSUME GateAssumption, GateInv, NEW p \in Sized \ (Docs \union Tests)
    PROVE  Cardinality(CoreLines) \in Nat /\ diff[p].lines <= Cardinality(CoreLines)
  <1>1. \A q \in Changed : q \in Paths /\ diff[q] \in AnyChange(q)
    BY DEF GateInv, Changed
  <1>2. \A q \in Changed : diff[q].lines \in Nat
    BY <1>1, ChangeFacts
  <1> DEFINE of(q) == {q} \X (1..diff[q].lines)
  <1> DEFINE counted == Sized \ (Docs \union Tests)
  <1>3. \A q \in counted : IsFiniteSet(of(q)) /\ Cardinality(of(q)) = diff[q].lines
    <2> SUFFICES ASSUME NEW q \in counted
                 PROVE  IsFiniteSet(of(q)) /\ Cardinality(of(q)) = diff[q].lines
      OBVIOUS
    <2>1. diff[q].lines \in Nat
      BY <1>2 DEF Sized
    <2> QED
      BY <2>1, LinesOfOne
  <1>4. IsFiniteSet({of(q) : q \in counted})
    <2>1. IsFiniteSet(counted)
      BY FS_Subset DEF GateInv, Sized
    <2> DEFINE f == [q \in counted |-> of(q)]
    <2>2. f \in Surjection(counted, {of(q) : q \in counted})
      BY DEF Surjection
    <2> QED
      BY <2>1, <2>2, FS_Surjection
  <1>5. CoreLines = UNION {of(q) : q \in counted}
    BY DEF CoreLines
  <1>6. IsFiniteSet(CoreLines)
    BY <1>3, <1>4, <1>5, FS_UNION
  <1>7. of(p) \subseteq CoreLines
    BY <1>5
  <1>8. Cardinality(of(p)) = diff[p].lines
    BY <1>3
  <1> HIDE DEF of
  <1>9. Cardinality(of(p)) <= Cardinality(CoreLines)
    BY <1>6, <1>7, FS_Subset
  <1> QED
    BY <1>6, <1>8, <1>9, FS_CardinalityType

\* What goes ahead has no reason to wait, and its size, tests and rollback do.
LEMMA OnlySafeGoesAhead ==
    ASSUME GateAssumption, GateInv
    PROVE  \A errors \in BOOLEAN : GoesAheadSafely(errors)
  <1> SUFFICES ASSUME NEW errors \in BOOLEAN, Classify(errors) = "post_veto_candidate"
               PROVE  /\ ~errors
                      /\ \A p \in Changed :
                            /\ BothNames(p) \intersect Guarded = {}
                            /\ ~diff[p].binary
                            /\ p \notin Docs \union Tests => diff[p].lines <= MAX_LINES
                            /\ p \notin Docs \union Tests /\ ~diff[p].header => diff[p].shows = {}
                      /\ Cardinality(Changed) <= MAX_FILES
                      /\ Changed \intersect Tests # {} \/ Changed \subseteq Docs
    BY DEF GoesAheadSafely
  <1>1. ~errors /\ Classify(FALSE) # "pre_go" /\ ~Pending /\ AxisB
    BY DEF Classify
  <1>2. ~Reasons
    BY <1>1, WaitsForAReason
  <1>3. Sized = Changed
    BY <1>1 DEF Pending, Touched, Sized, LockFile, Dependencies
  <1>4. \A p \in Changed : BothNames(p) \subseteq Touched
    BY DEF Touched, BothNames
  <1>5. Touched \intersect Guarded = {}
    BY <1>1, <1>2 DEF Reasons, Pending, Guarded
  <1>6. \A p \in Changed : ~diff[p].binary
    BY <1>2 DEF Reasons
  <1>7. ASSUME NEW p \in Changed, p \notin Docs \union Tests
        PROVE  diff[p].lines <= MAX_LINES /\ (~diff[p].header => diff[p].shows = {})
    <2>1. p \in Paths /\ diff[p] \in AnyChange(p)
      BY DEF Changed, GateInv
    <2>2. /\ diff[p].shows \subseteq {"ddl", "destroy"} /\ diff[p].lines \in Nat
          /\ ~diff[p].header => diff[p].counts = Read(p, diff[p].shows)
      BY <2>1, ChangeFacts
    <2>3. Counted(p) \intersect {"ddl", "destroy"} = {}
      BY <1>2 DEF Reasons
    <2>4. ~diff[p].header => diff[p].shows = {}
      BY <1>7, <2>2, <2>3 DEF Counted, Read
    <2>5. Cardinality(CoreLines) \in Nat /\ diff[p].lines <= Cardinality(CoreLines)
      BY <1>3, <1>7, LinesAreCounted
    <2>6. Cardinality(CoreLines) <= MAX_LINES
      BY <1>1 DEF AxisB, SizeOk
    <2> QED
      BY <2>2, <2>4, <2>5, <2>6 DEF GateAssumption
  <1>8. Cardinality(Changed) <= MAX_FILES /\ (Changed \intersect Tests # {} \/ Changed \subseteq Docs)
    BY <1>1, <1>3 DEF AxisB, SizeOk, HasTests
  <1> QED
    BY <1>1, <1>4, <1>5, <1>6, <1>7, <1>8

\* A branch that waits for a human waits on whatever is committed to it, and what
\* goes ahead is small, read to its end, tested and undone by a revert, as far as
\* the lines of the diff are told from its headers.
THEOREM GateAlwaysHoldsBack ==
    ASSUME GateAssumption
    PROVE  GateSpec => GateHoldsBack
  <1>1. GateInit => GateInv
    BY FS_EmptySet DEF GateInit, GateInv, Changed
  <1>2. GateInv /\ [GateNext]_gateVars => GateInv'
    BY CommitSteps DEF GateNext, gateVars, GateInv, Changed, AnyChange, Change, LinesOf, Read
  <1>3. GateInv /\ GateNext => GuardStays
    BY CommitSteps DEF GateNext
  <1>4. GateInv => \A errors \in BOOLEAN : GoesAheadSafely(errors)
    BY OnlySafeGoesAhead
  <1> QED
    BY <1>1, <1>2, <1>3, <1>4, PTL DEF GateSpec, GateHoldsBack

--------------------------------------------------------------------------------
\* What a session is told.  The lines a text may have ...
AnyLine == [act : Acts] \union [more : Nat] \union {[cut |-> TRUE], [sep |-> TRUE], [other |-> TRUE]}

LEMMA LineFacts ==
    /\ \A a \in Acts : /\ [act |-> a] \in AnyLine /\ [act |-> a].act = a
                       /\ Has([act |-> a], "act") /\ ~Has([act |-> a], "more")
    /\ \A n \in Nat : /\ [more |-> n] \in AnyLine /\ [more |-> n].more = n
                      /\ Has([more |-> n], "more") /\ ~Has([more |-> n], "act")
    /\ \A l \in {[cut |-> TRUE], [sep |-> TRUE], [other |-> TRUE]} :
          l \in AnyLine /\ ~Has(l, "act") /\ ~Has(l, "more")
  BY DEF AnyLine, Has

\* ... of which it shows the activities of S at most once each, and if it comes
\* to tell how many more there are, n, all of S before.
Sound(t, S, n) ==
    /\ t \in Seq(AnyLine)
    /\ \A i, j \in 1..Len(t) : Has(t[i], "act") /\ Has(t[j], "act") /\ t[i].act = t[j].act => i = j
    /\ \A i \in 1..Len(t) : Has(t[i], "act") => t[i].act \in S
    /\ \A i \in 1..Len(t) : Has(t[i], "more") =>
          /\ t[i].more = n
          /\ \A a \in S : \E k \in 1..(i - 1) : Has(t[k], "act") /\ t[k].act = a

Mute(t) == t \in Seq(AnyLine) /\ \A i \in 1..Len(t) : ~Has(t[i], "act") /\ ~Has(t[i], "more")

LEMMA MuteIsSound ==
    ASSUME NEW t, NEW S, NEW n, Mute(t)
    PROVE  Sound(t, S, n)
  BY DEF Mute, Sound

LEMMA EmptyIsMute == Mute(<<>>)
  BY EmptySeq DEF Mute

LEMMA OneIsMute ==
    ASSUME NEW l \in {[cut |-> TRUE], [sep |-> TRUE], [other |-> TRUE]}
    PROVE  Mute(<<l>>) /\ Len(<<l>>) = 1
  <1>1. l \in AnyLine /\ ~Has(l, "act") /\ ~Has(l, "more")
    BY LineFacts
  <1>2. <<l>> \in Seq(AnyLine) /\ Len(<<l>>) = 1 /\ \A i \in 1..1 : <<l>>[i] = l
    BY <1>1
  <1> QED
    BY <1>1, <1>2 DEF Mute

LEMMA MuteConcat ==
    ASSUME NEW t, NEW u, Mute(t), Mute(u)
    PROVE  Mute(t \o u)
  <1>1. /\ t \o u \in Seq(AnyLine) /\ Len(t \o u) = Len(t) + Len(u)
        /\ \A i \in 1..(Len(t) + Len(u)) : (t \o u)[i] = IF i <= Len(t) THEN t[i] ELSE u[i - Len(t)]
    BY ConcatProperties DEF Mute
  <1>2. Len(t) \in Nat /\ Len(u) \in Nat
    BY LenProperties DEF Mute
  <1>3. ASSUME NEW i \in 1..Len(t \o u)
        PROVE  ~Has((t \o u)[i], "act") /\ ~Has((t \o u)[i], "more")
    <2>1. CASE i <= Len(t)
      BY <1>1, <1>2, <2>1 DEF Mute
    <2>2. CASE ~(i <= Len(t))
      <3>1. i - Len(t) \in 1..Len(u)
        BY <1>1, <1>2, <2>2
      <3> QED
        BY <1>1, <2>2, <3>1 DEF Mute
    <2> QED
      BY <2>1, <2>2
  <1> QED
    BY <1>1, <1>3 DEF Mute

LEMMA SoundThenMute ==
    ASSUME NEW t, NEW u, NEW S, NEW n, Sound(t, S, n), Mute(u)
    PROVE  Sound(t \o u, S, n)
  <1> DEFINE x == t \o u
  <1>1. /\ x \in Seq(AnyLine) /\ Len(x) = Len(t) + Len(u)
        /\ \A i \in 1..(Len(t) + Len(u)) : x[i] = IF i <= Len(t) THEN t[i] ELSE u[i - Len(t)]
    BY ConcatProperties DEF Mute, Sound
  <1>2. Len(t) \in Nat /\ Len(u) \in Nat
    BY LenProperties DEF Mute, Sound
  <1> HIDE DEF x
  <1>3. \A i \in 1..Len(x) : Has(x[i], "act") \/ Has(x[i], "more") => i \in 1..Len(t)
    <2> SUFFICES ASSUME NEW i \in 1..Len(x), ~(i <= Len(t))
                 PROVE  ~Has(x[i], "act") /\ ~Has(x[i], "more")
      BY <1>1, <1>2
    <2>1. i - Len(t) \in 1..Len(u) /\ x[i] = u[i - Len(t)]
      BY <1>1, <1>2
    <2> QED
      BY <2>1 DEF Mute
  <1>4. \A i \in 1..Len(t) : i \in 1..Len(x) /\ x[i] = t[i]
    BY <1>1, <1>2
  <1>5. \A i, j \in 1..Len(x) : Has(x[i], "act") /\ Has(x[j], "act") /\ x[i].act = x[j].act => i = j
    BY <1>3, <1>4 DEF Sound
  <1>6. \A i \in 1..Len(x) : Has(x[i], "act") => x[i].act \in S
    BY <1>3, <1>4 DEF Sound
  <1>7. ASSUME NEW i \in 1..Len(x), Has(x[i], "more")
        PROVE  /\ x[i].more = n
               /\ \A a \in S : \E k \in 1..(i - 1) : Has(x[k], "act") /\ x[k].act = a
    <2>1. i \in 1..Len(t) /\ Has(t[i], "more") /\ x[i] = t[i]
      BY <1>3, <1>4, <1>7
    <2>2. \A k \in 1..(i - 1) : k \in 1..Len(t)
      BY <1>2, <2>1
    <2> QED
      BY <1>4, <2>1, <2>2 DEF Sound
  <1> QED
    BY <1>1, <1>5, <1>6, <1>7 DEF Sound, x

LEMMA MuteThenSound ==
    ASSUME NEW u, NEW t, NEW S, NEW n, Mute(u), Sound(t, S, n)
    PROVE  Sound(u \o t, S, n)
  <1> DEFINE x == u \o t
  <1>1. /\ x \in Seq(AnyLine) /\ Len(x) = Len(u) + Len(t)
        /\ \A i \in 1..(Len(u) + Len(t)) : x[i] = IF i <= Len(u) THEN u[i] ELSE t[i - Len(u)]
    BY ConcatProperties DEF Mute, Sound
  <1>2. Len(t) \in Nat /\ Len(u) \in Nat
    BY LenProperties DEF Mute, Sound
  <1> HIDE DEF x
  <1>3. \A i \in 1..Len(x) : Has(x[i], "act") \/ Has(x[i], "more") =>
           i - Len(u) \in 1..Len(t) /\ x[i] = t[i - Len(u)]
    <2> SUFFICES ASSUME NEW i \in 1..Len(x), Has(x[i], "act") \/ Has(x[i], "more")
                 PROVE  i - Len(u) \in 1..Len(t) /\ x[i] = t[i - Len(u)]
      OBVIOUS
    <2>1. ~(i <= Len(u))
      BY <1>1, <1>2 DEF Mute
    <2> QED
      BY <1>1, <1>2, <2>1
  <1>4. \A k \in 1..Len(t) : k + Len(u) \in 1..Len(x) /\ x[k + Len(u)] = t[k]
    BY <1>1, <1>2
  <1>5. ASSUME NEW i \in 1..Len(x), NEW j \in 1..Len(x),
               Has(x[i], "act"), Has(x[j], "act"), x[i].act = x[j].act
        PROVE  i = j
    <2>1. i - Len(u) = j - Len(u)
      BY <1>3, <1>5 DEF Sound
    <2> QED
      BY <1>2, <2>1
  <1>6. \A i \in 1..Len(x) : Has(x[i], "act") => x[i].act \in S
    BY <1>3 DEF Sound
  <1>7. ASSUME NEW i \in 1..Len(x), Has(x[i], "more")
        PROVE  /\ x[i].more = n
               /\ \A a \in S : \E k \in 1..(i - 1) : Has(x[k], "act") /\ x[k].act = a
    <2>1. i - Len(u) \in 1..Len(t) /\ x[i] = t[i - Len(u)]
      BY <1>3, <1>7
    <2>2. ASSUME NEW a \in S
          PROVE  \E k \in 1..(i - 1) : Has(x[k], "act") /\ x[k].act = a
      <3>1. PICK k \in 1..(i - Len(u) - 1) : Has(t[k], "act") /\ t[k].act = a
        BY <1>7, <2>1 DEF Sound
      <3>2. k \in 1..Len(t) /\ k + Len(u) \in 1..(i - 1)
        BY <1>2, <2>1
      <3>3. x[k + Len(u)] = t[k]
        BY <1>4, <3>2
      <3> QED
        BY <3>1, <3>2, <3>3
    <2> QED
      BY <1>7, <2>1, <2>2 DEF Sound
  <1> QED
    BY <1>1, <1>5, <1>6, <1>7 DEF Sound, x

LEMMA PrefixFacts ==
    ASSUME NEW T, NEW t \in Seq(T), NEW m \in 0..Len(t)
    PROVE  /\ SubSeq(t, 1, m) \in Seq(T) /\ Len(SubSeq(t, 1, m)) = m
           /\ \A i \in 1..m : SubSeq(t, 1, m)[i] = t[i]
  <1>1. Len(t) \in Nat /\ m \in Int /\ \A i \in 1..m : t[i] \in T
    BY LenProperties, ElementOfSeq
  <1> QED
    BY <1>1, SubSeqProperties

LEMMA PrefixIsSound ==
    ASSUME NEW t, NEW S, NEW n, Sound(t, S, n), NEW m \in 0..Len(t)
    PROVE  Sound(SubSeq(t, 1, m), S, n) /\ Len(SubSeq(t, 1, m)) = m
  <1> DEFINE x == SubSeq(t, 1, m)
  <1>1. Len(t) \in Nat /\ \A i \in 1..Len(t) : t[i] \in AnyLine
    BY LenProperties, ElementOfSeq DEF Sound
  <1>2. \A i \in 1..m : t[i] \in AnyLine
    BY <1>1
  <1>3. /\ x \in Seq(AnyLine) /\ Len(x) = m
        /\ \A i \in 1..m : x[i] = t[i]
    BY <1>1, <1>2, SubSeqProperties
  <1> HIDE DEF x
  <1>4. \A i \in 1..m : i \in 1..Len(t) /\ \A k \in 1..(i - 1) : k \in 1..m
    BY <1>1
  <1> QED
    BY <1>3, <1>4 DEF Sound, x

\* ... and so it does when it is cut to a budget, and composed with others.
LEMMA FittedIsSound ==
    ASSUME NEW t, NEW S, NEW n, Sound(t, S, n), NEW budget \in Nat
    PROVE  Sound(Fitted(t, budget), S, n) /\ Len(Fitted(t, budget)) <= budget
  <1>1. Len(t) \in Nat
    BY LenProperties DEF Sound
  <1>2. CASE Len(t) <= budget
    BY <1>2 DEF Fitted
  <1>3. CASE ~(Len(t) <= budget) /\ budget < 1
    <2>1. Fitted(t, budget) = <<>>
      BY <1>3 DEF Fitted, Truncated
    <2> QED
      BY <2>1, EmptyIsMute, MuteIsSound
  <1>4. CASE ~(Len(t) <= budget) /\ ~(budget < 1)
    <2>1. Fitted(t, budget) = SubSeq(t, 1, budget - 1) \o <<[cut |-> TRUE]>>
      BY <1>4 DEF Fitted, Truncated
    <2>2. budget - 1 \in 0..Len(t)
      BY <1>1, <1>4
    <2>3. Sound(SubSeq(t, 1, budget - 1), S, n) /\ Len(SubSeq(t, 1, budget - 1)) = budget - 1
      BY <2>2, PrefixIsSound
    <2>4. Mute(<<[cut |-> TRUE]>>) /\ Len(<<[cut |-> TRUE]>>) = 1
      BY OneIsMute
    <2>5. Sound(Fitted(t, budget), S, n)
      BY <2>1, <2>3, <2>4, SoundThenMute
    <2>6. Len(Fitted(t, budget)) = budget - 1 + 1
      BY <2>1, <2>3, <2>4, ConcatProperties DEF Sound, Mute
    <2> QED
      BY <2>5, <2>6
  <1> QED
    BY <1>2, <1>3, <1>4

LEMMA FittedIsMute ==
    ASSUME NEW k \in Nat, NEW budget \in Nat
    PROVE  Mute(Fitted(Section(k), budget))
  <1> DEFINE t == Section(k)
  <1>1. t \in Seq(AnyLine) /\ Len(t) = k /\ \A i \in 1..k : t[i] = [other |-> TRUE]
    <2>1. t \in [1..k -> AnyLine]
      BY LineFacts DEF Section
    <2>2. t \in Seq(AnyLine)
      BY <2>1, SeqDef
    <2> QED
      BY <2>1, <2>2, LenProperties DEF Section
  <1> HIDE DEF t
  <1>2. Mute(t)
    BY <1>1, LineFacts DEF Mute
  <1>3. CASE Len(t) <= budget
    BY <1>2, <1>3 DEF Fitted, t
  <1>4. CASE ~(Len(t) <= budget) /\ budget < 1
    BY <1>4, EmptyIsMute DEF Fitted, Truncated, t
  <1>5. CASE ~(Len(t) <= budget) /\ ~(budget < 1)
    <2>1. Fitted(t, budget) = SubSeq(t, 1, budget - 1) \o <<[cut |-> TRUE]>>
      BY <1>5 DEF Fitted, Truncated
    <2>2. \A i \in 1..(budget - 1) : i \in 1..k /\ t[i] \in AnyLine
      BY <1>1, <1>5, LineFacts
    <2>3. /\ SubSeq(t, 1, budget - 1) \in Seq(AnyLine)
          /\ Len(SubSeq(t, 1, budget - 1)) = budget - 1
          /\ \A i \in 1..(budget - 1) : SubSeq(t, 1, budget - 1)[i] = t[i]
      BY <1>5, <2>2, SubSeqProperties
    <2> DEFINE x == SubSeq(t, 1, budget - 1)
    <2> HIDE DEF x
    <2>4. Mute(x)
      <3>1. \A i \in 1..Len(x) : x[i] = [other |-> TRUE]
        BY <1>1, <2>2, <2>3 DEF x
      <3>2. x \in Seq(AnyLine)
        BY <2>3 DEF x
      <3> QED
        BY <3>1, <3>2, LineFacts DEF Mute
    <2> QED
      BY <2>1, <2>4, OneIsMute, MuteConcat DEF t, x
  <1> QED
    BY <1>3, <1>4, <1>5

LEMMA JoinedIsSound ==
    ASSUME NEW t, NEW u, NEW S, NEW n, Sound(t, S, n), Mute(u)
    PROVE  Sound(Joined(t, u), S, n) /\ Sound(Joined(u, t), S, n)
  <1>1. Mute(<<[sep |-> TRUE]>>)
    BY OneIsMute
  <1>2. Sound((t \o <<[sep |-> TRUE]>>) \o u, S, n)
    BY <1>1, SoundThenMute
  <1>3. Sound((u \o <<[sep |-> TRUE]>>) \o t, S, n)
    BY <1>1, MuteConcat, MuteThenSound
  <1> QED
    BY <1>2, <1>3, SoundThenMute, MuteThenSound DEF Joined

\* What such a text shows, counted: each activity once, and with the number of
\* the others all of S.
ShownIn(t) == {line.act : line \in {l \in Range(t) : Has(l, "act")}}

LEMMA SoundIsCounted ==
    ASSUME NEW t, NEW S, NEW n, Sound(t, S, n)
    PROVE  /\ Cardinality({i \in DOMAIN t : Has(t[i], "act")}) = Cardinality(ShownIn(t))
           /\ \A line \in {l \in Range(t) : Has(l, "more")} : line.more = n /\ ShownIn(t) = S
  <1>1. Len(t) \in Nat /\ DOMAIN t = 1..Len(t)
    BY LenProperties DEF Sound
  <1> DEFINE at == {i \in DOMAIN t : Has(t[i], "act")}
  <1> DEFINE f == [i \in at |-> t[i].act]
  <1>2. ShownIn(t) = {f[i] : i \in at}
    BY DEF ShownIn, Range
  <1>3. IsFiniteSet(at)
    <2>1. IsFiniteSet(1..Len(t)) /\ at \subseteq 1..Len(t)
      BY <1>1, IntervalSize
    <2> QED
      BY <2>1, FS_Subset
  <1>4. f \in Surjection(at, ShownIn(t))
    BY <1>2 DEF Surjection
  <1>5. f \in Injection(at, ShownIn(t))
    BY <1>1, <1>2 DEF Injection, IsInjective, Sound
  <1>6. Cardinality(at) = Cardinality(ShownIn(t))
    BY <1>3, <1>4, <1>5, FS_Surjection
  <1>7. ASSUME NEW i \in DOMAIN t, Has(t[i], "more")
        PROVE  t[i].more = n /\ ShownIn(t) = S
    <2>1. t[i].more = n /\ \A a \in S : \E k \in 1..(i - 1) : Has(t[k], "act") /\ t[k].act = a
      BY <1>1, <1>7 DEF Sound
    <2>2. \A k \in 1..(i - 1) : k \in DOMAIN t
      BY <1>1
    <2>3. S \subseteq ShownIn(t)
      BY <2>1, <2>2 DEF ShownIn, Range
    <2>4. ShownIn(t) \subseteq S
      BY <1>1 DEF ShownIn, Range, Sound
    <2> QED
      BY <2>1, <2>3, <2>4
  <1> QED
    BY <1>6, <1>7 DEF Range

--------------------------------------------------------------------------------
\* What the hook has found: rows of its activities, one of each ...
FoundInv(found) ==
    /\ IsFiniteSet(found)
    /\ \A f \in found : f.id \in Acts
    /\ \A f, g \in found : f.id = g.id => f = g

\* ... among them, of those nothing happened to, what it has read of what is
\* to be listed, and nothing else.
Reading ==
    /\ FoundInv(hook.found)
    /\ \A a \in steady :
          /\ a \in Ids(hook.found) => Listed(a)
          /\ Active(acts[a]) /\ ~acts[a].managed =>
                \A d \in acts[a].domains : d \in hook.todo \/ a \in Ids(hook.found)
Built ==
    /\ FoundInv(hook.found)
    /\ \A a \in steady : a \in Ids(hook.found) <=> Listed(a)

ContextInv ==
    /\ acts = [a \in Acts |-> acts[a]] /\ steady \subseteq Acts
    /\ hook = Idle \/ context = <<>>
    /\ \/ hook = Idle
       \/ hook = [pc |-> "acts", found |-> hook.found, todo |-> hook.todo] /\ Reading
       \/ hook = [pc |-> "build", found |-> hook.found, pinned |-> hook.pinned] /\ Built
    /\ ContextIsHonest

LEMMA AddingFacts ==
    ASSUME BudgetAssumption, NEW found, FoundInv(found), NEW new \in SUBSET Acts
    PROVE  FoundInv(Adding(found, new)) /\ Ids(Adding(found, new)) = Ids(found) \union new
  <1> DEFINE add == {[id |-> a, row |-> acts[a]] : a \in new \ Ids(found)}
  <1>1. Adding(found, new) = found \union add
    BY DEF Adding
  <1>2. IsFiniteSet(add)
    <2> DEFINE f == [a \in new \ Ids(found) |-> [id |-> a, row |-> acts[a]]]
    <2>1. IsFiniteSet(new \ Ids(found))
      BY FS_Subset DEF BudgetAssumption
    <2>2. f \in Surjection(new \ Ids(found), add)
      BY DEF Surjection
    <2> QED
      BY <2>1, <2>2, FS_Surjection
  <1>3. \A f \in add : f.id \in new \ Ids(found) /\ f = [id |-> f.id, row |-> acts[f.id]]
    OBVIOUS
  <1>4. ASSUME NEW a \in new \ Ids(found)
        PROVE  \E f \in add : f.id = a
    <2>1. [id |-> a, row |-> acts[a]] \in add
      BY <1>4
    <2>2. [id |-> a, row |-> acts[a]].id = a
      OBVIOUS
    <2> QED
      BY <2>1, <2>2
  <1> HIDE DEF add
  <1>5. IsFiniteSet(found \union add)
    BY <1>2, FS_Union DEF FoundInv
  <1>6. \A f, g \in found \union add : f.id = g.id => f = g
    BY <1>3 DEF FoundInv, Ids
  <1>7. Ids(found \union add) = Ids(found) \union new
    <2>1. Ids(found \union add) \subseteq Ids(found) \union new
      BY <1>3 DEF Ids
    <2>2. Ids(found) \union new \subseteq Ids(found \union add)
      BY <1>4 DEF Ids
    <2> QED
      BY <2>1, <2>2
  <1> QED
    BY <1>1, <1>3, <1>5, <1>6, <1>7 DEF FoundInv

\* An empty context tells nothing.
LEMMA EmptyIsHonest == BudgetAssumption /\ context = <<>> => ContextIsHonest
  <1> SUFFICES ASSUME BudgetAssumption, context = <<>>
               PROVE  ContextIsHonest
    OBVIOUS
  <1>1. Sound(context, {}, 0)
    BY EmptyIsMute, MuteIsSound
  <1>2. Cardinality({i \in DOMAIN context : Has(context[i], "act")}) = Cardinality(Shown)
    BY <1>1, SoundIsCounted DEF Shown, ShownIn
  <1>3. Range(context) = {}
    BY EmptySeq DEF Range
  <1>4. Len(context) <= TOTAL_BUDGET
    BY DEF BudgetAssumption
  <1> QED
    BY <1>2, <1>3, <1>4 DEF ContextIsHonest

--------------------------------------------------------------------------------
\* The list shows activities that were found, each at most once, and counts the
\* others.
LEMMA ListIsSound ==
    ASSUME BudgetAssumption, FoundInv(hook.found),
           NEW tier1 \in SetToSeqs(Tier1), NEW pool \in SetToSeqs(Tier2Pool)
    PROVE  \E S \in SUBSET Ids(hook.found) :
              Sound(List(tier1, pool), S, Cardinality(Ids(hook.found) \ S))
  <1>1. Tier1 \subseteq hook.found /\ Tier2Pool \subseteq hook.found /\ Tier1 \intersect Tier2Pool = {}
    BY DEF Tier1, Tier2Pool
  <1>2. IsFiniteSet(Tier1) /\ IsFiniteSet(Tier2Pool)
    BY <1>1, FS_Subset DEF FoundInv
  <1>3. Cardinality(Tier1) \in Nat /\ Cardinality(Tier2Pool) \in Nat
    BY <1>2, FS_CardinalityType
  <1>4. /\ tier1 \in Seq(hook.found) /\ Len(tier1) = Cardinality(Tier1)
        /\ \A i \in 1..Len(tier1) : tier1[i] \in Tier1
        /\ \A i, j \in 1..Len(tier1) : tier1[i] = tier1[j] => i = j
    <2>1. tier1 \in [1..Cardinality(Tier1) -> Tier1]
      BY DEF SetToSeqs
    <2>2. tier1 \in [1..Cardinality(Tier1) -> hook.found]
      BY <1>1, <2>1
    <2>3. tier1 \in Seq(hook.found)
      BY <1>3, <2>2, SeqDef
    <2>4. Len(tier1) = Cardinality(Tier1)
      BY <1>3, <2>1, <2>3, LenProperties
    <2> QED
      BY <2>1, <2>3, <2>4 DEF SetToSeqs
  <1>5. /\ pool \in Seq(hook.found) /\ Len(pool) = Cardinality(Tier2Pool)
        /\ \A i \in 1..Len(pool) : pool[i] \in Tier2Pool
        /\ \A i, j \in 1..Len(pool) : pool[i] = pool[j] => i = j
    <2>1. pool \in [1..Cardinality(Tier2Pool) -> Tier2Pool]
      BY DEF SetToSeqs
    <2>2. pool \in [1..Cardinality(Tier2Pool) -> hook.found]
      BY <1>1, <2>1
    <2>3. pool \in Seq(hook.found)
      BY <1>3, <2>2, SeqDef
    <2>4. Len(pool) = Cardinality(Tier2Pool)
      BY <1>3, <2>1, <2>3, LenProperties
    <2> QED
      BY <2>1, <2>3, <2>4 DEF SetToSeqs
  <1> DEFINE tier2 == Taken(pool)
  <1>6. /\ tier2 \in Seq(hook.found) /\ Len(tier2) \in Nat
        /\ \A i \in 1..Len(tier2) : tier2[i] \in Tier2Pool
        /\ \A i, j \in 1..Len(tier2) : tier2[i] = tier2[j] => i = j
    <2>1. CASE Len(pool) <= TIER2_MAX_ITEMS
      BY <1>3, <1>5, <2>1 DEF Taken
    <2>2. CASE ~(Len(pool) <= TIER2_MAX_ITEMS)
      <3>1. tier2 = SubSeq(pool, 1, TIER2_MAX_ITEMS)
        BY <2>2 DEF Taken
      <3>2. TIER2_MAX_ITEMS \in Nat /\ Len(pool) \in Nat
        BY <1>3, <1>5 DEF BudgetAssumption
      <3>3. \A i \in 1..TIER2_MAX_ITEMS : i \in 1..Len(pool) /\ pool[i] \in hook.found
        BY <1>1, <1>5, <2>2, <3>2
      <3>4. /\ tier2 \in Seq(hook.found) /\ Len(tier2) = TIER2_MAX_ITEMS
            /\ \A i \in 1..TIER2_MAX_ITEMS : tier2[i] = pool[i]
        <4>1. pool \in Seq(hook.found) /\ TIER2_MAX_ITEMS \in 0..Len(pool)
          BY <1>5, <2>2, <3>2
        <4> HIDE DEF tier2
        <4> QED
          BY <3>1, <4>1, PrefixFacts
      <3> HIDE DEF tier2
      <3> QED
        BY <1>5, <3>2, <3>3, <3>4
    <2> QED
      BY <2>1, <2>2
  <1> HIDE DEF tier2
  <1> DEFINE tiers == tier1 \o tier2
  <1>7. /\ tiers \in Seq(hook.found) /\ Len(tiers) \in Nat /\ Len(tiers) = Len(tier1) + Len(tier2)
        /\ \A i \in 1..Len(tiers) : tiers[i] = IF i <= Len(tier1) THEN tier1[i] ELSE tier2[i - Len(tier1)]
    <2>1. /\ tiers \in Seq(hook.found) /\ Len(tiers) = Len(tier1) + Len(tier2)
          /\ \A i \in 1..(Len(tier1) + Len(tier2)) :
                tiers[i] = IF i <= Len(tier1) THEN tier1[i] ELSE tier2[i - Len(tier1)]
      <3>1. tier1 \in Seq(hook.found) /\ tier2 \in Seq(hook.found)
        BY <1>4, <1>6
      <3> QED
        BY <3>1, ConcatProperties
    <2> HIDE DEF tiers
    <2> QED
      BY <1>3, <1>4, <1>6, <2>1
  <1> HIDE DEF tiers
  <1>8. \A i \in 1..Len(tiers) : tiers[i] \in hook.found
    BY <1>7, ElementOfSeq
  <1>9. ASSUME NEW i \in 1..Len(tiers), NEW j \in 1..Len(tiers), tiers[i].id = tiers[j].id
        PROVE  i = j
    <2>1. tiers[i] = tiers[j]
      BY <1>8, <1>9 DEF FoundInv
    <2>2. Len(tier1) \in Nat
      BY <1>3, <1>4
    <2>3. \A k \in 1..Len(tiers) : /\ k <= Len(tier1) => k \in 1..Len(tier1)
                                   /\ ~(k <= Len(tier1)) => k - Len(tier1) \in 1..Len(tier2)
      BY <1>6, <1>7, <2>2
    <2>4. CASE i <= Len(tier1) /\ j <= Len(tier1)
      BY <1>4, <1>7, <2>1, <2>3, <2>4
    <2>5. CASE ~(i <= Len(tier1)) /\ ~(j <= Len(tier1))
      <3>1. i - Len(tier1) = j - Len(tier1)
        BY <1>6, <1>7, <2>1, <2>3, <2>5
      <3> QED
        BY <2>2, <3>1
    <2>6. ~(i <= Len(tier1) /\ ~(j <= Len(tier1))) /\ ~(j <= Len(tier1) /\ ~(i <= Len(tier1)))
      BY <1>1, <1>4, <1>6, <1>7, <2>1, <2>3
    <2> QED
      BY <2>4, <2>5, <2>6
  <1> DEFINE shown == Lines(tiers)
  <1>10. /\ shown \in Seq(AnyLine) /\ Len(shown) = Len(tiers)
         /\ \A i \in 1..Len(tiers) : shown[i] = [act |-> tiers[i].id] /\ tiers[i].id \in Acts
    <2>1. DOMAIN tiers = 1..Len(tiers)
      BY <1>7, LenProperties
    <2>2. \A i \in 1..Len(tiers) : tiers[i].id \in Acts
      BY <1>8 DEF FoundInv
    <2>3. shown \in [1..Len(tiers) -> AnyLine]
      BY <2>1, <2>2, LineFacts DEF Lines
    <2>4. shown \in Seq(AnyLine)
      BY <1>7, <2>3, SeqDef
    <2>5. Len(shown) = Len(tiers)
      BY <1>7, <2>3, <2>4, LenProperties
    <2> QED
      BY <2>1, <2>2, <2>4, <2>5 DEF Lines
  <1> HIDE DEF shown
  <1> DEFINE S == {line.act : line \in Range(shown)}
  <1>11. DOMAIN shown = 1..Len(tiers)
    BY <1>10, LenProperties
  <1>12. S = {tiers[i].id : i \in 1..Len(tiers)}
    BY <1>10, <1>11 DEF Range
  <1>13. S \subseteq Ids(hook.found)
    BY <1>8, <1>12 DEF Ids
  <1> HIDE DEF S
  <1> DEFINE n == Cardinality(Ids(hook.found) \ S)
  <1>14. n \in Nat
    <2>1. Ids(hook.found) \subseteq Acts
      BY DEF Ids, FoundInv
    <2>2. IsFiniteSet(Ids(hook.found) \ S)
      BY <2>1, FS_Subset DEF BudgetAssumption
    <2> QED
      BY <2>2, FS_CardinalityType
  <1>15. List(tier1, pool) = shown \o <<[more |-> n]>>
    BY DEF List, shown, S, tiers, tier2
  <1> HIDE DEF n
  <1> DEFINE list == shown \o <<[more |-> n]>>
  <1>16. /\ list \in Seq(AnyLine) /\ Len(list) = Len(tiers) + 1
         /\ \A i \in 1..Len(tiers) : list[i] = shown[i]
         /\ list[Len(tiers) + 1] = [more |-> n]
    <2>1. <<[more |-> n]>> \in Seq(AnyLine) /\ Len(<<[more |-> n]>>) = 1 /\ <<[more |-> n]>>[1] = [more |-> n]
      BY <1>14, LineFacts
    <2>2. /\ list \in Seq(AnyLine) /\ Len(list) = Len(shown) + Len(<<[more |-> n]>>)
          /\ \A i \in 1..(Len(shown) + Len(<<[more |-> n]>>)) :
                list[i] = IF i <= Len(shown) THEN shown[i] ELSE <<[more |-> n]>>[i - Len(shown)]
      BY <1>10, <2>1, ConcatProperties
    <2> HIDE DEF list
    <2>3. Len(tiers) + 1 \in 1..(Len(shown) + Len(<<[more |-> n]>>)) /\ Len(tiers) + 1 - Len(shown) = 1
      BY <1>7, <1>10, <2>1
    <2>4. list[Len(tiers) + 1] = [more |-> n]
      BY <1>7, <1>10, <2>1, <2>2, <2>3
    <2> QED
      BY <1>7, <1>10, <2>1, <2>2, <2>4
  <1> HIDE DEF list
  <1>17. \A i \in 1..Len(list) : i \in 1..Len(tiers) \/ i = Len(tiers) + 1
    BY <1>7, <1>16
  <1>18. \A i \in 1..Len(tiers) : /\ Has(list[i], "act") /\ ~Has(list[i], "more")
                                  /\ list[i].act = tiers[i].id
    <2> SUFFICES ASSUME NEW i \in 1..Len(tiers)
                 PROVE  Has(list[i], "act") /\ ~Has(list[i], "more") /\ list[i].act = tiers[i].id
      OBVIOUS
    <2>1. list[i] = [act |-> tiers[i].id] /\ tiers[i].id \in Acts
      BY <1>10, <1>16
    <2> QED
      BY <2>1, LineFacts
  <1>19. /\ Has(list[Len(tiers) + 1], "more") /\ ~Has(list[Len(tiers) + 1], "act")
         /\ list[Len(tiers) + 1].more = n
    BY <1>14, <1>16, LineFacts
  <1>20. \A a \in S : \E k \in 1..Len(tiers) : Has(list[k], "act") /\ list[k].act = a
    BY <1>12, <1>18
  <1>21. \A i \in 1..Len(list) : Has(list[i], "act") => i \in 1..Len(tiers)
    BY <1>17, <1>19
  <1>22. \A i \in 1..Len(list) : Has(list[i], "more") => i = Len(tiers) + 1 /\ i - 1 = Len(tiers)
    BY <1>7, <1>17, <1>18
  <1>23. \A i, j \in 1..Len(list) : Has(list[i], "act") /\ Has(list[j], "act") /\ list[i].act = list[j].act => i = j
    BY <1>9, <1>18, <1>21
  <1>24. \A i \in 1..Len(list) : Has(list[i], "act") => list[i].act \in S
    BY <1>12, <1>18, <1>21
  <1>25. Sound(list, S, n)
    BY <1>16, <1>19, <1>20, <1>22, <1>23, <1>24 DEF Sound
  <1> QED
    BY <1>13, <1>15, <1>25 DEF list, n

LEMMA ComposeSteps ==
    ASSUME BudgetAssumption, ContextInv, Compose
    PROVE  ContextInv'
  <1> USE DEF BudgetAssumption
  <1>1. hook.pc = "build" /\ hook' = Idle /\ acts' = acts /\ steady' = steady
    BY DEF Compose
  <1>2. Built /\ acts = [a \in Acts |-> acts[a]] /\ steady \subseteq Acts
    BY <1>1 DEF ContextInv, Idle
  <1>3. PICK tier1 \in SetToSeqs(Tier1), pool \in SetToSeqs(Tier2Pool) :
           \E b \in 0..(Before + 1), a \in 0..(After + 1), failed \in BOOLEAN :
              context' = Fitted(Joined(Joined(Fitted(Section(b), Before),
                                              IF failed THEN <<>> ELSE Fitted(List(tier1, pool), Budget)),
                                       Fitted(Section(a), After)),
                                TOTAL_BUDGET)
    BY DEF Compose
  <1>4. PICK b \in 0..(Before + 1), a \in 0..(After + 1), failed \in BOOLEAN :
           context' = Fitted(Joined(Joined(Fitted(Section(b), Before),
                                           IF failed THEN <<>> ELSE Fitted(List(tier1, pool), Budget)),
                                    Fitted(Section(a), After)),
                             TOTAL_BUDGET)
    BY <1>3
  <1>5. PICK S \in SUBSET Ids(hook.found) :
           Sound(List(tier1, pool), S, Cardinality(Ids(hook.found) \ S))
    BY <1>2, ListIsSound DEF Built
  <1>6. PICK n : n = Cardinality(Ids(hook.found) \ S)
    OBVIOUS
  <1> DEFINE list == IF failed THEN <<>> ELSE Fitted(List(tier1, pool), Budget)
  <1>7. Sound(list, S, n)
    <2>1. Sound(Fitted(List(tier1, pool), Budget), S, n)
      BY <1>5, <1>6, FittedIsSound
    <2> QED
      BY <2>1, EmptyIsMute, MuteIsSound
  <1>8. Mute(Fitted(Section(b), Before)) /\ Mute(Fitted(Section(a), After))
    <2>1. b \in Nat /\ a \in Nat
      OBVIOUS
    <2> QED
      BY <2>1, FittedIsMute
  <1>9. PICK text : text = Joined(Joined(Fitted(Section(b), Before), list), Fitted(Section(a), After))
    OBVIOUS
  <1>10. Sound(text, S, n)
    BY <1>7, <1>8, <1>9, JoinedIsSound
  <1>11. context' = Fitted(text, TOTAL_BUDGET)
    BY <1>4, <1>9
  <1> HIDE DEF list
  <1>12. Sound(context', S, n) /\ Len(context') <= TOTAL_BUDGET
    BY <1>10, <1>11, FittedIsSound
  <1>13. Shown' = ShownIn(context')
    BY DEF Shown, ShownIn, Has
  <1>14. /\ Cardinality({i \in DOMAIN context' : Has(context'[i], "act")}) = Cardinality(Shown')
         /\ \A line \in {l \in Range(context') : Has(l, "more")} : line.more = n /\ Shown' = S
    BY <1>12, <1>13, SoundIsCounted
  <1>15. \A x : Listed(x)' <=> Listed(x)
    BY <1>1 DEF Listed, Active
  <1>16. IsFiniteSet(Ids(hook.found)) /\ Ids(hook.found) \subseteq Acts
    <2>1. Ids(hook.found) \subseteq Acts
      BY <1>2 DEF Built, FoundInv, Ids
    <2> QED
      BY <2>1, FS_Subset
  <1>17. ASSUME Shown' = S
         PROVE  /\ Cardinality({x \in steady' \ Shown' : Listed(x)'}) <= n
                /\ steady' = Acts => Cardinality({x \in Acts : Listed(x)'}) = Cardinality(Shown') + n
    <2>1. {x \in steady' \ Shown' : Listed(x)'} \subseteq Ids(hook.found) \ S
      BY <1>1, <1>2, <1>15, <1>17 DEF Built
    <2>2. IsFiniteSet(Ids(hook.found) \ S)
      BY <1>16, FS_Difference
    <2>3. Cardinality({x \in steady' \ Shown' : Listed(x)'}) <= n
      BY <1>6, <2>1, <2>2, FS_Subset
    <2>4. ASSUME steady' = Acts
          PROVE  Cardinality({x \in Acts : Listed(x)'}) = Cardinality(Shown') + n
      <3>1. {x \in Acts : Listed(x)'} = Ids(hook.found)
        BY <1>1, <1>2, <1>15, <1>16, <2>4 DEF Built
      <3>2. Ids(hook.found) \intersect S = S
        BY <1>5
      <3>3. n = Cardinality(Ids(hook.found)) - Cardinality(S)
        BY <1>6, <1>16, <3>2, FS_Difference
      <3>4. IsFiniteSet(S)
        BY <1>5, <1>16, FS_Subset
      <3>5. Cardinality(Ids(hook.found)) \in Nat /\ Cardinality(S) \in Nat
        BY <1>16, <3>4, FS_CardinalityType
      <3>6. Cardinality({x \in Acts : Listed(x)'}) = Cardinality(Ids(hook.found))
        BY <3>1
      <3>7. Cardinality(Shown') = Cardinality(S)
        BY <1>17
      <3> QED
        BY <3>3, <3>5, <3>6, <3>7
    <2> QED
      BY <2>3, <2>4
  <1>18. ContextIsHonest'
    BY <1>12, <1>14, <1>17 DEF ContextIsHonest, Has
  <1> QED
    BY <1>1, <1>2, <1>18 DEF ContextInv

\* The steps before leave the context empty.
LEMMA ContextSteps ==
    ASSUME BudgetAssumption, ContextInv, [StartNext]_startVars
    PROVE  ContextInv'
  <1>1. CASE UNCHANGED startVars
    BY <1>1 DEF ContextInv, startVars, Idle, Reading, Built, FoundInv, Ids, Listed, Active,
               ContextIsHonest, Shown, Has
  <1>2. CASE Compose
    BY <1>2, ComposeSteps
  <1>3. CASE ChangeActivity \/ ReadDomains \/ ReadActs \/ ReadPinned
    <2>1. context = <<>> /\ context' = context
      <3>1. hook # Idle \/ context = <<>>
        <4>1. hook = Idle => hook.pc # "acts"
          BY DEF Idle
        <4> QED
          BY <1>3, <4>1 DEF ChangeActivity, ReadDomains, ReadActs, ReadPinned
      <3>2. context' = context
        BY <1>3 DEF ChangeActivity, ReadDomains, ReadActs, ReadPinned
      <3> QED
        BY <3>1, <3>2 DEF ContextInv
    <2>2. ContextIsHonest'
      <3>1. (BudgetAssumption /\ context = <<>>)'
        BY <2>1 DEF BudgetAssumption
      <3> QED
        BY <3>1, EmptyIsHonest, PTL
    <2>3. CASE ChangeActivity
      <3>1. PICK a \in Acts, r \in Rows : acts' = [acts EXCEPT ![a] = r] /\ steady' = steady \ {a}
        BY <2>3 DEF ChangeActivity
      <3>2. hook # Idle /\ hook' = hook
        BY <2>3 DEF ChangeActivity
      <3>3. acts' = [x \in Acts |-> acts'[x]] /\ steady' \subseteq Acts
        BY <3>1 DEF ContextInv
      <3>4. \A x \in steady' : x \in steady /\ acts'[x] = acts[x]
        BY <3>1 DEF ContextInv
      <3>5. \A x \in steady' : Listed(x)' <=> Listed(x)
        BY <3>4 DEF Listed, Active
      <3>6. Reading => Reading'
        BY <3>2, <3>4, <3>5 DEF Reading, FoundInv, Ids, Active
      <3>7. Built => Built'
        BY <3>2, <3>4, <3>5 DEF Built, FoundInv, Ids
      <3> QED
        BY <2>1, <2>2, <3>2, <3>3, <3>6, <3>7 DEF ContextInv
    <2>4. CASE ReadDomains
      <3>1. /\ hook' = [pc |-> "acts", found |-> {},
                        todo |-> UNION {acts[a].domains : a \in {b \in Acts : Active(acts[b])}}]
            /\ steady' = Acts /\ acts' = acts
        BY <2>4 DEF ReadDomains
      <3>2. FoundInv(hook'.found) /\ Ids(hook'.found) = {}
        BY <3>1, FS_EmptySet DEF FoundInv, Ids
      <3>3. \A a \in Acts : Active(acts[a]) => \A d \in acts[a].domains : d \in hook'.todo
        BY <3>1
      <3>4. Reading'
        BY <3>1, <3>2, <3>3 DEF Reading, FoundInv, Ids, Active
      <3>5. hook' = [pc |-> "acts", found |-> hook'.found, todo |-> hook'.todo]
        BY <3>1
      <3> QED
        BY <2>1, <2>2, <3>1, <3>4, <3>5 DEF ContextInv
    <2>5. CASE ReadActs
      <3>1. /\ hook.pc = "acts" /\ acts' = acts /\ steady' = steady
            /\ \E d \in hook.todo :
                  hook' = [hook EXCEPT !.todo = @ \ {d},
                             !.found = Adding(@, {a \in Acts : d \in acts[a].domains /\ Active(acts[a])
                                                               /\ ~acts[a].managed})]
        BY <2>5 DEF ReadActs
      <3>2. hook = [pc |-> "acts", found |-> hook.found, todo |-> hook.todo] /\ Reading
        BY <3>1 DEF ContextInv, Idle
      <3>3. PICK d \in hook.todo :
               hook' = [hook EXCEPT !.todo = @ \ {d},
                          !.found = Adding(@, {a \in Acts : d \in acts[a].domains /\ Active(acts[a])
                                                            /\ ~acts[a].managed})]
        BY <3>1
      <3>4. PICK new \in SUBSET Acts :
               new = {a \in Acts : d \in acts[a].domains /\ Active(acts[a]) /\ ~acts[a].managed}
        OBVIOUS
      <3>5. /\ hook' = [pc |-> "acts", found |-> hook'.found, todo |-> hook'.todo]
            /\ hook'.found = Adding(hook.found, new) /\ hook'.todo = hook.todo \ {d}
        <4>1. PICK f, t : hook = [pc |-> "acts", found |-> f, todo |-> t]
          BY <3>2
        <4>2. hook' = [hook EXCEPT !.todo = @ \ {d}, !.found = Adding(@, new)]
          BY <3>3, <3>4
        <4>3. hook' = [pc |-> "acts", found |-> Adding(f, new), todo |-> t \ {d}]
          BY <4>1, <4>2
        <4> QED
          BY <4>1, <4>3
      <3>6. FoundInv(hook'.found) /\ Ids(hook'.found) = Ids(hook.found) \union new
        BY <3>2, <3>5, AddingFacts DEF Reading
      <3>7. \A a : Listed(a)' <=> Listed(a)
        BY <3>1 DEF Listed, Active
      <3>8. \A a \in new : Listed(a)
        BY <3>4 DEF Listed
      <3>9. \A a \in steady : a \in Ids(hook'.found) => Listed(a)
        BY <3>2, <3>6, <3>8 DEF Reading
      <3>10. \A a \in steady : Active(acts[a]) /\ ~acts[a].managed =>
                \A e \in acts[a].domains : e \in hook'.todo \/ a \in Ids(hook'.found)
        BY <3>2, <3>4, <3>5, <3>6 DEF Reading, ContextInv
      <3>11. Reading'
        BY <3>1, <3>6, <3>7, <3>9, <3>10 DEF Reading, FoundInv, Ids, Active
      <3> QED
        BY <2>1, <2>2, <3>1, <3>5, <3>11 DEF ContextInv
    <2>6. CASE ReadPinned
      <3>1. PICK pinned \in SUBSET Acts :
               /\ pinned = {a \in Acts : acts[a].pinned /\ Active(acts[a]) /\ ~acts[a].managed}
               /\ hook' = [pc |-> "build", found |-> Adding(hook.found, pinned), pinned |-> pinned]
        BY <2>6 DEF ReadPinned
      <3>2. hook.pc = "acts" /\ hook.todo = {} /\ acts' = acts /\ steady' = steady
        BY <2>6 DEF ReadPinned
      <3>3. Reading
        BY <3>2 DEF ContextInv, Idle
      <3>4. /\ hook' = [pc |-> "build", found |-> hook'.found, pinned |-> hook'.pinned]
            /\ hook'.found = Adding(hook.found, pinned)
        BY <3>1
      <3>5. FoundInv(hook'.found) /\ Ids(hook'.found) = Ids(hook.found) \union pinned
        BY <3>3, <3>4, AddingFacts DEF Reading
      <3>6. \A a : Listed(a)' <=> Listed(a)
        BY <3>2 DEF Listed, Active
      <3>7. \A a \in steady : a \in Ids(hook'.found) <=> Listed(a)
        <4>1. \A a \in steady : a \in Ids(hook.found) => Listed(a)
          BY <3>3 DEF Reading
        <4>2. \A a \in pinned : Listed(a)
          BY <3>1 DEF Listed
        <4>3. \A a \in steady : Listed(a) => a \in Ids(hook.found) \/ a \in pinned
          BY <3>1, <3>2, <3>3 DEF Reading, Listed, ContextInv
        <4> QED
          BY <3>5, <4>1, <4>2, <4>3
      <3>8. Built'
        BY <3>2, <3>5, <3>6, <3>7 DEF Built, FoundInv, Ids
      <3> QED
        BY <2>1, <2>2, <3>2, <3>4, <3>8 DEF ContextInv
    <2> QED
      BY <1>3, <2>3, <2>4, <2>5, <2>6
  <1> QED
    BY <1>1, <1>2, <1>3 DEF StartNext

\* What a session is told when it starts keeps to its budget, shows no activity
\* twice and leaves none out silently that nothing happened to.
THEOREM ContextAlwaysHonest ==
    ASSUME BudgetAssumption
    PROVE  StartSpec => []ContextIsHonest
  <1>1. StartInit => ContextInv
    <2> SUFFICES ASSUME StartInit
                 PROVE  ContextInv
      OBVIOUS
    <2>1. ContextIsHonest
      BY EmptyIsHonest DEF StartInit
    <2> QED
      BY <2>1 DEF StartInit, ContextInv
  <1>2. ContextInv /\ [StartNext]_startVars => ContextInv'
    BY ContextSteps
  <1>3. ContextInv => ContextIsHonest
    BY DEF ContextInv
  <1> QED
    BY <1>1, <1>2, <1>3, PTL DEF StartSpec

--------------------------------------------------------------------------------
\* The habits.

Row == [size : Sizes, always : BOOLEAN, active : BOOLEAN, archived : BOOLEAN, cold : BOOLEAN]
Tables == [Habits -> {None} \cup Row]

\* What a row weighs in the pool, and the characters of a table.
Weight(row) == IF InPool(row) THEN row.size ELSE 0
Pool(rows) == UNION {Chars(h, rows[h]) : h \in Habits}

LEMMA RowFacts ==
    ASSUME HabitsAssumption, NEW row \in {None} \cup Row
    PROVE  /\ row # None => row \in Row
           /\ row \in Row => row # None /\ row.size \in Nat \ {0}
           /\ row.size \in Nat
           /\ InPool(row) => row \in Row
           /\ Weight(row) \in Nat
<1>1. \A r \in Row : r.size \in Nat \ {0}
  BY DEF HabitsAssumption, Row
<1>2. None.size = 0
  BY DEF None
<1>3. row \in Row => row # None
  BY <1>1, <1>2
<1>4. row # None => row \in Row
  OBVIOUS
<1>5. row.size \in Nat
  BY <1>1, <1>2
<1> QED
  BY <1>1, <1>3, <1>4, <1>5 DEF InPool, Weight

LEMMA CharsFacts ==
    ASSUME HabitsAssumption, NEW h, NEW row \in {None} \cup Row
    PROVE  IsFiniteSet(Chars(h, row)) /\ Cardinality(Chars(h, row)) = Weight(row)
<1>1. CASE InPool(row)
  <2>1. row.size \in Nat
    BY RowFacts
  <2>2. IsFiniteSet({h}) /\ Cardinality({h}) = 1
    BY FS_Singleton
  <2>3. IsFiniteSet(1 .. row.size) /\ Cardinality(1 .. row.size) = row.size
    BY <2>1, FS_Interval
  <2>4. IsFiniteSet({h} \X (1 .. row.size)) /\ Cardinality({h} \X (1 .. row.size)) = 1 * row.size
    BY <2>2, <2>3, FS_Product
  <2>5. 1 * row.size = row.size
    BY <2>1
  <2> QED BY <1>1, <2>4, <2>5 DEF Chars, Weight
<1>2. CASE ~InPool(row)
  BY <1>2, FS_EmptySet DEF Chars, Weight
<1> QED BY <1>1, <1>2

LEMMA PoolFacts ==
    ASSUME HabitsAssumption, NEW rows \in Tables
    PROVE  IsFiniteSet(Pool(rows)) /\ Total(rows) = Cardinality(Pool(rows)) /\ Total(rows) \in Nat
<1> DEFINE parts == {Chars(h, rows[h]) : h \in Habits}
           f == [h \in Habits |-> Chars(h, rows[h])]
<1>1. f \in Surjection(Habits, parts)
  BY DEF Surjection
<1>2. IsFiniteSet(parts)
  <2> HIDE DEF parts, f
  <2> QED BY <1>1, FS_Surjection DEF HabitsAssumption
<1>3. \A part \in parts : IsFiniteSet(part)
  <2> SUFFICES ASSUME NEW h \in Habits PROVE IsFiniteSet(Chars(h, rows[h]))
    OBVIOUS
  <2>1. rows[h] \in {None} \cup Row
    BY DEF Tables
  <2> QED BY <2>1, CharsFacts
<1>4. IsFiniteSet(UNION parts)
  <2> HIDE DEF parts
  <2> QED BY <1>2, <1>3, FS_UNION
<1>5. IsFiniteSet(Pool(rows)) /\ Total(rows) = Cardinality(Pool(rows))
  BY <1>4 DEF Pool, Total
<1> QED
  BY <1>5, FS_CardinalityType

\* A call changes the total by what its one row weighs.
LEMMA TotalChanges ==
    ASSUME HabitsAssumption, NEW rows \in Tables, NEW id \in Habits, NEW row \in {None} \cup Row
    PROVE  \E rest \in Nat : /\ Total(rows) = rest + Weight(rows[id])
                             /\ Total([rows EXCEPT ![id] = row]) = rest + Weight(row)
<1> DEFINE new == [rows EXCEPT ![id] = row]
           others == UNION {Chars(h, rows[h]) : h \in Habits \ {id}}
<1>1. /\ new \in Tables /\ new[id] = row
      /\ \A h \in Habits \ {id} : new[h] = rows[h]
  BY DEF Tables
<1>2. rows[id] \in {None} \cup Row
  BY DEF Tables
<1>3. Pool(rows) = others \cup Chars(id, rows[id])
  BY DEF Pool
<1>4. Pool(new) = others \cup Chars(id, row)
  <2> HIDE DEF new
  <2> QED BY <1>1 DEF Pool
<1>5. \A r \in {None} \cup Row : others \cap Chars(id, r) = {}
  <2>1. \A x \in others : x[1] # id
    BY DEF Chars
  <2>2. \A r : \A x \in Chars(id, r) : x[1] = id
    BY DEF Chars
  <2> QED BY <2>1, <2>2
<1>6. IsFiniteSet(others)
  BY <1>3, PoolFacts, FS_Subset
<1> HIDE DEF others, new
<1>7. Cardinality(others) \in Nat
  BY <1>6, FS_CardinalityType
<1>8. \A r \in {None} \cup Row :
        Cardinality(others \cup Chars(id, r)) = Cardinality(others) + Weight(r)
  <2> TAKE r \in {None} \cup Row
  <2>1. IsFiniteSet(Chars(id, r)) /\ Cardinality(Chars(id, r)) = Weight(r)
    BY CharsFacts
  <2>2. Weight(r) \in Nat
    BY RowFacts
  <2>3. Cardinality(others \cup Chars(id, r)) = Cardinality(others) + Weight(r) - Cardinality(others \cap Chars(id, r))
    BY <1>6, <2>1, FS_Union
  <2>4. Cardinality(others \cap Chars(id, r)) = 0
    BY <1>5, FS_EmptySet
  <2> QED BY <1>7, <2>2, <2>3, <2>4
<1>9. Total(rows) = Cardinality(others) + Weight(rows[id])
  BY <1>2, <1>3, <1>8, PoolFacts
<1>10. Total(new) = Cardinality(others) + Weight(row)
  BY <1>1, <1>4, <1>8, PoolFacts
<1> QED BY <1>7, <1>9, <1>10 DEF new

--------------------------------------------------------------------------------
LEMMA GivenFacts ==
    ASSUME NEW change, NEW old, NEW values, change \in Given(values), old \in values
    PROVE  New(change, old) \in values
BY DEF Given, New

LEMMA UpdatedFacts ==
    ASSUME NEW c \in Changes, NEW row \in Row
    PROVE  /\ Updated(row, c) \in Row
           /\ c.size = {} => Updated(row, c).size = row.size
           /\ c.always = {} => Updated(row, c).always = row.always
           /\ c.active = {} => Updated(row, c).active = row.active
<1>1. /\ c.size \in Given(Sizes) /\ c.always \in Given(BOOLEAN)
      /\ c.active \in Given(BOOLEAN) /\ c.archived \in Given(BOOLEAN)
  BY DEF Changes
<1>2. /\ row.size \in Sizes /\ row.always \in BOOLEAN /\ row.active \in BOOLEAN
      /\ row.archived \in BOOLEAN /\ row.cold \in BOOLEAN
  BY DEF Row
<1>3. /\ New(c.size, row.size) \in Sizes /\ New(c.always, row.always) \in BOOLEAN
      /\ New(c.active, row.active) \in BOOLEAN /\ New(c.archived, row.archived) \in BOOLEAN
  <2>1. New(c.size, row.size) \in Sizes
    BY <1>1, <1>2, GivenFacts
  <2>2. New(c.always, row.always) \in BOOLEAN
    BY <1>1, <1>2, GivenFacts
  <2>3. New(c.active, row.active) \in BOOLEAN
    BY <1>1, <1>2, GivenFacts
  <2>4. New(c.archived, row.archived) \in BOOLEAN
    BY <1>1, <1>2, GivenFacts
  <2> QED BY <2>1, <2>2, <2>3, <2>4
<1>5. Updated(row, c) \in Row
  BY <1>2, <1>3 DEF Updated, Row
<1> QED
  BY <1>5 DEF Updated, New

--------------------------------------------------------------------------------
\* What a session start has loaded is still in the file, unless somebody has
\* edited or deleted that.
Loaded(body) == rules.body = body \/ rules.body = Edited \/ rules = NoRules

RowsInv == habits \in Tables /\ alone \in BOOLEAN

CallsInv ==
    /\ doing = [p \in Callers \cup Starters |-> doing[p]]
    /\ \A p \in Callers \cup Starters : doing[p].pc \in {"gate", "write"} =>
          /\ doing[p].habit \in Habits /\ Exists(doing[p].habit)
          /\ doing[p].change \in Changes

\* Whoever is alone finds everything as it was when the call began.
QuietInv ==
    alone =>
      /\ \A p, q \in Callers \cup Starters : doing[p] = NoCall \/ doing[q] = NoCall \/ p = q
      /\ \A p \in Callers \cup Starters :
            /\ doing[p].pc = "gate" => doing[p].row = habits[doing[p].habit]
            /\ doing[p].pc = "write" => Gate(habits[doing[p].habit], doing[p].change)
            /\ doing[p].pc \in {"verify", "heal"} => Loaded(doing[p].loaded)
            /\ doing[p].pc = "heal" => doing[p].body = Body

HabitInv == RowsInv /\ CallsInv /\ QuietInv

LEMMA HabitsInitial ==
    ASSUME HabitsAssumption, HabitsInit
    PROVE  HabitInv
<1>1. habits \in Tables /\ alone \in BOOLEAN
  BY DEF HabitsInit, Tables, Row
<1>2. doing = [p \in Callers \cup Starters |-> NoCall]
  BY DEF HabitsInit
<1>3. NoCall.pc = "none"
  BY DEF NoCall
<1> QED
  BY <1>1, <1>2, <1>3 DEF HabitInv, RowsInv, CallsInv, QuietInv

\* A step in which one process goes on, from p's call to c.
LEMMA DoesFacts ==
    ASSUME CallsInv, NEW p \in Callers \cup Starters, NEW c, Does(p, c)
    PROVE  /\ doing' = [q \in Callers \cup Starters |-> doing'[q]]
           /\ doing'[p] = c /\ \A q \in (Callers \cup Starters) \ {p} : doing'[q] = doing[q]
           /\ \A q \in Callers \cup Starters : q # p \/ doing'[q] = c
BY DEF CallsInv, Does

\* While nobody is at it, every call is void.
LEMMA InTurnFacts ==
    ASSUME HabitInv, InTurn, alone
    PROVE  \A p \in Callers \cup Starters : doing[p] = NoCall
BY DEF HabitInv, CallsInv, InTurn

LEMMA NoCallFacts ==
    NoCall.pc = "none"
BY DEF NoCall

\* Beside the one that begins when all is quiet, or that goes on, nobody is at it.
LEMMA OthersIdle ==
    ASSUME HabitInv, alone, NEW p \in Callers \cup Starters, InTurn \/ doing[p] # NoCall
    PROVE  \A q \in (Callers \cup Starters) \ {p} : doing[q] = NoCall
<1>1. CASE InTurn
  BY <1>1, InTurnFacts
<1>2. CASE doing[p] # NoCall
  BY <1>2 DEF HabitInv, QuietInv
<1> QED BY <1>1, <1>2

\* A process begins a call or goes on with it, to c.
LEMMA CallGoes ==
    ASSUME HabitInv, NEW p \in Callers \cup Starters, NEW c, Does(p, c), InTurn \/ doing[p] # NoCall,
           habits' \in Tables, \A h \in Habits : Exists(h) => Exists(h)', Fixed,
           c.pc \in {"gate", "write"} =>
               c.habit \in Habits /\ Exists(c.habit)' /\ c.change \in Changes,
           alone => /\ c.pc = "gate" => c.row = habits'[c.habit]
                    /\ c.pc = "write" => Gate(habits[c.habit], c.change)'
                    /\ c.pc \in {"verify", "heal"} => Loaded(c.loaded)'
                    /\ c.pc = "heal" => c.body = Body'
    PROVE  HabitInv'
<1>1. /\ doing' = [q \in Callers \cup Starters |-> doing'[q]]
      /\ doing'[p] = c /\ \A q \in (Callers \cup Starters) \ {p} : doing'[q] = doing[q]
  BY DoesFacts DEF HabitInv
<1>2. RowsInv'
  BY DEF RowsInv, HabitInv, Fixed
<1>3. CallsInv'
  <2>1. \A q \in Callers \cup Starters : doing[q].pc \in {"gate", "write"} =>
          doing[q].habit \in Habits /\ Exists(doing[q].habit) /\ doing[q].change \in Changes
    BY DEF HabitInv, CallsInv
  <2>2. ASSUME NEW q \in Callers \cup Starters, doing'[q].pc \in {"gate", "write"}
        PROVE  /\ doing'[q].habit \in Habits /\ habits'[doing'[q].habit] # None
               /\ doing'[q].change \in Changes
    <3>1. CASE q = p
      BY <1>1, <2>2, <3>1 DEF Exists
    <3>2. CASE q # p
      BY <1>1, <2>1, <2>2, <3>2 DEF Exists
    <3> QED BY <3>1, <3>2
  <2> QED BY <1>1, <2>2 DEF CallsInv, Exists
<1>4. QuietInv'
  <2> SUFFICES ASSUME alone' PROVE QuietInv'
    BY DEF QuietInv
  <2>1. alone
    BY DEF Fixed
  <2>2. \A q \in (Callers \cup Starters) \ {p} : doing'[q] = NoCall
    BY <1>1, <2>1, OthersIdle
  <2> QED BY <1>1, <2>1, <2>2, NoCallFacts DEF QuietInv
<1> QED BY <1>2, <1>3, <1>4 DEF HabitInv

LEMMA SameTable ==
    ASSUME HabitInv, UNCHANGED habits
    PROVE  /\ habits' \in Tables /\ \A h \in Habits : Exists(h) => Exists(h)'
           /\ Body' = Body
           /\ \A row, c : Gate(row, c)' = Gate(row, c)
BY DEF HabitInv, RowsInv, Exists, Body, Titles, Manifest, Gate

LEMMA StaysEqual ==
    ASSUME HabitsAssumption, NEW rows \in Tables, NEW total, total = Total(rows)
    PROVE  total <= Larger(Total(rows), Capacity) /\ total <= Larger(Total(rows), Ceiling)
BY PoolFacts DEF Larger, HabitsAssumption

\* Whoever is not a session start about to end leaves StartsAreTrue alone.
LEMMA NotHealed ==
    ASSUME HabitInv, \/ \E p \in Callers \cup Starters : \E c : Does(p, c) /\ doing[p].pc # "heal"
                     \/ doing' = doing
    PROVE  StartsAreTrue
<1> SUFFICES ASSUME NEW s \in Starters, doing[s].pc = "heal", doing'[s] = NoCall
             PROVE  FALSE
  BY DEF StartsAreTrue
<1>1. doing[s] # NoCall
  BY NoCallFacts
<1>2. CASE doing' = doing
  BY <1>1, <1>2
<1>3. ASSUME NEW p \in Callers \cup Starters, NEW c, Does(p, c), doing[p].pc # "heal" PROVE FALSE
  BY <1>1, <1>3, DoesFacts DEF HabitInv
<1> QED BY <1>2, <1>3

--------------------------------------------------------------------------------
LEMMA AddHabitStep ==
    ASSUME HabitsAssumption, HabitInv, NEW p \in Callers, AddHabit(p)
    PROVE  HabitInv' /\ Total(habits') = Total(habits) /\ GateHolds
<1>1. PICK h \in Habits, n \in Sizes, archived \in BOOLEAN :
        /\ ~Exists(h)
        /\ habits' = [habits EXCEPT ![h] = [size |-> n, always |-> FALSE, active |-> TRUE,
                                            archived |-> archived, cold |-> FALSE]]
  BY DEF AddHabit
<1> DEFINE row == [size |-> n, always |-> FALSE, active |-> TRUE, archived |-> archived, cold |-> FALSE]
<1>2. row \in Row /\ ~InPool(row)
  BY DEF Row, InPool
<1>3. habits \in Tables
  BY DEF HabitInv, RowsInv
<1> HIDE DEF row
<1>4. row # None
  BY <1>2, RowFacts
<1>5. habits' = [habits EXCEPT ![h] = row]
  BY <1>1 DEF row
<1>6. habits' \in Tables /\ \A k \in Habits : Exists(k) => Exists(k)'
  BY <1>2, <1>3, <1>4, <1>5 DEF Tables, Exists
<1>7. HabitInv'
  <2>1. Does(p, Export) /\ InTurn /\ Fixed /\ Export.pc = "export"
    BY DEF AddHabit, Export
  <2> QED BY <1>6, <2>1, CallGoes
<1>8. Total(habits') = Total(habits)
  <2>1. Weight(row) = 0 /\ Weight(habits[h]) = 0
    BY <1>1, <1>2 DEF Weight, InPool, Exists
  <2>2. \E rest \in Nat : Total(habits) = rest + Weight(habits[h]) /\ Total(habits') = rest + Weight(row)
    BY <1>2, <1>3, <1>5, TotalChanges
  <2> QED BY <2>1, <2>2
<1>9. GateHolds
  <2>1. \A k \in Habits : habits'[k] = habits[k] \/ ~habits'[k].always
    BY <1>3, <1>5 DEF Tables, row
  <2> QED BY <1>3, <1>8, <2>1, StaysEqual DEF GateHolds
<1> QED BY <1>7, <1>8, <1>9

\* The two steps that only warm or cool a row.
LEMMA ColdStep ==
    ASSUME HabitsAssumption, HabitInv, NEW h \in Habits, Exists(h), NEW b \in BOOLEAN,
           habits' = [habits EXCEPT ![h].cold = b], InTurn, UNCHANGED <<rules, doing>>, Fixed
    PROVE  HabitInv' /\ Total(habits') = Total(habits) /\ GateHolds
<1> DEFINE row == [habits[h] EXCEPT !.cold = b]
<1>1. habits \in Tables /\ habits[h] \in Row
  BY RowFacts DEF HabitInv, RowsInv, Exists, Tables
<1>2. row \in Row /\ row.size = habits[h].size /\ row.always = habits[h].always /\ row.active = habits[h].active
  <2> SUFFICES ASSUME NEW r \in Row
               PROVE  LET s == [r EXCEPT !.cold = b]
                      IN  s \in Row /\ s.size = r.size /\ s.always = r.always /\ s.active = r.active
    BY <1>1
  <2> QED BY DEF Row
<1>3. habits' = [habits EXCEPT ![h] = row]
  BY <1>1 DEF Tables
<1> HIDE DEF row
<1>4. row # None /\ Weight(row) = Weight(habits[h])
  BY <1>1, <1>2, RowFacts DEF Weight, InPool
<1>5. habits' \in Tables /\ \A k \in Habits : Exists(k) => Exists(k)'
  BY <1>1, <1>2, <1>3, <1>4 DEF Tables, Exists
<1>6. Total(habits') = Total(habits)
  <2>1. \E rest \in Nat : /\ Total(habits) = rest + Weight(habits[h])
                          /\ Total([habits EXCEPT ![h] = row]) = rest + Weight(row)
    BY <1>1, <1>2, TotalChanges
  <2> QED BY <1>3, <1>4, <2>1
<1>7. HabitInv'
  <2>1. RowsInv' /\ CallsInv'
    BY <1>5 DEF HabitInv, RowsInv, CallsInv, Fixed
  <2>2. QuietInv'
    <3> SUFFICES ASSUME alone' PROVE QuietInv'
      BY DEF QuietInv
    <3>1. \A p \in Callers \cup Starters : doing'[p] = NoCall
      BY InTurnFacts DEF Fixed
    <3> QED BY <3>1, NoCallFacts DEF QuietInv
  <2> QED BY <2>1, <2>2 DEF HabitInv
<1>8. \A k \in Habits : /\ habits'[k].size = habits[k].size
                        /\ habits[k] # None => habits'[k].always = habits[k].always
                        /\ habits[k] = None => habits'[k] = None
  BY <1>1, <1>2, <1>3 DEF Tables, Exists
<1>9. GateHolds
  <2>1. \A k \in Habits : habits'[k].size >= MaxContent => habits[k] # None
    BY <1>8 DEF None, HabitsAssumption
  <2> QED BY <1>1, <1>6, <1>8, <2>1, StaysEqual DEF GateHolds
<1> QED BY <1>6, <1>7, <1>9

LEMMA UpdateReadStep ==
    ASSUME HabitInv, NEW p \in Callers, UpdateRead(p)
    PROVE  HabitInv' /\ habits' = habits
<1>1. PICK h \in Habits, c \in Changes :
        Exists(h) /\ Does(p, [pc |-> "gate", habit |-> h, row |-> habits[h], change |-> c])
  BY DEF UpdateRead
<1>2. InTurn /\ Fixed /\ habits' = habits
  BY DEF UpdateRead
<1>3. PICK d : d = [pc |-> "gate", habit |-> h, row |-> habits[h], change |-> c]
  OBVIOUS
<1>4. d.pc = "gate" /\ d.habit = h /\ d.row = habits[h] /\ d.change = c
  BY <1>3
<1>5. Does(p, d)
  BY <1>1, <1>3
<1> QED
  BY <1>1, <1>2, <1>4, <1>5, SameTable, CallGoes

LEMMA UpdateGateStep ==
    ASSUME HabitInv, NEW p \in Callers, UpdateGate(p)
    PROVE  HabitInv' /\ habits' = habits
<1>1. doing[p].pc = "gate" /\ habits' = habits /\ Fixed
  BY DEF UpdateGate
<1>2. doing[p] # NoCall
  BY <1>1, NoCallFacts
<1>3. /\ doing[p].habit \in Habits /\ Exists(doing[p].habit) /\ doing[p].change \in Changes
      /\ alone => doing[p].row = habits[doing[p].habit]
  BY <1>1 DEF HabitInv, CallsInv, QuietInv
<1>4. PICK d : d = [pc |-> "write", habit |-> doing[p].habit, change |-> doing[p].change]
  OBVIOUS
<1> d.pc = "write" /\ d.habit = doing[p].habit /\ d.change = doing[p].change
  BY <1>4
<1>5. \/ Gate(doing[p].row, doing[p].change) /\ Does(p, d)
      \/ Does(p, NoCall)
  BY <1>4 DEF UpdateGate
<1>6. CASE Does(p, NoCall)
  BY <1>1, <1>2, <1>6, NoCallFacts, SameTable, CallGoes
<1>7. CASE Gate(doing[p].row, doing[p].change) /\ Does(p, d)
  <2>1. alone => Gate(habits[d.habit], d.change)'
    BY <1>1, <1>3, <1>4, <1>7, SameTable
  <2> QED BY <1>1, <1>2, <1>3, <1>4, <1>7, <2>1, SameTable, CallGoes
<1> QED BY <1>1, <1>5, <1>6, <1>7

\* What the trigger and, for whoever is alone, the gate leave to a write.
LEMMA UpdateWriteStep ==
    ASSUME HabitsAssumption, HabitInv, NEW p \in Callers, UpdateWrite(p)
    PROVE  /\ HabitInv' /\ Total(habits') <= Larger(Total(habits), Ceiling)
           /\ alone => GateHolds
<1>1. doing[p].pc = "write" /\ Fixed /\ UNCHANGED rules
  BY DEF UpdateWrite
<1>2. doing[p] # NoCall
  BY <1>1, NoCallFacts
<1> DEFINE id == doing[p].habit
           c == doing[p].change
           row == Updated(habits[id], c)
           new == [habits EXCEPT ![id] = row]
<1>3. /\ id \in Habits /\ habits[id] # None /\ c \in Changes /\ habits \in Tables
      /\ alone => Gate(habits[id], c)
  BY <1>1 DEF HabitInv, CallsInv, QuietInv, RowsInv, Exists
<1>4. \/ Ratchet(new, c) /\ habits' = new /\ Does(p, Export)
      \/ Does(p, NoCall) /\ habits' = habits
  BY DEF UpdateWrite
<1>5. habits[id] \in Row /\ Total(habits) \in Nat
  BY <1>3, RowFacts, PoolFacts DEF Tables
<1>6. /\ row \in Row
      /\ c.size = {} => row.size = habits[id].size
      /\ c.always = {} => row.always = habits[id].always
      /\ c.active = {} => row.active = habits[id].active
  BY <1>3, <1>5, UpdatedFacts
<1> HIDE DEF row, id, c, new
<1>7. row # None /\ row.size \in Nat
  BY <1>6, RowFacts
<1>8. CASE Does(p, NoCall) /\ habits' = habits
  <2>1. HabitInv'
    BY <1>1, <1>2, <1>8, NoCallFacts, SameTable, CallGoes
  <2>2. GateHolds
    BY <1>5, <1>8 DEF GateHolds, Larger, HabitsAssumption
  <2>3. Total(habits') <= Larger(Total(habits), Ceiling)
    BY <1>5, <1>8 DEF Larger, HabitsAssumption
  <2> QED BY <2>1, <2>2, <2>3
<1>9. CASE Ratchet(new, c) /\ habits' = new /\ Does(p, Export)
  <2>1. habits' \in Tables /\ \A k \in Habits : Exists(k) => Exists(k)'
    BY <1>3, <1>6, <1>7, <1>9 DEF Tables, Exists, new
  <2>2. HabitInv'
    <3>1. Export.pc = "export"
      BY DEF Export
    <3> QED BY <1>1, <1>2, <1>9, <2>1, <3>1, CallGoes
  <2>3. PICK rest \in Nat : Total(habits) = rest + Weight(habits[id]) /\ Total(habits') = rest + Weight(row)
    BY <1>3, <1>6, <1>9, TotalChanges DEF new
  <2>4. Total(habits') <= Larger(Total(habits), Ceiling)
    <3>1. CASE c.size # {} \/ c.active # {} \/ c.always # {}
      BY <1>9, <3>1 DEF Ratchet
    <3>2. CASE c.size = {} /\ c.active = {} /\ c.always = {}
      <4>1. Weight(row) = Weight(habits[id])
        BY <1>3, <1>6, <1>7, <3>2 DEF Weight, InPool
      <4> QED BY <1>5, <2>3, <4>1 DEF Larger, HabitsAssumption
    <3> QED BY <3>1, <3>2
  <2>5. ASSUME alone PROVE GateHolds
    <3>1. /\ row.always => ((c.size # {} \/ c.always # {}) => row.size < MaxContent)
          /\ row.always /\ row.active =>
                Total(habits) - Weight(habits[id]) + row.size <= Larger(Total(habits), Capacity)
      BY <1>3, <2>5 DEF Gate, Weight, row
    <3>2. Total(habits') <= Larger(Total(habits), Capacity)
      <4>1. Weight(habits[id]) \in Nat
        BY <1>5, RowFacts
      <4>2. CASE InPool(row)
        BY <1>5, <1>7, <2>3, <3>1, <4>1, <4>2 DEF InPool, Weight
      <4>3. CASE ~InPool(row)
        <5>1. Total(habits') <= Total(habits)
          BY <2>3, <4>1, <4>3 DEF Weight
        <5>2. Total(habits') \in Nat
          BY <2>1, PoolFacts
        <5> QED BY <1>5, <5>1, <5>2 DEF Larger, HabitsAssumption
      <4> QED BY <4>2, <4>3
    <3>3. ASSUME NEW h \in Habits, habits'[h].size >= MaxContent, habits'[h].always
          PROVE  habits[h].size = habits'[h].size /\ habits[h].always
      <4>1. CASE h # id
        BY <1>3, <1>9, <3>3, <4>1 DEF new, Tables
      <4>2. CASE h = id
        <5>1. habits'[h] = row
          BY <1>3, <1>9, <4>2 DEF new, Tables
        <5>2. c.size = {} /\ c.always = {}
          BY <1>7, <3>1, <3>3, <5>1 DEF HabitsAssumption
        <5> QED BY <1>6, <3>3, <4>2, <5>1, <5>2
      <4> QED BY <4>1, <4>2
    <3> QED BY <3>2, <3>3 DEF GateHolds
  <2> QED BY <2>2, <2>4, <2>5
<1> QED BY <1>4, <1>8, <1>9

LEMMA ExportReadStep ==
    ASSUME HabitInv, NEW p \in Callers, ExportRead(p)
    PROVE  HabitInv' /\ habits' = habits
<1>1. PICK body : Does(p, [pc |-> "project", body |-> body])
  BY DEF ExportRead
<1>2. doing[p].pc = "export" /\ habits' = habits /\ Fixed
  BY DEF ExportRead
<1>3. doing[p] # NoCall
  BY <1>2, NoCallFacts
<1>4. PICK c : c = [pc |-> "project", body |-> body]
  OBVIOUS
<1>5. c.pc = "project" /\ Does(p, c)
  BY <1>1, <1>4
<1> QED BY <1>2, <1>3, <1>5, SameTable, CallGoes

LEMMA ExportWriteStep ==
    ASSUME HabitInv, NEW p \in Callers, ExportWrite(p)
    PROVE  HabitInv' /\ habits' = habits
<1>1. doing[p].pc = "project" /\ habits' = habits /\ Fixed /\ Does(p, NoCall)
  BY DEF ExportWrite
<1>2. doing[p] # NoCall
  BY <1>1, NoCallFacts
<1> QED BY <1>1, <1>2, NoCallFacts, SameTable, CallGoes

LEMMA LoadStep ==
    ASSUME HabitInv, NEW s \in Starters, Load(s)
    PROVE  HabitInv' /\ habits' = habits
<1>1. PICK c : c = [pc |-> "verify", loaded |-> rules.body]
  OBVIOUS
<1>2. c.pc = "verify" /\ c.loaded = rules.body
  BY <1>1
<1>3. Does(s, c) /\ InTurn /\ habits' = habits /\ rules' = rules /\ Fixed
  BY <1>1 DEF Load
<1>4. Loaded(c.loaded)'
  BY <1>2, <1>3 DEF Loaded
<1> QED BY <1>2, <1>3, <1>4, SameTable, CallGoes

LEMMA VerifyReadStep ==
    ASSUME HabitInv, NEW s \in Starters, VerifyRead(s)
    PROVE  HabitInv' /\ habits' = habits
<1>1. PICK c : c = [pc |-> "heal", loaded |-> doing[s].loaded, body |-> Body]
  OBVIOUS
<1>2. c.pc = "heal" /\ c.loaded = doing[s].loaded /\ c.body = Body
  BY <1>1
<1>3. doing[s].pc = "verify" /\ Does(s, c) /\ habits' = habits /\ rules' = rules /\ Fixed
  BY <1>1 DEF VerifyRead
<1>4. doing[s] # NoCall
  BY <1>3, NoCallFacts
<1>5. alone => Loaded(c.loaded)'
  BY <1>2, <1>3 DEF HabitInv, QuietInv, Loaded
<1>6. c.body = Body'
  BY <1>2, <1>3, SameTable
<1> QED BY <1>2, <1>3, <1>4, <1>5, <1>6, SameTable, CallGoes

\* The projection is never the text of an edit.
LEMMA BodyFacts ==
    ASSUME HabitsAssumption
    PROVE  Body # Edited /\ Placeholder # Edited
<1>1. IsFiniteSet(Manifest \ Titles)
  <2>1. Manifest \ Titles \in SUBSET Habits
    BY DEF Manifest, Titles
  <2> QED BY <2>1, FS_Subset DEF HabitsAssumption
<1>2. Cardinality(Manifest \ Titles) \in Nat
  BY <1>1, FS_CardinalityType
<1>3. Body.more = Cardinality(Manifest \ Titles)
  BY DEF Body
<1>4. Edited.more = -2 /\ Placeholder.more = -1
  BY DEF Edited, Placeholder
<1> QED BY <1>2, <1>3, <1>4

ToldInv ==
    /\ told = [s \in Starters |-> told[s]]
    /\ rules = [f \in {"body", "meta"} |-> rules[f]]

LEMMA VerifyHealStep ==
    ASSUME HabitsAssumption, HabitInv, ToldInv, NEW s \in Starters, VerifyHeal(s)
    PROVE  HabitInv' /\ habits' = habits /\ (alone => StartsAreTrue)
<1>1. doing[s].pc = "heal" /\ habits' = habits /\ Fixed /\ Does(s, NoCall)
  BY DEF VerifyHeal
<1>2. doing[s] # NoCall
  BY <1>1, NoCallFacts
<1>3. HabitInv'
  BY <1>1, <1>2, NoCallFacts, SameTable, CallGoes
<1>4. ASSUME alone PROVE StartsAreTrue
  <2>1. doing[s].body = Body /\ Loaded(doing[s].loaded)
    BY <1>1, <1>4 DEF HabitInv, QuietInv
  <2>2. \A q \in Starters \ {s} : doing[q] = NoCall
    BY <1>2, <1>4, OthersIdle
  <2>3. PICK failed, compact \in BOOLEAN :
          /\ IF exporting /\ ~Fresh(Body) THEN WriteRules(Body, TRUE, failed) ELSE UNCHANGED rules
          /\ told' = [told EXCEPT ![s] =
               CASE compact \/ ~exporting \/ rules = NoRules -> "all"
                 [] Fresh(Body) -> "nothing"
                 [] OTHER -> IF failed THEN "all" ELSE "notice"]
    BY <2>1 DEF VerifyHeal
  <2>4. told'[s] = CASE compact \/ ~exporting \/ rules = NoRules -> "all"
                     [] Fresh(Body) -> "nothing"
                     [] OTHER -> IF failed THEN "all" ELSE "notice"
    BY <2>3 DEF ToldInv
  <2>5. Body' = Body
    BY <1>1, SameTable
  <2>6. ASSUME exporting, told'[s] = "nothing" PROVE doing[s].loaded = Body /\ rules'.body = Body
    <3>1. Fresh(Body)
      BY <2>4, <2>6 DEF Fresh
    <3>2. rules' = rules
      BY <2>3, <3>1
    <3> QED BY <2>1, <3>1, <3>2, BodyFacts DEF Fresh, Loaded
  <2>7. ASSUME exporting, told'[s] = "notice" PROVE Fresh(Body)'
    <3>1. ~Fresh(Body) /\ ~failed
      BY <2>4, <2>7 DEF Fresh
    <3>2. rules' = File(Body)
      BY <2>3, <2>7, <3>1 DEF WriteRules
    <3>3. rules'.body = Body /\ rules'.meta = Body
      BY <3>2 DEF File
    <3>4. NoRules.body = Placeholder /\ NoRules.meta = Edited
      BY DEF NoRules
    <3> QED BY <2>5, <3>3, <3>4, BodyFacts DEF Fresh
  <2> QED BY <2>2, <2>6, <2>7, NoCallFacts DEF StartsAreTrue
<1> QED BY <1>1, <1>3, <1>4

\* An edit of the file, at any time.
LEMMA TamperStep ==
    ASSUME HabitInv, ToldInv, Tamper
    PROVE  HabitInv' /\ habits' = habits
<1>1. /\ \/ rules # NoRules /\ rules' = [rules EXCEPT !.body = Edited]
         \/ rules' = NoRules
      /\ UNCHANGED <<habits, doing>> /\ Fixed
  BY DEF Tamper
<1>2. RowsInv' /\ CallsInv'
  BY <1>1 DEF HabitInv, RowsInv, CallsInv, Fixed, Exists
<1>3. QuietInv'
  <2>1. Body' = Body /\ \A row, c : Gate(row, c)' = Gate(row, c)
    BY <1>1, SameTable
  <2>2. \A body : Loaded(body) => Loaded(body)'
    <3>1. CASE rules' = [rules EXCEPT !.body = Edited]
      <4>1. rules'.body = Edited
        BY <3>1 DEF ToldInv
      <4> QED BY <4>1 DEF Loaded
    <3>2. CASE rules' = NoRules
      BY <3>2 DEF Loaded
    <3> QED BY <1>1, <3>1, <3>2
  <2> QED BY <1>1, <2>1, <2>2 DEF HabitInv, QuietInv, Fixed
<1> QED BY <1>1, <1>2, <1>3 DEF HabitInv

LEMMA ToldStep ==
    ASSUME ToldInv, [HabitsNext]_habitVars
    PROVE  ToldInv'
<1>1. \A b, force, failed : WriteRules(b, force, failed) =>
        rules' = [f \in {"body", "meta"} |-> rules'[f]]
  BY DEF WriteRules, File, ToldInv
<1>2. CASE told' = told /\ rules' = rules
  BY <1>2 DEF ToldInv
<1>3. CASE Tamper
  BY <1>3 DEF Tamper, NoRules, ToldInv
<1>4. ASSUME NEW p \in Callers, ExportWrite(p) PROVE ToldInv'
  BY <1>1, <1>4 DEF ExportWrite, ToldInv
<1>5. ASSUME NEW s \in Starters, Load(s) PROVE ToldInv'
  BY <1>5 DEF Load, ToldInv
<1>6. ASSUME NEW s \in Starters, VerifyHeal(s) PROVE ToldInv'
  <2>1. rules' = [f \in {"body", "meta"} |-> rules'[f]]
    BY <1>1, <1>6 DEF VerifyHeal, ToldInv
  <2>2. \E v : told' = [told EXCEPT ![s] = v]
    BY <1>6 DEF VerifyHeal
  <2> QED BY <2>1, <2>2 DEF ToldInv
<1> QED
  BY <1>2, <1>3, <1>4, <1>5, <1>6
     DEF HabitsNext, Call, AddHabit, GetHabit, UpdateRead, UpdateGate, UpdateWrite, ExportRead,
         VerifyRead, Fade, habitVars

\* Each step keeps the invariant and what the properties say of it.
LEMMA HabitsStep ==
    ASSUME HabitsAssumption, HabitInv, ToldInv, [HabitsNext]_habitVars
    PROVE  HabitInv' /\ PoolIsRatcheted /\ (alone => GateHolds /\ StartsAreTrue)
<1>1. habits \in Tables
  BY DEF HabitInv, RowsInv
<1>2. ASSUME habits' = habits PROVE PoolIsRatcheted /\ GateHolds
  BY <1>1, <1>2, StaysEqual DEF PoolIsRatcheted, GateHolds
<1>3. ASSUME Total(habits') = Total(habits) PROVE PoolIsRatcheted
  BY <1>1, <1>3, StaysEqual DEF PoolIsRatcheted
<1>4. CASE UNCHANGED habitVars
  <2>1. HabitInv'
    <3>1. UNCHANGED <<habits, rules, doing, alone>>
      BY <1>4 DEF habitVars
    <3>2. Body' = Body /\ \A row, c : Gate(row, c)' = Gate(row, c)
      BY <3>1, SameTable
    <3>3. RowsInv' /\ CallsInv'
      BY <3>1 DEF HabitInv, RowsInv, CallsInv, Exists
    <3>4. QuietInv'
      BY <3>1, <3>2 DEF HabitInv, QuietInv, Loaded
    <3> QED BY <3>3, <3>4 DEF HabitInv
  <2> QED BY <1>2, <1>4, <2>1, NotHealed DEF habitVars
<1>5. ASSUME NEW p \in Callers, AddHabit(p)
      PROVE  HabitInv' /\ PoolIsRatcheted /\ GateHolds /\ StartsAreTrue
  <2>1. Does(p, Export) /\ doing[p].pc # "heal"
    BY <1>5, NoCallFacts DEF AddHabit
  <2> QED BY <1>3, <1>5, <2>1, AddHabitStep, NotHealed
<1>6. ASSUME \E h \in Habits, b \in BOOLEAN : Exists(h) /\ habits' = [habits EXCEPT ![h].cold = b],
             InTurn, UNCHANGED <<rules, doing>>, Fixed
      PROVE  HabitInv' /\ PoolIsRatcheted /\ GateHolds /\ StartsAreTrue
  BY <1>3, <1>6, ColdStep, NotHealed
<1>7. ASSUME NEW p \in Callers, UpdateRead(p)
      PROVE  HabitInv' /\ PoolIsRatcheted /\ GateHolds /\ StartsAreTrue
  <2>1. doing[p].pc # "heal" /\ \E c : Does(p, c)
    BY <1>7, NoCallFacts DEF UpdateRead
  <2> QED BY <1>2, <1>7, <2>1, UpdateReadStep, NotHealed
<1>8. ASSUME NEW p \in Callers, UpdateGate(p)
      PROVE  HabitInv' /\ PoolIsRatcheted /\ GateHolds /\ StartsAreTrue
  <2>1. doing[p].pc # "heal" /\ \E c : Does(p, c)
    BY <1>8 DEF UpdateGate
  <2> QED BY <1>2, <1>8, <2>1, UpdateGateStep, NotHealed
<1>9. ASSUME NEW p \in Callers, UpdateWrite(p)
      PROVE  HabitInv' /\ PoolIsRatcheted /\ (alone => GateHolds) /\ StartsAreTrue
  <2>1. doing[p].pc # "heal" /\ \E c : Does(p, c)
    BY <1>9 DEF UpdateWrite
  <2> QED BY <1>9, <2>1, UpdateWriteStep, NotHealed DEF PoolIsRatcheted
<1>10. ASSUME NEW p \in Callers, ExportRead(p) \/ ExportWrite(p)
      PROVE  HabitInv' /\ PoolIsRatcheted /\ GateHolds /\ StartsAreTrue
  <2>1. doing[p].pc # "heal" /\ \E c : Does(p, c)
    BY <1>10 DEF ExportRead, ExportWrite
  <2> QED BY <1>2, <1>10, <2>1, ExportReadStep, ExportWriteStep, NotHealed
<1>11. ASSUME NEW s \in Starters, Load(s) \/ VerifyRead(s)
      PROVE  HabitInv' /\ PoolIsRatcheted /\ GateHolds /\ StartsAreTrue
  <2>1. doing[s].pc # "heal" /\ \E c : Does(s, c)
    BY <1>11, NoCallFacts DEF Load, VerifyRead
  <2> QED BY <1>2, <1>11, <2>1, LoadStep, VerifyReadStep, NotHealed
<1>12. ASSUME NEW s \in Starters, VerifyHeal(s)
      PROVE  HabitInv' /\ PoolIsRatcheted /\ GateHolds /\ (alone => StartsAreTrue)
  BY <1>2, <1>12, VerifyHealStep
<1>13. CASE Tamper
  <2>1. doing' = doing
    BY <1>13 DEF Tamper
  <2> QED BY <1>2, <1>13, <2>1, TamperStep, NotHealed
<1>14. ASSUME NEW p \in Callers, GetHabit(p)
      PROVE  HabitInv' /\ PoolIsRatcheted /\ GateHolds /\ StartsAreTrue
  BY <1>6, <1>14 DEF GetHabit
<1>15. CASE Fade
  BY <1>6, <1>15 DEF Fade
<1> QED
  BY <1>4, <1>5, <1>7, <1>8, <1>9, <1>10, <1>11, <1>12, <1>13, <1>14, <1>15 DEF HabitsNext, Call

\* For any habits, lengths, limits and processes: the pool outgrows the ceiling of
\* migration 0065 in no order of calls; one call at a time, it does not outgrow its
\* capacity, no long content enters it, and a session start that is told nothing
\* has loaded the table's projection (habit_service.py, update_habit;
\* session_start_hook.py, _build_habits_section).
THEOREM HabitsAlwaysKept ==
    ASSUME HabitsAssumption
    PROVE  HabitsSpec => HabitsAreKept
<1>1. HabitsInit => HabitInv /\ ToldInv
  <2>1. HabitsInit => ToldInv
    BY DEF HabitsInit, ToldInv, NoRules
  <2> QED BY <2>1, HabitsInitial
<1>2. HabitInv /\ ToldInv /\ [HabitsNext]_habitVars => HabitInv' /\ ToldInv'
  BY HabitsStep, ToldStep
<1>3. HabitInv /\ ToldInv /\ [HabitsNext]_habitVars =>
        [PoolIsRatcheted /\ (alone => GateHolds /\ StartsAreTrue)]_habitVars
  BY HabitsStep
<1> QED
  BY <1>1, <1>2, <1>3, PTL DEF HabitsSpec, HabitsAreKept
================================================================================
