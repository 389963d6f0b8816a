----------------------------- MODULE Snapshots -----------------------------
(***************************************************************************)
(* Snapshots of the database: the session-start hook that takes one when   *)
(* the last is old enough and the database looks healthy, the rotation of  *)
(* the periodic snapshots with promotion of one a day, and the restore     *)
(* that first sets the current database aside.  Every process works on the *)
(* same directories without a lock; one file operation is one step.        *)
(*                                                                         *)
(* A snapshot is named after the moment it was begun, so names are numbers *)
(* given out in order.  The contents of a database are abstracted to its   *)
(* number of rows, which is what the health check compares.                *)
(***************************************************************************)
EXTENDS Naturals, FiniteSets

CONSTANTS Hooks,      \* sessions starting: each runs the snapshot section
          Restorers,  \* runs of the restore command
          Quota,      \* KIND_QUOTAS of the three directories modelled
          Threshold,  \* SNAPSHOT_ANOMALY_THRESHOLD
          Overlap,    \* what may happen meanwhile: subset of {"restore", "loss"}
          MaxName,    \* bound: snapshots begun
          MaxRows,    \* bound: rows
          MaxNow,     \* bound: snapshot intervals that pass
          MaxFaults   \* bound: processes that die or copies that fail

ASSUME SnapshotsAssumption ==
  /\ Hooks \cap Restorers = {}
  /\ Quota \in [{"periodic", "daily", "prerestore"} -> Nat \ {0}]
  /\ Quota["prerestore"] > 1
  /\ Threshold \in Nat \ {0}
  /\ Overlap \subseteq {"restore", "loss"}
  /\ {MaxName, MaxRows, MaxNow, MaxFaults} \subseteq Nat

VARIABLES db,       \* rows of the database
          serving,  \* a server that writes to it is running
          now,      \* intervals of 12 hours passed
          begun,    \* names given out
          file,     \* name -> the snapshot file of that name
          pc,       \* process -> what it does next
          mine,     \* process -> name of the snapshot it is taking
          source,   \* restorer -> the path it restores, and what it promised
          dates,    \* hook -> days it believes daily/ covers
          doomed,   \* process -> files its rotation has yet to treat
          faults

vars == <<db, serving, now, begun, file, pc, mine, source, dates, doomed, faults>>

Procs  == Hooks \cup Restorers
Names  == 1..MaxName
Dirs   == {"periodic", "daily", "prerestore"}
NoFile == [dir |-> "none", rows |-> 0, copied |-> FALSE,
           described |-> FALSE, counts |-> 0, taken |-> 0]
NoSource == [name |-> 0, dir |-> "none", rows |-> 0]

In(dir)     == {n \in Names : file[n].dir = dir}
Day(n)      == file[n].taken \div 2
Complete(n) == file[n].copied /\ file[n].described

\* The directory a process takes its snapshot into.
Home(p) == IF p \in Hooks THEN "periodic" ELSE "prerestore"
\* The directory whose plain rotation is a process's last one.
Plain(p) == IF p \in Hooks THEN "daily" ELSE "prerestore"

Restoring == \E r \in Restorers : pc[r] # "idle"
Taking    == \E h \in Hooks : pc[h] # "idle"
Alone     == "restore" \in Overlap \/ ~Restoring

Init ==
  /\ db \in 0..MaxRows /\ serving = FALSE /\ now = 0 /\ begun = 0
  /\ file = [n \in Names |-> NoFile]
  /\ pc = [p \in Procs |-> "idle"]
  /\ mine = [p \in Procs |-> 0]
  /\ source = [r \in Restorers |-> NoSource]
  /\ dates = [h \in Hooks |-> {}]
  /\ doomed = [p \in Procs |-> {}]
  /\ faults = 0

-----------------------------------------------------------------------------
\* The world around: the server, time, and the loss the snapshots are for.

StartServer == /\ ~serving /\ Alone /\ serving' = TRUE
               /\ UNCHANGED <<db, now, begun, file, pc, mine, source, dates, doomed, faults>>

StopServer == /\ serving /\ serving' = FALSE
              /\ UNCHANGED <<db, now, begun, file, pc, mine, source, dates, doomed, faults>>

Write == /\ serving /\ db < MaxRows /\ db' = db + 1
         /\ UNCHANGED <<serving, now, begun, file, pc, mine, source, dates, doomed, faults>>

Lose == /\ "loss" \in Overlap \/ ~Taking
        /\ Alone
        /\ db' \in {r \in 0..MaxRows : r < db}
        /\ UNCHANGED <<serving, now, begun, file, pc, mine, source, dates, doomed, faults>>

\* A take lasts much less than the interval.
Pass == /\ now < MaxNow /\ \A p \in Procs : pc[p] = "idle"
        /\ now' = now + 1
        /\ UNCHANGED <<db, serving, begun, file, pc, mine, source, dates, doomed, faults>>

-----------------------------------------------------------------------------
\* _build_snapshot_section: health_check and should_take_snapshot both look
\* at the newest metadata in the periodic directory only.

Described == {n \in In("periodic") : file[n].described}
Newest(S) == {n \in S : \A m \in S : m <= n}
Healthy == \A n \in Newest(Described) : file[n].counts < db + Threshold
Due == \A n \in Described : file[n].taken < now

HookStart_NoHealth(h) ==
  /\ pc[h] = "idle" /\ Alone /\ Due
  /\ pc' = [pc EXCEPT ![h] = "reserve"]
  /\ UNCHANGED <<db, serving, now, begun, file, mine, source, dates, doomed, faults>>

HookStart(h) ==
  /\ pc[h] = "idle" /\ Alone
  /\ Healthy /\ Due
  /\ pc' = [pc EXCEPT ![h] = "reserve"]
  /\ UNCHANGED <<db, serving, now, begun, file, mine, source, dates, doomed, faults>>

-----------------------------------------------------------------------------
\* take_snapshot

\* _unique_snapshot_paths: an empty file under a name nobody else has.
Reserve(p) ==
  /\ pc[p] \in {"reserve", "reserveRaw"} /\ begun < MaxName
  /\ begun' = begun + 1
  /\ mine' = [mine EXCEPT ![p] = begun']
  /\ file' = [file EXCEPT ![begun'] =
                [NoFile EXCEPT !.dir = Home(p), !.taken = now]]
  /\ pc' = [pc EXCEPT ![p] = IF pc[p] = "reserve" THEN "copy" ELSE "copyRaw"]
  /\ UNCHANGED <<db, serving, now, source, dates, doomed, faults>>

\* source.backup(dest), or shutil.copy2 of the fallback.
Copy(p) ==
  /\ pc[p] \in {"copy", "copyRaw"}
  /\ file' = [file EXCEPT ![mine[p]] = [@ EXCEPT !.rows = db, !.copied = TRUE]]
  /\ pc' = [pc EXCEPT ![p] = "describe"]
  /\ UNCHANGED <<db, serving, now, begun, mine, source, dates, doomed, faults>>

\* The metadata, whose row counts are read from the database once more.
Describe(p) ==
  /\ pc[p] = "describe"
  /\ file' = [file EXCEPT ![mine[p]] = [@ EXCEPT !.described = TRUE, !.counts = db]]
  /\ pc' = [pc EXCEPT ![p] = IF p \in Hooks THEN "dates" ELSE "listPlain"]
  /\ mine' = [mine EXCEPT ![p] = 0]
  /\ UNCHANGED <<db, serving, now, begun, source, dates, doomed, faults>>

\* A process dies, or its copy fails: the files stay as they are.  A restore
\* whose backup fails falls back on copying the file under a second name.
Fail(p) ==
  /\ faults < MaxFaults /\ pc[p] # "idle"
  /\ faults' = faults + 1
  /\ mine' = [mine EXCEPT ![p] = 0]
  /\ \/ /\ pc' = [pc EXCEPT ![p] = "idle"]
        /\ doomed' = [doomed EXCEPT ![p] = {}]
        /\ dates' = [h \in Hooks |-> IF h = p THEN {} ELSE dates[h]]
        /\ source' = [r \in Restorers |-> IF r = p THEN NoSource ELSE source[r]]
     \/ /\ p \in Restorers /\ pc[p] = "copy"
        /\ pc' = [pc EXCEPT ![p] = "reserveRaw"]
        /\ UNCHANGED <<doomed, dates, source>>
  /\ UNCHANGED <<db, serving, now, begun, file>>

-----------------------------------------------------------------------------
\* Rotation

Oldest(S) == {n \in S : \A m \in S : n <= m}

\* The files of dir that a rotation by p means to treat: the oldest ones,
\* leaving out the protected one, as many as there are too many.
Surplus_NewestFirst(p, dir) ==
  LET excess == Cardinality(In(dir)) - Quota[dir]
  IN  {n \in In(dir) : Cardinality({m \in In(dir) : m > n}) < excess}

Surplus_NoProtection(p, dir) ==
  LET excess == Cardinality(In(dir)) - Quota[dir]
  IN  {n \in In(dir) : Cardinality({m \in In(dir) : m < n}) < excess}

Surplus(p, dir) ==
  LET excess == Cardinality(In(dir)) - Quota[dir]
      free   == {n \in In(dir) : p \in Restorers =>
                                   [name |-> n, dir |-> dir] #
                                   [name |-> source[p].name, dir |-> source[p].dir]}
  IN  {n \in free : Cardinality({m \in free : m < n}) < excess}

\* unlink(missing_ok) of the database file and its metadata.
Unlinked(n, dir) == IF file[n].dir = dir THEN [file EXCEPT ![n] = NoFile] ELSE file

ReadDates(h) ==
  /\ pc[h] = "dates"
  /\ dates' = [dates EXCEPT ![h] = {Day(n) : n \in In("daily")}]
  /\ pc' = [pc EXCEPT ![h] = "list"]
  /\ UNCHANGED <<db, serving, now, begun, file, mine, source, doomed, faults>>

ListPeriodic(h) ==
  /\ pc[h] = "list"
  /\ doomed' = [doomed EXCEPT ![h] = Surplus(h, "periodic")]
  /\ pc' = [pc EXCEPT ![h] = "promote"]
  /\ UNCHANGED <<db, serving, now, begun, file, mine, source, dates, faults>>

\* The first of its day goes to daily/, the others are deleted.
Promote_Always(h) ==
  /\ pc[h] = "promote"
  /\ \E n \in Oldest(doomed[h]) :
       /\ file' = Unlinked(n, "periodic")
       /\ doomed' = [doomed EXCEPT ![h] = @ \ {n}]
  /\ UNCHANGED <<db, serving, now, begun, pc, mine, source, dates, faults>>

Promote(h) ==
  /\ pc[h] = "promote"
  /\ \E n \in Oldest(doomed[h]) :
       \/ /\ Day(n) \in dates[h]
          /\ file' = Unlinked(n, "periodic")
          /\ doomed' = [doomed EXCEPT ![h] = @ \ {n}]
          /\ UNCHANGED <<dates, pc>>
       \/ /\ Day(n) \notin dates[h] /\ file[n].dir = "periodic"
          /\ file' = [file EXCEPT ![n].dir = "daily"]
          /\ dates' = [dates EXCEPT ![h] = @ \cup {Day(n)}]
          /\ doomed' = [doomed EXCEPT ![h] = @ \ {n}]
          /\ UNCHANGED pc
       \/ \* rename of a file another process has moved: FileNotFoundError
          /\ Day(n) \notin dates[h] /\ file[n].dir # "periodic"
          /\ pc' = [pc EXCEPT ![h] = "idle"]
          /\ doomed' = [doomed EXCEPT ![h] = {}]
          /\ dates' = [dates EXCEPT ![h] = {}]
          /\ UNCHANGED file
  /\ UNCHANGED <<db, serving, now, begun, mine, source, faults>>

Promoted(h) ==
  /\ pc[h] = "promote" /\ doomed[h] = {}
  /\ pc' = [pc EXCEPT ![h] = "listPlain"]
  /\ dates' = [dates EXCEPT ![h] = {}]
  /\ UNCHANGED <<db, serving, now, begun, file, mine, source, doomed, faults>>

\* _rotate_snapshots
ListPlain(p) ==
  /\ pc[p] = "listPlain"
  /\ doomed' = [doomed EXCEPT ![p] = Surplus(p, Plain(p))]
  /\ pc' = [pc EXCEPT ![p] = "prune"]
  /\ UNCHANGED <<db, serving, now, begun, file, mine, source, dates, faults>>

Prune(p) ==
  /\ pc[p] = "prune"
  /\ \E n \in Oldest(doomed[p]) :
       /\ file' = Unlinked(n, Plain(p))
       /\ doomed' = [doomed EXCEPT ![p] = @ \ {n}]
  /\ UNCHANGED <<db, serving, now, begun, pc, mine, source, dates, faults>>

Pruned(p) ==
  /\ pc[p] = "prune" /\ doomed[p] = {}
  /\ pc' = [pc EXCEPT ![p] = IF p \in Hooks THEN "idle" ELSE "write"]
  /\ UNCHANGED <<db, serving, now, begun, file, mine, source, dates, doomed, faults>>

-----------------------------------------------------------------------------
\* restore_snapshot

\* The user names a listed snapshot; no server may be running.
RestoreStart(r, n) ==
  /\ pc[r] = "idle" /\ ~serving
  /\ Alone /\ ("restore" \in Overlap \/ ~Taking)
  /\ file[n].dir # "none" /\ Complete(n)
  /\ source' = [source EXCEPT ![r] = [name |-> n, dir |-> file[n].dir, rows |-> file[n].rows]]
  /\ pc' = [pc EXCEPT ![r] = "reserve"]
  /\ UNCHANGED <<db, serving, now, begun, file, mine, dates, doomed, faults>>

\* backup() out of the source: sqlite3.connect creates a missing file, empty.
\* With --file-copy a missing file raises and nothing is written.
RestoreWrite(r) ==
  /\ pc[r] = "write"
  /\ LET n == source[r].name
     IN  \/ file[n].dir = source[r].dir /\ db' = file[n].rows
         \/ file[n].dir # source[r].dir /\ db' = 0
         \/ file[n].dir # source[r].dir /\ UNCHANGED db
  /\ pc' = [pc EXCEPT ![r] = "idle"]
  /\ source' = [source EXCEPT ![r] = NoSource]
  /\ UNCHANGED <<serving, now, begun, file, mine, dates, doomed, faults>>

-----------------------------------------------------------------------------
Next ==
  \/ StartServer \/ StopServer \/ Write \/ Lose \/ Pass
  \/ \E h \in Hooks : \/ HookStart(h) \/ ReadDates(h) \/ ListPeriodic(h)
                      \/ Promote(h) \/ Promoted(h)
  \/ \E p \in Procs : \/ Reserve(p) \/ Copy(p) \/ Describe(p) \/ Fail(p)
                      \/ ListPlain(p) \/ Prune(p) \/ Pruned(p)
  \/ \E r \in Restorers : RestoreWrite(r) \/ \E n \in Names : RestoreStart(r, n)

Spec == Init /\ [][Next]_vars

-----------------------------------------------------------------------------
TypeOK ==
  /\ db \in 0..MaxRows /\ serving \in BOOLEAN /\ now \in 0..MaxNow
  /\ begun \in 0..MaxName /\ faults \in 0..MaxFaults
  /\ file \in [Names -> [dir : Dirs \cup {"none"}, rows : 0..MaxRows, copied : BOOLEAN,
                         described : BOOLEAN, counts : 0..MaxRows, taken : 0..MaxNow]]
  /\ pc \in [Procs -> {"idle", "reserve", "reserveRaw", "copy", "copyRaw", "describe", "dates",
                       "list", "promote", "listPlain", "prune", "write"}]
  /\ mine \in [Procs -> 0..MaxName]
  /\ source \in [Restorers -> [name : 0..MaxName, dir : Dirs \cup {"none"}, rows : 0..MaxRows]]
  /\ dates \in [Hooks -> SUBSET (0..MaxNow)]
  /\ doomed \in [Procs -> SUBSET Names]

\* However many processes rotate a directory at once, each from a listing of
\* its own, a file is only ever deleted when a full quota of newer ones is
\* there; the protected source of a restore may take the place of one of them.
NewestKept ==
  \A n \in Names :
     LET dir == file[n].dir IN
     dir # "none" /\ file'[n].dir = "none" =>
       Cardinality({m \in In(dir) : m > n}) >= Quota[dir] - (IF dir = "prerestore" THEN 1 ELSE 0)

\* "Instead of deleting the oldest, a day that daily/ lacks is moved there":
\* a usable periodic snapshot leaves only if daily/ keeps a usable one of its
\* day, or daily/ is full of later days.
KeepsDates ==
  \A n \in Names :
     file[n].dir = "periodic" /\ Complete(n) /\ file'[n].dir # "periodic" =>
       \/ \E m \in Names : file'[m].dir = "daily" /\ Complete(m)' /\ Day(m)' = Day(n)
       \/ Cardinality({m \in Names : file'[m].dir = "daily" /\ Day(m)' > Day(n)}) >= Quota["daily"]

Writes(r) == pc[r] = "write" /\ pc'[r] = "idle" /\ faults' = faults

\* A restore leaves the database with what the chosen snapshot held when it
\* was chosen, or as it was: neither the copy set aside nor any rotation makes
\* it write anything else.
WritesChosen == \A r \in Restorers : Writes(r) => db' \in {db, source[r].rows}

RestoreIsFaithful == [][WritesChosen]_vars

\* Moreover what a restore overwrites is in a prerestore snapshot, so it can
\* be undone.
OverwrittenIsKept ==
  (\E r \in Restorers : Writes(r)) => \E n \in In("prerestore") : Complete(n) /\ file[n].rows = db

RestoreIsUndoable == [][WritesChosen /\ OverwrittenIsKept]_vars

\* Once the database has lost as much as the health check watches for, no
\* snapshot of what is left becomes the one later checks compare with.
LossStaysVisible ==
  \A n \in Names :
     n \notin Described /\ n \in Described' =>
       \A m \in Newest(Described) : m < n => file[m].counts < file'[n].counts + Threshold

\* The newest snapshots are never rotated out; each day keeps one as long as what
\* daily/ holds is usable (a process that dies while it takes one leaves a file
\* that is not); and as long as nothing else goes on while sessions start, a loss
\* is reported until it is made good.
Usable == \A n \in In("daily") : Complete(n)
SnapshotsAreKept ==
  [][NewestKept /\ (Usable => KeepsDates) /\ (Overlap = {} => LossStaysVisible)]_file
=============================================================================
