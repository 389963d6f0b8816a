---------------------------- MODULE SessionAliases ----------------------------
(***************************************************************************)
(* The table of the sessions at work and their aliases                     *)
(* (session_registry_service.py): a file that every process of the server  *)
(* reads, changes and replaces under one file lock.                        *)
(***************************************************************************)
EXTENDS Integers, Sequences, FiniteSets

CONSTANTS Clis,        \* the CLI sessions, named by their session ids
          Works,       \* the activities
          TitleOf,     \* the alias derived from the title of each
          Wanted,      \* the aliases asked for by set_alias
          MaxEntries,  \* _MAX_ENTRIES
          TTL,         \* _TTL_DAYS
          Runs         \* bound: the processes a CLI session may run in, a set of numbers

\* An alias is a sequence of numbers: <<1, 2>> is the alias <<1>> with "-2".
SessionAliasesAssumption ==
    /\ IsFiniteSet(Clis)
    /\ TitleOf \in [Works -> Seq(Nat)] /\ Wanted \subseteq Seq(Nat)
    /\ MaxEntries \in Nat \ {0} /\ TTL \in Nat /\ Runs \subseteq Nat \ {0}

VARIABLES
    table,     \* the rows of the file, by their sessions; age: days since updated_at
    proc,      \* the process each CLI session runs in; 0: none
    answer     \* what the last call answered its session

aliasVars == <<table, proc, answer>>

NoAnswer == [who |-> "nobody"]

AliasInit ==
    /\ table = [c \in {} |-> 0]
    /\ proc = [c \in Clis |-> 0]
    /\ answer = NoAnswer

\* _resolve_collision: the first of base, base-2, base-3 ... that no other row has.
TakenBut(c) == {table[k].alias : k \in DOMAIN table \ {c}}

Resolve_Once(base, c) == IF base \in TakenBut(c) THEN Append(base, 2) ELSE base

Resolve(base, c) ==
    LET free == {n \in 2 .. Cardinality(TakenBut(c)) + 2 : Append(base, n) \notin TakenBut(c)}
    IN  IF base \notin TakenBut(c) THEN base
        ELSE Append(base, CHOOSE n \in free : \A m \in free : n <= m)

\* _entry_alive: the process of the row runs that very CLI session, within the TTL.
Live(rows) ==
    {k \in DOMAIN rows : rows[k].pid # 0 /\ rows[k].pid = proc[k] /\ rows[k].age <= TTL}

Collected_Newest(rows) ==
    {[k \in S |-> rows[k]] : S \in {S \in SUBSET Live(rows) :
        /\ Cardinality(S) <= MaxEntries /\ (S = Live(rows) \/ Cardinality(S) = MaxEntries)
        /\ \A k \in S, gone \in Live(rows) \ S : rows[k].age >= rows[gone].age}}

\* _gc: the rows that are not alive go, then the oldest beyond the cap; which of
\* those of one day is left open.
Collected(rows) ==
    {[k \in S |-> rows[k]] : S \in {S \in SUBSET Live(rows) :
        /\ Cardinality(S) <= MaxEntries /\ (S = Live(rows) \/ Cardinality(S) = MaxEntries)
        /\ \A k \in S, gone \in Live(rows) \ S : rows[k].age <= rows[gone].age}}

Put(c, row) == [k \in DOMAIN table \union {c} |-> IF k = c THEN row ELSE table[k]]

\* register_checkin: an alias given by hand stays while the activity does.
RegisterCheckin(c, w) ==
    /\ proc[c] # 0
    /\ LET kept == c \in DOMAIN table /\ table[c].source = "manual" /\ table[c].work = w
           alias == IF kept THEN table[c].alias ELSE Resolve(TitleOf[w], c)
       IN  /\ table' \in Collected(Put(c, [alias |-> alias, work |-> w, pid |-> proc[c], age |-> 0,
                                           source |-> IF kept THEN "manual" ELSE "derived"]))
           /\ answer' = [who |-> c, alias |-> alias]
    /\ UNCHANGED proc

\* set_alias: only in a row that is there; the process it names is left as it is.
SetAlias(c, wanted) ==
    /\ proc[c] # 0 /\ c \in DOMAIN table
    /\ table' \in Collected(Put(c, [table[c] EXCEPT !.alias = Resolve(wanted, c),
                                                    !.source = "manual", !.age = 0]))
    /\ answer' = [who |-> c, alias |-> Resolve(wanted, c)]
    /\ UNCHANGED proc

ListSessions ==
    /\ table' \in Collected(table)
    /\ answer' = NoAnswer
    /\ UNCHANGED proc

\* The CLI writes its session file when it starts or resumes a session, and
\* removes it when it ends (external: src/infra/cli_session.py reads it).
CliStarts(c) ==
    /\ \E p \in Runs \ {proc[c]} : proc' = [proc EXCEPT ![c] = p]
    /\ answer' = NoAnswer
    /\ UNCHANGED table

CliEnds(c) ==
    /\ proc[c] # 0
    /\ proc' = [proc EXCEPT ![c] = 0]
    /\ answer' = NoAnswer
    /\ UNCHANGED table

\* _load: a file that cannot be read counts as empty.
FileBroken ==
    /\ table' = [c \in {} |-> 0]
    /\ table' # table
    /\ answer' = NoAnswer
    /\ UNCHANGED proc

AliasDay ==
    /\ table' = [k \in DOMAIN table |->
                   [table[k] EXCEPT !.age = IF @ <= TTL THEN @ + 1 ELSE @]]
    /\ table' # table
    /\ answer' = NoAnswer
    /\ UNCHANGED proc

AliasNext ==
    \/ \E c \in Clis :
          \/ \E w \in Works : RegisterCheckin(c, w)
          \/ \E wanted \in Wanted : SetAlias(c, wanted)
          \/ CliStarts(c) \/ CliEnds(c)
    \/ ListSessions \/ FileBroken \/ AliasDay

AliasSpec == AliasInit /\ [][AliasNext]_aliasVars

--------------------------------------------------------------------------------
\* No two sessions of the table have the same alias, whatever was derived,
\* asked for, collected or kept in between (_resolve_collision).
OneAlias(j, k) == table[j].alias = table[k].alias => j = k

\* The alias that a call answers is the one its session is listed by, as long as
\* the session goes on in the process it checked in from (set_alias leaves
\* cli_pid, so that _gc takes the row for a dead one) and no other row was
\* written on the same day (the order of the file then decides what goes).
AsCheckedIn(c) ==
    /\ c \in DOMAIN table => table[c].pid = proc[c]
    /\ \A k \in DOMAIN table \ {c} : table[k].age > 0

AnsweredIsListed ==
    answer' # NoAnswer /\ AsCheckedIn(answer'.who) =>
        answer'.who \in DOMAIN table' /\ table'[answer'.who].alias = answer'.alias

\* No two sessions are listed by one alias, and a session is listed by the alias
\* it was told (session_registry_service.py, register_checkin and set_alias).
AliasesAreKept ==
    /\ [](\A j, k \in DOMAIN table : OneAlias(j, k))
    /\ [][AnsweredIsListed]_aliasVars

================================================================================
