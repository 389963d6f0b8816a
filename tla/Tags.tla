--------------------------------- MODULE Tags ---------------------------------
(***************************************************************************)
(* Tags, their aliases and what is linked to them (tag_service.py): what   *)
(* entities are tagged with, how a tag becomes an alias of another, is     *)
(* renamed or archived, and how an ask finds its tags.                     *)
(*                                                                         *)
(* update_tag checks rows that it read before its transaction began.       *)
(***************************************************************************)
EXTENDS Integers, FiniteSets

CONSTANTS Names,     \* namespace and name of a tag
          TagIds,    \* bound: the ids of the tag rows there will ever be, positive numbers
          Ents,      \* topics, activities, decisions, logs and materials
          TagAsks,   \* the asks: ask_tags is not among JUNCTION_TABLES
          Taggers,   \* the calls that are under way at a time
          TagsOverlap  \* do calls of update_tag overlap?

ASSUME TagsAssumption == TagIds \subseteq Nat \ {0} /\ TagsOverlap \in BOOLEAN

VARIABLES
    tags,    \* the rows: name, canonical_id, archived_at
    links,   \* the tags linked to each entity and ask
    given,   \* history: the tags each entity was given, by what they were called
    freed,   \* history: the tags that are no longer the alias they were
    pend     \* the call each caller is in, between its reads and its writes

tagVars == <<tags, links, given, freed, pend>>

NoTag == [name |-> "none"]
NoPend == [op |-> "none"]
Nothing == 0

TagInit ==
    /\ tags = [t \in TagIds |-> NoTag]
    /\ links = [e \in Ents \union TagAsks |-> {}]
    /\ given = [e \in Ents |-> {}]
    /\ freed = {}
    /\ pend = [c \in Taggers |-> NoPend]

Here == {t \in TagIds : tags[t] # NoTag}
Named(n) == {t \in Here : tags[t].name = n}
Dependents(t) == {u \in Here : tags[u].canon = t}

\* One step along canonical_id, as every reader takes it.
Effective(t) == IF tags[t].canon = Nothing THEN t ELSE tags[t].canon

Row(n) == [name |-> n, canon |-> Nothing, archived |-> FALSE]

\* The id of the next row.
IsNext(t) == t \notin Here /\ \A u \in TagIds \ Here : t <= u

\* INSERT OR IGNORE of the name, in a row of its own when it is new.
Inserted(n, t) == IF Named(n) = {} THEN IsNext(t) ELSE t \in Named(n)

\* ensure_tag_ids and link_tags, in the transaction that writes the entity.
Tag(e, n) ==
    /\ \E t \in TagIds :
          /\ Inserted(n, t)
          /\ tags' = [tags EXCEPT ![t] = IF Named(n) = {} THEN Row(n) ELSE @]
          /\ links' = [links EXCEPT ![e] = @ \union {IF Named(n) = {} THEN t ELSE Effective(t)}]
          /\ given' = [given EXCEPT ![e] = @ \union {t}]
    /\ UNCHANGED <<freed, pend>>

--------------------------------------------------------------------------------
\* resolve_tags: the tag of that name, or the one it stands for; else a similar
\* tag, as it is (an alias, too); else a new one, committed at once.
ResolveTags(c, a, n) ==
    /\ pend[c] = NoPend
    /\ \E t \in TagIds :
          \/ /\ Named(n) # {} /\ t \in Named(n)
             /\ pend' = [pend EXCEPT ![c] = [op |-> "link", ask |-> a, tag |-> Effective(t)]]
             /\ UNCHANGED tags
          \/ /\ Named(n) = {} /\ t \in Here
             /\ pend' = [pend EXCEPT ![c] = [op |-> "link", ask |-> a, tag |-> t]]
             /\ UNCHANGED tags
          \/ /\ Named(n) = {} /\ IsNext(t)
             /\ tags' = [tags EXCEPT ![t] = Row(n)]
             /\ pend' = [pend EXCEPT ![c] = [op |-> "link", ask |-> a, tag |-> t]]
    /\ UNCHANGED <<links, given, freed>>

\* add_ask links them in a transaction of its own.
LinkAsk(c) ==
    /\ pend[c].op = "link"
    /\ links' = [links EXCEPT ![pend[c].ask] = @ \union {pend[c].tag}]
    /\ pend' = [pend EXCEPT ![c] = NoPend]
    /\ UNCHANGED <<tags, given, freed>>

--------------------------------------------------------------------------------
\* update_tag takes one of rename, archived and canonical (and of notes, which are
\* in TagNotes; that a tag with notes does not become an alias is left open). Each
\* reads the rows it checks ...
Updating(d) == pend[d].op \notin {"none", "link"}

Begin(c, t, call) ==
    /\ pend[c] = NoPend /\ t \in Here
    /\ TagsOverlap \/ \A d \in Taggers : ~Updating(d)
    /\ pend' = [pend EXCEPT ![c] = call]
    /\ UNCHANGED <<tags, links, given, freed>>

RenameRead(c, t, n) ==
    /\ Named(n) = {}
    /\ Begin(c, t, [op |-> "rename", tag |-> t, to |-> n])

ArchiveRead(c, t) ==
    /\ t \in Here /\ ~tags[t].archived
    /\ Dependents(t) = {}
    /\ Begin(c, t, [op |-> "archive", tag |-> t, to |-> TRUE])

UnarchiveRead(c, t) ==
    /\ t \in Here /\ tags[t].archived
    /\ Begin(c, t, [op |-> "archive", tag |-> t, to |-> FALSE])

UnaliasRead(c, t) == Begin(c, t, [op |-> "unalias", tag |-> t])

AliasRead_AnyTag(c, t, u) ==
    /\ t \in Here /\ ~tags[t].archived
    /\ u \in Here \ {t} /\ ~tags[u].archived /\ tags[u].canon = Nothing
    /\ Begin(c, t, [op |-> "alias", tag |-> t, to |-> u])

AliasRead(c, t, u) ==
    /\ t \in Here /\ ~tags[t].archived
    /\ u \in Here \ {t} /\ ~tags[u].archived /\ tags[u].canon = Nothing
    /\ Dependents(t) = {}
    /\ Begin(c, t, [op |-> "alias", tag |-> t, to |-> u])

\* ... and writes, whatever they are by then. A name that is taken by then is a
\* constraint violation, and the call fails.
RenameWrite(c) ==
    /\ pend[c].op = "rename"
    /\ tags' = IF Named(pend[c].to) = {} THEN [tags EXCEPT ![pend[c].tag].name = pend[c].to] ELSE tags
    /\ UNCHANGED <<links, freed>>

ArchiveWrite(c) ==
    /\ pend[c].op = "archive"
    /\ tags' = [tags EXCEPT ![pend[c].tag].archived = pend[c].to]
    /\ UNCHANGED <<links, freed>>

UnaliasWrite(c) ==
    /\ pend[c].op = "unalias"
    /\ tags' = [tags EXCEPT ![pend[c].tag].canon = Nothing]
    /\ freed' = IF tags[pend[c].tag].canon = Nothing THEN freed ELSE freed \union {pend[c].tag}
    /\ UNCHANGED links

\* Each junction table: what has both tags loses the alias, then the alias
\* becomes the other tag.
Relinked_NoDedupe(ls, t, u) == IF {t, u} \subseteq ls THEN ls \ {t, u} ELSE (ls \ {t}) \union (IF t \in ls THEN {u} ELSE {})

Relinked(ls, t, u) == IF t \in ls THEN (ls \ {t}) \union {u} ELSE ls

AliasWrite(c) ==
    /\ pend[c].op = "alias"
    /\ tags' = [tags EXCEPT ![pend[c].tag].canon = pend[c].to]
    /\ links' = [e \in Ents \union TagAsks |->
                   IF e \in Ents THEN Relinked(links[e], pend[c].tag, pend[c].to) ELSE links[e]]
    /\ freed' = IF tags[pend[c].tag].canon = Nothing THEN freed ELSE freed \union {pend[c].tag}

UpdateTag(c) ==
    /\ RenameWrite(c) \/ ArchiveWrite(c) \/ UnaliasWrite(c) \/ AliasWrite(c)
    /\ pend' = [pend EXCEPT ![c] = NoPend]
    /\ UNCHANGED given

TagNext ==
    \/ \E e \in Ents, n \in Names : Tag(e, n)
    \/ \E c \in Taggers :
          \/ \E a \in TagAsks, n \in Names : ResolveTags(c, a, n)
          \/ LinkAsk(c)
          \/ \E t \in TagIds :
                \/ \E n \in Names : RenameRead(c, t, n)
                \/ ArchiveRead(c, t) \/ UnarchiveRead(c, t) \/ UnaliasRead(c, t)
                \/ \E u \in TagIds : AliasRead(c, t, u)
          \/ UpdateTag(c)

TagSpec == TagInit /\ [][TagNext]_tagVars

--------------------------------------------------------------------------------
\* With one update_tag at a time, whatever else goes on, an alias leads in one
\* step to a tag that is neither an alias nor archived: what is given an alias
\* is linked to a tag that can be found.
AliasesEndAtOnce ==
    \A t \in Here : tags[t].canon # Nothing =>
        tags[tags[t].canon].canon = Nothing /\ ~tags[tags[t].canon].archived

\* With one update_tag at a time, an entity is found by each tag it was given,
\* whatever was renamed and aliased since, unless the tag has meanwhile ceased to
\* be the alias it was.
FoundByItsTags ==
    \A e \in Ents, t \in TagIds :
        t \in given[e] \ freed => Effective(t) \in links[e]

\* With one update_tag at a time, an alias leads in one step to a tag that can be
\* found, and what was given a tag is found by it, whatever was renamed and
\* aliased since.
TagsLead == AliasesEndAtOnce /\ FoundByItsTags

================================================================================
