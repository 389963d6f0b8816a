-------------------------------- MODULE Bundles --------------------------------
(***************************************************************************)
(* Instances of cc-memory that exchange bundles: a bundle is a directory   *)
(* of files and a manifest (export_bundle_service.py), taken over into     *)
(* another instance's database under keys of its own                       *)
(* (import_bundle_service.py).                                             *)
(*                                                                         *)
(* A record has a kind ("topic"; "page": activity, material; "note":       *)
(* decision, log), a text and references: "edge" in the relation tables,   *)
(* "cite" in the text. Numbers stand for ids, shared by the kinds; the key *)
(* of a record abroad is the instance that exported it and its id there.   *)
(***************************************************************************)
EXTENDS Integers, Sequences, FiniteSets

CONSTANTS Instances, Workers,
          RecordKinds,   \* "topic", "page", "note"
          BundleNames,   \* the names asked for
          Births,        \* bound: [Instances -> the records written there]
          Room,          \* bound: [Instances -> the records an instance may hold]
          MaxEdits       \* bound: the edits of a text

ASSUME BundlesAssumption == MaxEdits \in Nat /\ Room \in [Instances -> Nat] /\ Births \in [Instances -> Nat]

VARIABLES
    lib,    \* [Instances -> sequence of records], the id is the index
    disk,   \* [BundleNames \X {1, 2} -> directory]: the name, or the name and a suffix
    proc,   \* [Workers -> the call under way]
    made,   \* the references anyone has made, by the origins of their ends
    single  \* one export at a time; never changes

bundleVars == <<lib, disk, proc, made, single>>

NoKey == <<>>
NoDir == [made |-> FALSE, files |-> {}, manifest |-> {}, whole |-> FALSE]
AtEase == [op |-> "idle"]

BundleInit ==
    /\ lib = [i \in Instances |-> <<>>]
    /\ disk = [d \in BundleNames \X {1, 2} |-> NoDir]
    /\ proc = [w \in Workers |-> AtEase]
    /\ made = {}
    /\ single \in BOOLEAN

Ids(i) == DOMAIN lib[i]
RefsIn(i, S) == UNION {lib[i][n].refs : n \in S}

--------------------------------------------------------------------------------
\* add_topic, add_decisions ...: a record, with a reference to an earlier one.
Born(i, kind, refs) ==
    [kind |-> kind, text |-> <<i, 0>>, refs |-> refs, what |-> <<i, Len(lib[i]) + 1>>,
     origin |-> NoKey, hash |-> NoKey]
Referred(i) == {{}} \union {{<<n, how>>} : n \in Ids(i), how \in {"edge", "cite"}}

Write(i, kind) ==
    /\ Len(lib[i]) < Room[i] /\ Cardinality({n \in Ids(i) : lib[i][n].origin = NoKey}) < Births[i]
    /\ \E refs \in Referred(i) :
          /\ lib' = [lib EXCEPT ![i] = Append(@, Born(i, kind, refs))]
          /\ made' = made \union {<<Born(i, kind, refs).what, lib[i][r[1]].what, r[2]>> : r \in refs}
    /\ UNCHANGED <<disk, proc, single>>

Edit(i, id) ==
    /\ lib[i][id].text[2] < MaxEdits
    /\ lib' = [lib EXCEPT ![i][id].text = <<i, @[2] + 1>>]
    /\ UNCHANGED <<disk, proc, made, single>>

--------------------------------------------------------------------------------
\* The decisions that a selected decision supersedes, if asked for, and the
\* topics of all decisions and logs come along.
Selected(i, S, targets) ==
    LET notes(T) == {n \in T : lib[i][n].kind = "note"}
        edges(T, kind) == {r[1] : r \in {r \in RefsIn(i, notes(T)) : r[2] = "edge"}}
                              \intersect {n \in Ids(i) : lib[i][n].kind = kind}
        more == S \union (IF targets THEN edges(S, "note") ELSE {})
    IN  more \union edges(more, "topic")

\* _composite_key: always of the instance that exports.
Key(i, id) == <<i, id>>

\* What is written of a record, and what the hash is taken of.
Content(i, id) == [kind |-> lib[i][id].kind, text |-> lib[i][id].text,
                   refs |-> {<<Key(i, r[1]), r[2]>> : r \in lib[i][id].refs}]
Entry(i, id) == [key |-> Key(i, id), what |-> lib[i][id].what, content |-> Content(i, id)]

\* _build_closure_warnings_with_conn: what a choice of candidates leaves outside.
Warnings_EdgesOnly(i, S) == {r[1] : r \in {r \in RefsIn(i, S) : r[2] = "edge"}} \ S
Warnings(i, S) == {r[1] : r \in RefsIn(i, S)} \ S

\* unresolved_refs of the manifest.
UnresolvedRefs(i, S) == {r[1] : r \in RefsIn(i, S)} \ S

\* The directory is chosen before anything is written.
Free(name) == CHOOSE d \in {<<name, 1>>, <<name, 2>>} :
                 ~disk[d].made /\ (d[2] = 2 => disk[<<name, 1>>].made)

Exporting(w) == proc[w].op \in {"export", "written"}

ExportGather(w, i, S, targets, name) ==
    /\ proc[w] = AtEase /\ (single => \A v \in Workers : ~Exporting(v))
    /\ S # {} /\ \E d \in {<<name, 1>>, <<name, 2>>} : ~disk[d].made
    /\ proc' = [proc EXCEPT ![w] = [op |-> "export", dir |-> Free(name),
                                    entries |-> {Entry(i, id) : id \in Selected(i, S, targets)}]]
    /\ UNCHANGED <<lib, disk, made, single>>

\* makedirs(exist_ok=True), then file after file; a file's name has its key.
ExportFiles(w) ==
    /\ proc[w].op = "export"
    /\ LET e == proc[w].entries
           d == proc[w].dir
       IN  /\ disk' = [disk EXCEPT ![d].made = TRUE,
                           ![d].files = {f \in @ : \A x \in e : x.key # f.key} \union e]
           /\ proc' = [proc EXCEPT ![w].op = "written"]
    /\ UNCHANGED <<lib, made, single>>

ExportManifest(w) ==
    /\ proc[w].op = "written"
    /\ disk' = [disk EXCEPT ![proc[w].dir].manifest = {<<x.key, x.content>> : x \in proc[w].entries},
                            ![proc[w].dir].whole = TRUE]
    /\ proc' = [proc EXCEPT ![w] = AtEase]
    /\ UNCHANGED <<lib, made, single>>

--------------------------------------------------------------------------------
\* _load_bundle_entities: the file that the manifest names; the hash is the
\* manifest's, the content the file's.
Loaded(d) ==
    UNION {{[key |-> m[1], hash |-> m[2], what |-> f.what, content |-> f.content] :
                f \in {f \in disk[d].files : f.key = m[1]}} : m \in disk[d].manifest}

\* _fetch_provenance_by_origin_with_conn: the records taken over, by their keys.
Known(i) == {lib[i][n].origin : n \in Ids(i)} \ {NoKey}
LocalOf(i, key) == CHOOSE n \in Ids(i) : lib[i][n].origin = key

Status(i, e) ==
    CASE e.key \in Known(i) /\ lib[i][LocalOf(i, e.key)].hash = e.hash -> "unchanged"
      [] e.key \in Known(i) /\ lib[i][LocalOf(i, e.key)].hash # e.hash ->
            IF e.content.kind = "note" THEN "upstream_changed_skip" ELSE "updatable"
      [] e.key \notin Known(i) /\ e.key[1] = i -> "self_origin"
      [] OTHER -> "new"

\* _collect_dangling_refs with _resolve_ref_status.
Missing_AnyKnown(i, loaded) ==
    {r[1] : r \in {r \in UNION {e.content.refs : e \in loaded} :
                      \A key \in {e.key : e \in loaded} \union Known(i) : key[1] # r[1][1]}}
Missing(i, loaded) ==
    {r[1] : r \in UNION {e.content.refs : e \in loaded}}
        \ ({e.key : e \in loaded} \union Known(i) \union {Key(i, n) : n \in 1 .. Room[i]})

DryRun(w, i, d) ==
    /\ proc[w] = AtEase
    /\ disk[d].whole
    /\ proc' = [proc EXCEPT ![w] = [op |-> "reported", inst |-> i, dir |-> d, loaded |-> Loaded(d),
                                    dangling |-> Missing(i, Loaded(d))]]
    /\ UNCHANGED <<lib, disk, made, single>>

\* _determine_action. skip: the overrides that leave a record out; overwrite:
\* on_upstream_change (or an override) takes over changed decisions and logs.
Action(status, key, skip, overwrite) ==
    CASE key \in skip -> "skip"
      [] key \notin skip /\ status = "new" -> "create"
      [] key \notin skip /\ status = "updatable" -> "update"
      [] key \notin skip /\ status = "upstream_changed_skip" /\ overwrite -> "update"
      [] OTHER -> "skip"

\* After a dry run of the same bundle: it is read again and each record
\* classified, outside of any transaction.
ImportRead(w, skip, overwrite) ==
    /\ proc[w].op = "reported"
    /\ LET i == proc[w].inst
           d == proc[w].dir
           todo == [e \in Loaded(d) |-> Action(Status(i, e), e.key, skip, overwrite)] IN
       proc' = [proc EXCEPT ![w] =
                  [op |-> "import", inst |-> i, known |-> Known(i),
                   foretold |-> skip = {} /\ proc[w].loaded = Loaded(d) /\ proc[w].dangling = {},
                   create |-> {e \in Loaded(d) : todo[e] = "create"},
                   update |-> {e \in Loaded(d) : todo[e] = "update"}]]
    /\ UNCHANGED <<lib, disk, made, single>>

\* UNIQUE (origin_instance, entity_type, origin_id).
Collides_Never(i, new) == FALSE
Collides(i, new) == \E e \in new : e.key \in Known(i)

\* The new records in the order of the phases: topics, activities and
\* materials, decisions and logs; within a phase by the text of the key, which
\* is any order here.
Phase(kind) == CASE kind = "topic" -> 1 [] kind = "page" -> 2 [] OTHER -> 3
Orders(i, new) ==
    {order \in UNION {[1 .. n -> new] : n \in 0 .. Room[i]} :
        /\ \A e \in new : \E n \in DOMAIN order : order[n] = e
        /\ \A m, n \in DOMAIN order :
              m < n => /\ order[m] # order[n]
                       /\ Phase(order[m].content.kind) <= Phase(order[n].content.kind)}

\* _resolve_local_id: what this import made or updated, what an earlier one
\* made, what was born here.
Resolve_AnyInstance(p, order, key) ==
    LET i == p.inst
        here == {n \in DOMAIN order : order[n].key = key}
    IN  CASE here # {} -> {Len(lib[i]) + (CHOOSE n \in here : TRUE)}
          [] here = {} /\ key \in p.known -> {LocalOf(i, key)}
          [] OTHER -> {key[2]} \intersect Ids(i)

Resolve(p, order, key) ==
    LET i == p.inst
        here == {n \in DOMAIN order : order[n].key = key}
    IN  CASE here # {} -> {Len(lib[i]) + (CHOOSE n \in here : TRUE)}
          [] here = {} /\ key \in p.known -> {LocalOf(i, key)}
          [] here = {} /\ key \notin p.known /\ key[1] = i -> {key[2]}
          [] OTHER -> {}

Taken(p, order, e) ==
    UNION {{<<n, r[2]>> : n \in Resolve(p, order, r[1])} : r \in e.content.refs}
Dropped(p, order) ==
    {r[1] : r \in {r \in UNION {e.content.refs : e \in p.create \union p.update} :
                      Resolve(p, order, r[1]) = {}}}

\* An update puts the bundle's text over the local one and adds its edges.
Updated_KeepText(p, order, row, e) ==
    [row EXCEPT !.hash = e.hash, !.refs = @ \union Taken(p, order, e)]
Updated(p, order, row, e) ==
    [row EXCEPT !.text = e.content.text, !.hash = e.hash,
                !.refs = {r \in row.refs : r[2] = "edge"} \union Taken(p, order, e)]
Created(p, order, e) ==
    [kind |-> e.content.kind, text |-> e.content.text, refs |-> Taken(p, order, e),
     what |-> e.what, origin |-> e.key, hash |-> e.hash]

Merged(p, order) ==
    [n \in Ids(p.inst) |->
        LET row == lib[p.inst][n]
            mine == {e \in p.update : e.key = row.origin}
        IN  IF mine = {} THEN row ELSE Updated(p, order, row, CHOOSE e \in mine : TRUE)]
Arrived(p, order) == [n \in DOMAIN order |-> Created(p, order, order[n])]

\* One transaction.
ImportApply(w) ==
    /\ proc[w].op = "import"
    /\ LET p == proc[w] IN
       \/ Collides(p.inst, p.create) /\ UNCHANGED lib
       \/ /\ ~Collides(p.inst, p.create)
          /\ \E order \in Orders(p.inst, p.create) :
                /\ Len(lib[p.inst]) + Len(order) <= Room[p.inst]
                /\ lib' = [lib EXCEPT ![p.inst] = Merged(p, order) \o Arrived(p, order)]
    /\ proc' = [proc EXCEPT ![w] = AtEase]
    /\ UNCHANGED <<disk, made, single>>

\* The process goes down in the middle of a call.
Crash(w) ==
    /\ proc[w] # AtEase
    /\ proc' = [proc EXCEPT ![w] = AtEase]
    /\ UNCHANGED <<lib, disk, made, single>>

BundleNext ==
    \/ \E i \in Instances, kind \in RecordKinds : Write(i, kind)
    \/ \E i \in Instances : \E id \in Ids(i) : Edit(i, id)
    \/ \E w \in Workers, i \in Instances, name \in BundleNames, targets \in BOOLEAN :
          \E S \in SUBSET Ids(i) : ExportGather(w, i, S, targets, name)
    \/ \E w \in Workers : ExportFiles(w) \/ ExportManifest(w) \/ ImportApply(w) \/ Crash(w)
    \/ \E w \in Workers, i \in Instances, d \in DOMAIN disk : DryRun(w, i, d)
    \/ \E w \in Workers, overwrite \in BOOLEAN :
          /\ proc[w].op = "reported"
          /\ \E skip \in SUBSET {e.key : e \in proc[w].loaded} : ImportRead(w, skip, overwrite)

BundleSpec == BundleInit /\ [][BundleNext]_bundleVars

--------------------------------------------------------------------------------
\* However the calls overlap, nothing is taken over twice under one key, nothing
\* comes back to where it was exported, and every reference of a copy is one that
\* somebody made between the records it now joins.
CopiesAreTrue(i) ==
    /\ \A m, n \in Ids(i) : lib[i][m].origin = lib[i][n].origin => m = n \/ lib[i][m].origin = NoKey
    /\ \A n \in Ids(i) : lib[i][n].origin # NoKey => lib[i][n].origin[1] # i
    /\ \A n \in Ids(i) : \A r \in lib[i][n].refs :
          r[1] \in Ids(i) /\ <<lib[i][n].what, lib[i][r[1]].what, r[2]>> \in made

\* A choice of candidates without a warning is exported without a dangling reference.
WarnedBefore(i) ==
    \A S \in SUBSET Ids(i) : \A targets \in BOOLEAN :
        Warnings(i, S) = {} => UnresolvedRefs(i, Selected(i, S, targets)) = {}

\* With one export at a time, what is recorded as unchanged is what was taken
\* over: the hash is of the text that came with it.
HashIsOfTheText(i) ==
    \A n \in Ids(i) :
        lib[i][n].origin # NoKey /\ lib[i][n].text[1] # i => lib[i][n].text = lib[i][n].hash.text

\* What a dry run finds whole is taken over whole: no reference is dropped.
DryRunForetells(w) ==
    proc[w].op = "import" /\ proc[w].foretold /\ lib' # lib /\ proc'[w] # proc[w]
    => \A order \in Orders(proc[w].inst, proc[w].create) : Dropped(proc[w], order) = {}

\* What an instance took over is a record once, with references somebody made,
\* and, one export at a time, with the text its hash was taken of; a choice that
\* draws no warning drops no reference, and nor does what a dry run found whole.
BundlesAreTrue ==
    /\ [](\A i \in Instances : CopiesAreTrue(i) /\ WarnedBefore(i) /\ (single => HashIsOfTheText(i)))
    /\ [][\A w \in Workers : DryRunForetells(w)]_bundleVars

================================================================================
