------------------------------- MODULE TagNotes -------------------------------
(***************************************************************************)
(* The notes of a domain tag: sections that decisions append, that a       *)
(* demotion moves into a material and leaves a pointer for, and markers by *)
(* which a hint keeps quiet (tag_service.py, hint_service.py).             *)
(*                                                                         *)
(* Notes are a sequence of lines: headings, pointers to materials and      *)
(* markers; the text under a heading is not told apart. Demotion and hint  *)
(* write notes that they have read before their transaction began, and so  *)
(* it is with the text of a material, which update_material may write over *)
(* (material_service.py) and which may be retracted at any time.           *)
(***************************************************************************)
EXTENDS Integers, Sequences, FiniteSets, SequencesExt

CONSTANTS Heads,     \* headings of sections
          Archives,  \* bound: the materials there will ever be
          Ceiling,   \* _TAG_NOTES_RATCHET_CEILING, in lines; bounds the notes
          LastDay,   \* bound
          Writers

\* The heading of the index of pointers is not that of a section: no decision
\* brings it, and no demotion asks for the index itself. "new" stands for the
\* material that a demotion makes when it is told of none.
TagNotesAssumption ==
    Ceiling \in Nat /\ LastDay \in Nat /\ "index" \notin Heads /\ "new" \notin Archives

VARIABLES
    notes,     \* the notes of the tag
    archive,   \* the headings that the text of each material holds
    standing,  \* of each material: "none" (not there yet), "live", "retracted"
    lost,      \* history: the materials whose text was written over (see Lost)
    pinned,    \* a material is pinned to the tag: it has been recomposed
    today,
    hinted,    \* history: the hints given today
    writing,   \* the call each writer is in, between its read and its write
    alone      \* calls do not overlap; never changes

noteVars == <<notes, archive, standing, lost, pinned, today, hinted, writing, alone>>

AtRest == [op |-> "none"]
Calm == \A w \in Writers : writing[w] = AtRest
Head1(h) == [k |-> "head", of |-> h]
Index == Head1("index")
Pointer(h, m) == [k |-> "pointer", of |-> h, to |-> m]
Marker(kind, day) == [k |-> "marker", of |-> kind, till |-> day]
Ever == LastDay + 1

NoteInit ==
    /\ notes = <<>>
    /\ archive = [m \in Archives |-> {}]
    /\ standing \in [Archives -> {"none", "live"}]
    /\ lost = {}
    /\ pinned = FALSE
    /\ today = 0
    /\ hinted = {}
    /\ writing = [w \in Writers |-> AtRest]
    /\ alone \in BOOLEAN

HeadsOf(lines) == {l.of : l \in {x \in Range(lines) : x.k = "head"}} \ {"index"}

\* The trigger of migration 0066: longer notes than the ceiling may only shrink.
Accepted(old, new) == Len(new) <= Ceiling \/ Len(new) <= Len(old)

--------------------------------------------------------------------------------
\* _split_tag_notes_layers: the trailer is the markers at the end, a section goes
\* from its heading to the next one, the preamble is what is before the first.
IsMarker(l) == l.k = "marker"
TrailerStart(ls) == CHOOSE i \in 1 .. Len(ls) + 1 :
                      /\ \A j \in i .. Len(ls) : IsMarker(ls[j])
                      /\ i = 1 \/ ~IsMarker(ls[i - 1])
Trailer(ls) == SubSeq(ls, TrailerStart(ls), Len(ls))
Body(ls) == SubSeq(ls, 1, TrailerStart(ls) - 1)

\* The positions in the body that belong to the section of a heading.
Section(ls, h) ==
    {i \in DOMAIN ls : \E j \in 1 .. i : /\ ls[j] = Head1(h)
                                          /\ \A n \in j + 1 .. i : ls[n].k # "head"}
Positions(ls, hs) == UNION {Section(ls, h) : h \in hs}
LinesAt(ls, places) ==
    [n \in 1 .. Cardinality(places) |->
        ls[CHOOSE i \in places : Cardinality({j \in places : j < i}) = n - 1]]
Without(ls, hs) == LinesAt(ls, DOMAIN ls \ Positions(ls, hs))
Once(ls, h) == Cardinality({i \in DOMAIN ls : ls[i] = Head1(h)}) = 1

--------------------------------------------------------------------------------
\* add_decisions propagates a section, in the transaction of the decision; when
\* the notes are full, the decision is made without.
Append1(h) ==
    /\ alone => Calm
    /\ Accepted(notes, Append(notes, Head1(h)))
    /\ notes' = Append(notes, Head1(h))
    /\ UNCHANGED <<archive, standing, lost, pinned, today, hinted, writing, alone>>

\* update_tag replaces the notes: a section is taken out, or a lasting marker added.
Replace ==
    /\ alone => Calm
    /\ \/ \E h \in HeadsOf(Body(notes)) : notes' = Without(Body(notes), {h}) \o Trailer(notes)
       \/ \E kind \in {"bootstrap", "delta"} :
             /\ Accepted(notes, Append(notes, Marker(kind, Ever)))
             /\ notes' = Append(notes, Marker(kind, Ever))
    /\ hinted' = {}
    /\ UNCHANGED <<archive, standing, lost, pinned, today, writing, alone>>

--------------------------------------------------------------------------------
\* demote_tag_notes: each section asked for must be there once ...
DemoteRead(w) ==
    /\ writing[w] = AtRest /\ (alone => Calm)
    /\ \E hs \in SUBSET HeadsOf(Body(notes)) \ {{}}, to \in Archives \union {"new"}, mode \in {"pointer", "drop"} :
          /\ \A h \in hs : Once(Body(notes), h)
          /\ writing' = [writing EXCEPT ![w] =
                            [op |-> IF to = "new" THEN "demote" ELSE "check", read |-> notes, heads |-> hs,
                             to |-> to, had |-> {}, mode |-> mode]]
    /\ UNCHANGED <<notes, archive, standing, lost, pinned, today, hinted, alone>>

\* ... a material to append to must be there and not retracted, and its text is
\* read, still outside the transaction ...
DemoteLook_Unchecked(w) ==
    /\ writing[w].op = "check"
    /\ LET m == writing[w].to
       IN  writing' = [writing EXCEPT ![w] =
                          IF standing[m] # "none" THEN [@ EXCEPT !.op = "demote", !.had = archive[m]] ELSE AtRest]
    /\ UNCHANGED <<notes, archive, standing, lost, pinned, today, hinted, alone>>

DemoteLook(w) ==
    /\ writing[w].op = "check"
    /\ LET m == writing[w].to
       IN  writing' = [writing EXCEPT ![w] =
                          IF standing[m] = "live" THEN [@ EXCEPT !.op = "demote", !.had = archive[m]] ELSE AtRest]
    /\ UNCHANGED <<notes, archive, standing, lost, pinned, today, hinted, alone>>

\* ... and the notes are what is left of those read, the index, with the pointers
\* it had and the new ones in the order of the sections, and the trailer.
Gone(c) == c.heads \union (IF c.mode = "pointer" THEN {"index"} ELSE {})
HeadsAt(ls, hs) == {i \in DOMAIN ls : ls[i] \in {Head1(h) : h \in hs}}
PointersTo(m, lines) == [n \in DOMAIN lines |-> Pointer(lines[n].of, m)]

Demoted_NewIndex(c, m) ==
    LET ls == Body(c.read)
        new == PointersTo(m, LinesAt(ls, HeadsAt(ls, c.heads)))
    IN  Without(ls, Gone(c)) \o (IF c.mode = "pointer" THEN <<Index>> \o new ELSE <<>>)

Demoted(c, m) ==
    LET ls == Body(c.read)
        had == LinesAt(ls, {i \in Section(ls, "index") : ls[i] # Index})
        new == PointersTo(m, LinesAt(ls, {i \in HeadsAt(ls, c.heads) :
                                                 Pointer(ls[i].of, m) \notin Range(had)}))
    IN  Without(ls, Gone(c)) \o (IF c.mode = "pointer" THEN <<Index>> \o (had \o new) ELSE <<>>)
            \o Trailer(c.read)

\* The material, which may be retracted by now, and the notes are written in one
\* transaction, or neither is when the trigger refuses the notes.
Markers(ls, places) == {ls[i].of : i \in {j \in places : IsMarker(ls[j])}}
Targets(c) == IF c.to = "new" THEN {m \in Archives : standing[m] = "none"} ELSE {c.to}

\* What a call puts in the place of a text that is no longer the one it has read
\* takes with it what others have written since.
Lost(c, m) == IF archive[m] # c.had THEN lost \union {m} ELSE lost

DemoteWrite_NoRollback(w) ==
    /\ writing[w].op = "demote"
    /\ LET c == writing[w] IN \E m \in Targets(c) :
          /\ notes' = Demoted(c, m)
          /\ IF Accepted(notes, Demoted(c, m))
             THEN archive' = [archive EXCEPT ![m] = c.had \union c.heads] /\ lost' = Lost(c, m)
             ELSE UNCHANGED <<archive, lost>>
          /\ standing' = IF c.to = "new" THEN [standing EXCEPT ![m] = "live"] ELSE standing
          /\ hinted' = hinted \ Markers(Body(c.read), Positions(Body(c.read), c.heads))
    /\ writing' = [writing EXCEPT ![w] = AtRest]
    /\ UNCHANGED <<pinned, today, alone>>

DemoteWrite(w) ==
    /\ writing[w].op = "demote"
    /\ LET c == writing[w] IN \E m \in Targets(c) :
          IF Accepted(notes, Demoted(c, m))
          THEN /\ notes' = Demoted(c, m)
               /\ archive' = [archive EXCEPT ![m] = c.had \union c.heads]
               /\ standing' = IF c.to = "new" THEN [standing EXCEPT ![m] = "live"] ELSE standing
               /\ lost' = Lost(c, m)
               /\ hinted' = hinted \ Markers(Body(c.read), Positions(Body(c.read), c.heads))
          ELSE UNCHANGED <<notes, archive, standing, lost, hinted>>
    /\ writing' = [writing EXCEPT ![w] = AtRest]
    /\ UNCHANGED <<pinned, today, alone>>

--------------------------------------------------------------------------------
\* update_material: the text it has read, with more before or after it, or another
\* text altogether; of a material that was not retracted when it was read.
ReviseRead(w) ==
    /\ writing[w] = AtRest /\ (alone => Calm)
    /\ \E m \in Archives, mode \in {"append", "overwrite"} :
          /\ standing[m] = "live"
          /\ writing' = [writing EXCEPT ![w] = [op |-> "revise", to |-> m, had |-> archive[m], mode |-> mode]]
    /\ UNCHANGED <<notes, archive, standing, lost, pinned, today, hinted, alone>>

ReviseWrite(w) ==
    /\ writing[w].op = "revise"
    /\ LET c == writing[w]
       IN  IF c.mode = "append"
           THEN archive' = [archive EXCEPT ![c.to] = c.had] /\ lost' = Lost(c, c.to)
           ELSE archive' = [archive EXCEPT ![c.to] = {}] /\ lost' = lost \union {c.to}
    /\ writing' = [writing EXCEPT ![w] = AtRest]
    /\ UNCHANGED <<notes, standing, pinned, today, hinted, alone>>

\* retract, and its undo, leave the text as it is.
RetractMaterial(m) ==
    /\ alone => Calm
    /\ \/ standing[m] = "live" /\ standing' = [standing EXCEPT ![m] = "retracted"]
       \/ standing[m] = "retracted" /\ standing' = [standing EXCEPT ![m] = "live"]
    /\ UNCHANGED <<notes, archive, lost, pinned, today, hinted, writing, alone>>

--------------------------------------------------------------------------------
\* _get_hints_for_tag: with enough decisions (left open), "bootstrap" until a
\* material is pinned and "delta" since, unless a marker is active.
Kind == IF pinned THEN "delta" ELSE "bootstrap"
Active_Until(ls, kind) == \E l \in Range(ls) : IsMarker(l) /\ l.of = kind /\ today < l.till

Active(ls, kind) == \E l \in Range(ls) : IsMarker(l) /\ l.of = kind /\ today <= l.till

HintRead(w) ==
    /\ writing[w] = AtRest /\ (alone => Calm)
    /\ ~Active(notes, Kind)
    /\ writing' = [writing EXCEPT ![w] = [op |-> "hint", read |-> notes, kind |-> Kind]]
    /\ UNCHANGED <<notes, archive, standing, lost, pinned, today, hinted, alone>>

\* _merge_cooldown_marker: the dated markers of the kind give way to one of today.
Dated(l, kind) == IsMarker(l) /\ l.of = kind /\ l.till # Ever
Cooled(ls, kind) ==
    Append(LinesAt(ls, {i \in DOMAIN ls : ~Dated(ls[i], kind)}), Marker(kind, today))

\* A write that the trigger refuses is logged, and the hint is given all the same.
HintWrite(w) ==
    /\ writing[w].op = "hint"
    /\ LET new == Cooled(writing[w].read, writing[w].kind)
       IN  IF Accepted(notes, new)
           THEN notes' = new /\ hinted' = hinted \union {writing[w].kind}
           ELSE UNCHANGED <<notes, hinted>>
    /\ writing' = [writing EXCEPT ![w] = AtRest]
    /\ UNCHANGED <<archive, standing, lost, pinned, today, alone>>

Recompose ==
    /\ alone => Calm
    /\ pinned' = ~pinned
    /\ UNCHANGED <<notes, archive, standing, lost, today, hinted, writing, alone>>

Morrow ==
    /\ today < LastDay /\ Calm
    /\ today' = today + 1
    /\ hinted' = {}
    /\ UNCHANGED <<notes, archive, standing, lost, pinned, writing, alone>>

NoteNext ==
    \/ \E h \in Heads : Append1(h)
    \/ \E w \in Writers : \/ DemoteRead(w) \/ DemoteLook(w) \/ DemoteWrite(w)
                          \/ ReviseRead(w) \/ ReviseWrite(w) \/ HintRead(w) \/ HintWrite(w)
    \/ \E m \in Archives : RetractMaterial(m)
    \/ Replace \/ Recompose \/ Morrow

NoteSpec == NoteInit /\ [][NoteNext]_noteVars

--------------------------------------------------------------------------------
\* Whatever overlaps, a pointer in the notes leads to a material that holds the
\* section it names, or that was written over by another text, or by a call that
\* had read it before others wrote it.
Leads(l) == l.k = "pointer" => l.of \in archive[l.to] \/ l.to \in lost
Pointers(lines) == {l \in Range(lines) : l.k = "pointer"}

\* One call at a time, a section leaves the notes only by being replaced or into
\* a material that is not retracted; a pointer is new only when it leads to such
\* a one, and the pointers stay when others join them; and a material holds what
\* it held unless an update overwrites it.
NothingForgotten ==
    writing' # writing =>
        /\ HeadsOf(notes) \ HeadsOf(notes') \subseteq
               UNION {archive'[m] : m \in {n \in Archives : standing'[n] = "live"}}
        /\ Pointers(notes) \subseteq Pointers(notes')
        /\ \A l \in Pointers(notes') \ Pointers(notes) :
               standing'[l.to] = "live" /\ l.of \in archive'[l.to]
        /\ \A m \in Archives :
               \/ archive[m] \subseteq archive'[m]
               \/ \E w \in Writers :
                      writing[w].op = "revise" /\ writing[w].to = m /\ writing[w].mode = "overwrite"

\* One call at a time, a hint is given once a day, though sections are appended
\* and demoted around its marker; unless the notes are too full to hold the
\* marker, are replaced, or the marker goes with the section it has come to be in.
OneHintADay ==
    \A w \in Writers :
        (writing[w].op = "hint" /\ writing'[w] = AtRest) => writing[w].kind \notin hinted

\* A pointer in the notes of a tag leads to the section, unless its material was
\* written over; one call at a time, no section is lost on the way to a material
\* and no hint given twice a day.
NotesAreKept ==
    /\ [](\A l \in Range(notes) : Leads(l))
    /\ [][alone => NothingForgotten /\ OneHintADay]_noteVars

================================================================================
