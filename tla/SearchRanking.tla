----------------------------- MODULE SearchRanking -----------------------------
(***************************************************************************)
(* A search (search_service.py): three retrievers, the merge of their      *)
(* lists by reciprocal rank, recency, the demotion of what has only        *)
(* archived tags, and the page.                                            *)
(*                                                                         *)
(* What a library holds and what a search asks are chosen at first; words, *)
(* similarity and bm25 are left open, so a search has every answer that    *)
(* some texts give.                                                        *)
(***************************************************************************)
EXTENDS Integers, Sequences, FiniteSets, SequencesExt, FiniteSetsExt

CONSTANTS Items,       \* what search_index holds, in the order of its ids: numbers
          Labels,      \* tags
          Limit,       \* the hits on a page
          Multiplier,  \* FETCH_LIMIT_MULTIPLIER
          Pages        \* bound: the pages asked for

SearchRankingAssumption ==
    /\ Items \subseteq Nat /\ IsFiniteSet(Items) /\ IsFiniteSet(Labels)
    /\ Limit \in Nat \ {0} /\ Multiplier \in Nat \ {0} /\ Pages \in Nat \ {0}

VARIABLES
    labels,    \* the tags of each item, its topic's among them
    archived,  \* the archived tags
    old,       \* the items that recency has brought down to its floor
    asked,     \* the search: its tag filter, its words, its page
    answer     \* what it found

rankVars == <<labels, archived, old, asked, answer>>

Unanswered == [fts |-> <<>>, vec |-> <<>>, tag |-> <<>>, all |-> <<>>, hits |-> <<>>, why |-> "unanswered"]

\* Words: "long" is of three letters or more, "short" of two; one or several,
\* joined by AND or OR. like: the tags whose name a word (or all of them) is in.
\* server: an embedding server answers.
Questions ==
    [filter : {f \in SUBSET Labels : Cardinality(f) <= 2}, mode : {"and", "or"},
     long : BOOLEAN, like : SUBSET Labels, server : BOOLEAN, page : 0 .. Pages - 1]

RankInit ==
    /\ labels \in [Items -> SUBSET Labels]
    /\ archived \in SUBSET Labels
    /\ old \in SUBSET Items
    /\ asked \in Questions
    /\ answer = Unanswered

FetchLimit == (asked.page * Limit + Limit) * Multiplier
Lesser(m, n) == IF m < n THEN m ELSE n
Take(s, n) == [r \in 1 .. Lesser(Len(s), n) |-> s[r]]

\* _build_tag_filter_cte: as many of the tags asked for as were asked for.
Filtered(S) == {i \in S : asked.filter \subseteq labels[i]}

--------------------------------------------------------------------------------
\* fts_retrieve: the filter is part of the query, the best FetchLimit are kept.
\* In AND mode one short word rules FTS out, in OR mode a long word suffices, and
\* may be one that the embedding server added (_expand: the names of similar tags).
FtsLists ==
    IF asked.long \/ (asked.mode = "or" /\ asked.server)
    THEN UNION {SetToSeqs(S) : S \in {S \in SUBSET Filtered(Items) : Cardinality(S) <= FetchLimit}}
    ELSE {<<>>}

\* vector_retrieve: the FetchLimit nearest of all, then the filter; None without
\* an embedding server. In OR mode each word has its nearest, merged by distance.
Nearest == {S \in SUBSET Items :
               \/ Cardinality(S) = Lesser(FetchLimit, Cardinality(Items))
               \/ asked.mode = "or" /\ Cardinality(S) >= Lesser(FetchLimit, Cardinality(Items))}
VecLists == IF asked.server THEN UNION {SetToSeqs(Filtered(S)) : S \in Nearest} ELSE {<<>>}

\* tag_like_retrieve: the tags of that name, of those in the filter if there is
\* one; the items that have any of them, the latest first.
Latest(found) ==
    {Take(s, FetchLimit) : s \in {s \in SetToSeqs(found) : \A q, r \in DOMAIN s : q < r => s[q] > s[r]}}

TagLists_Unfiltered == Latest({i \in Items : labels[i] \intersect asked.like # {}})

TagLists ==
    LET ids == IF asked.filter = {} THEN asked.like ELSE asked.like \intersect asked.filter
    IN  Latest({i \in Items : labels[i] \intersect ids # {}})

--------------------------------------------------------------------------------
\* Where an item is in a list, first if it is there twice; behind it if it is not.
Place(list, i) ==
    IF i \notin Range(list) THEN Len(list) + 1
    ELSE CHOOSE r \in DOMAIN list : list[r] = i /\ \A q \in 1 .. r - 1 : list[q] # i

\* 61/(60+rank) in thousandths, 0 for what is not in the list.
RRF_K == 60
Points(list, i) ==
    IF i \notin Range(list) THEN 0 ELSE ((RRF_K + 1) * 1000) \div (RRF_K + Place(list, i))

\* _compute_adaptive_weights, in tenths: the fewer FTS hits for each of the
\* vector's, the less they weigh.
Weights(fts, vec) ==
    CASE vec = 0 -> [fts |-> 10, vec |-> 10]
      [] vec > 0 /\ fts * 5 < vec -> [fts |-> 5, vec |-> 15]
      [] vec > 0 /\ fts * 5 >= vec /\ fts * 2 < vec -> [fts |-> 8, vec |-> 12]
      [] OTHER -> [fts |-> 10, vec |-> 10]

\* _rrf_merge, to four digits.
Merged(fts, vec, tag) ==
    LET w == Weights(Len(fts), Len(vec))
        full == w.fts + w.vec + (IF tag = <<>> THEN 0 ELSE 5)
    IN  [i \in Range(fts) \union Range(vec) \union Range(tag) |->
           (10 * (w.fts * Points(fts, i) + w.vec * Points(vec, i) + 5 * Points(tag, i))) \div full]

\* Python's sort is stable: what came first stays first among equals. What is
\* there twice has one entry, where it was first.
Sorted(seq, score) ==
    {s \in SetToSeqs(Range(seq)) :
        \A q, r \in DOMAIN s : q < r =>
            \/ score[s[q]] > score[s[r]]
            \/ score[s[q]] = score[s[r]] /\ Place(seq, s[q]) < Place(seq, s[r])}

\* _apply_recency_boost and _apply_archived_demotion, in percent.
Recency(i) == IF i \in old THEN 15 ELSE 100
AllArchived(i) == labels[i] # {} /\ labels[i] \subseteq archived
Demotion_Any(i) == IF labels[i] \intersect archived # {} THEN 30 ELSE 100
Demotion(i) == IF AllArchived(i) THEN 30 ELSE 100

Reranked(kept, merged) ==
    LET recent == [i \in DOMAIN merged |-> merged[i] * Recency(i)]
        final == [i \in DOMAIN merged |-> recent[i] * Demotion(i)]
    IN  UNION {Sorted(s, final) : s \in Sorted(kept, recent)}

Ranked(fts, vec, tag) ==
    LET merged == Merged(fts, vec, tag)
    IN  UNION {Reranked(Take(s, FetchLimit), merged) : s \in Sorted(fts \o vec \o tag, merged)}

Page(all) == [r \in 1 .. Lesser(Limit, Len(all) - asked.page * Limit) |-> all[asked.page * Limit + r]]

\* _retrieve refuses a search that no retriever can answer.
Search ==
    /\ answer = Unanswered
    /\ \E fts \in FtsLists, vec \in VecLists, tag \in TagLists :
          IF ~asked.long /\ ~asked.server /\ tag = <<>>
          THEN answer' = [Unanswered EXCEPT !.why = "too short"]
          ELSE \E all \in Ranked(fts, vec, tag) :
                  answer' = [fts |-> fts, vec |-> vec, tag |-> tag, all |-> all, hits |-> Page(all),
                             why |-> "found"]
    /\ UNCHANGED <<labels, archived, old, asked>>

RankNext == Search

RankSpec == RankInit /\ [][RankNext]_rankVars

--------------------------------------------------------------------------------
Answered == answer.why = "found"

\* x is ranked no worse than y by every list, is no older and no more archived.
NoWorse(x, y) ==
    /\ \A list \in {answer.fts, answer.vec, answer.tag} : Place(list, x) <= Place(list, y)
    /\ x \in old => y \in old
    /\ AllArchived(x) => AllArchived(y)

\* What is no worse by any measure comes first: the merge, the weights, the cut
\* before recency, the two sorts and the demotion do not turn the order around,
\* and do not lose the better of two hits.
BetterComesFirst ==
    Answered =>
        \A y \in Range(answer.all) : \A x \in Items \ {y} :
            /\ NoWorse(x, y)
            /\ \E list \in {answer.fts, answer.vec, answer.tag} : x \in Range(list)
            => x \in Range(answer.all) /\ Place(answer.all, x) < Place(answer.all, y)

\* A hit is found once, and with a filter of one tag it has that tag, though the
\* tags of the filter and those of the words are looked for apart.
HitsAreAskedFor ==
    Answered =>
        /\ \A i, j \in DOMAIN answer.hits : answer.hits[i] = answer.hits[j] => i = j
        /\ Cardinality(asked.filter) <= 1 => \A i \in Range(answer.hits) : asked.filter \subseteq labels[i]

\* What matches better comes first, unless it was brought down, and every hit has
\* the tag that was asked for (search_service.py, search).
AnswersAreRanked == BetterComesFirst /\ HitsAreAskedFor

\* The tags of a filter are joined by AND.
FilterMeansAnd ==
    Answered => \A i \in Range(answer.hits) : asked.filter \subseteq labels[i]

================================================================================
