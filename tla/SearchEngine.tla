------------------------------ MODULE SearchEngine ------------------------------
(***************************************************************************)
(* The search pipeline (search/engine.py with the phases of level1 and     *)
(* level2, store/query.py): what one request reads from the vector store,  *)
(* phase by phase, while other writers change it, and the ranked answer it *)
(* makes of that.                                                          *)
(*                                                                         *)
(* A paper is a number, its place in the order of the arXiv IDs, and a     *)
(* chunk is <<paper, chunk_idx>>.  What the embedding model and BM25 say   *)
(* of a query is external: a query is the scores that it gives to papers   *)
(* and chunks.  A score is a fraction <<n, d>>.                            *)
(***************************************************************************)
EXTENDS Integers, Sequences, SequencesExt, FiniteSets, FiniteSetsExt

CONSTANTS
    Requests,          \* request |-> SearchRequest
    Queries,           \* the queries that a request may stand for
    Histories,         \* what the collections may have held, in turn, when a search ends
    FusedScores,       \* the numbers that the score fusion may come to
    PaperCandidates,   \* search_paper_candidate_top_k
    CoarseTopK,        \* bm25_coarse_top_k
    RefineTopK,        \* dense_refine_top_k
    RrfK,              \* search_rrf_k; both of its weights are 1/2
    Beta               \* search_position_weight_beta, in tenths

\* level 3 is not implemented.  filtered: by categories, authors or dates.
ASSUME EngineConstants ==
    /\ \A r \in DOMAIN Requests :
         Requests[r] \in [level : {1, 2}, strategy : {"none", "fast", "hybrid_fusion"},
                          fusion : BOOLEAN, filtered : BOOLEAN, ids : SUBSET Nat,
                          top_k : Nat \ {0}]
    /\ {PaperCandidates, CoarseTopK, RefineTopK} \subseteq Nat \ {0}
    /\ {RrfK, Beta} \subseteq Nat

\* What the collections hold is finite and has a score for every query; the filters pass rows.
ASSUME CollectionConstants ==
    /\ FusedScores \subseteq Int
    /\ \A history \in Histories : \A i \in DOMAIN history :
         /\ history[i].papers \subseteq Nat /\ IsFiniteSet(history[i].papers)
         /\ history[i].fit \subseteq history[i].papers
         /\ IsFiniteSet(history[i].chunks) /\ \A c \in history[i].chunks : c[2] \in Nat
         /\ \A query \in Queries :
              /\ \A p \in history[i].papers : p \in DOMAIN query.paper /\ query.paper[p] \in Int
              /\ \A c \in history[i].chunks : query.bm25[c] \in Int /\ query.chunk[c] \in Int

\* level2/phases.py: the chunks of a paper that count, and those that are shown;
\* alpha, the share of the best one, is 1/2.
TopChunks == 5
EvidenceChunks == 3

-----------------------------------------------------------------------------
(* Scores and rankings.                                                    *)

Above(a, b) == a[1] * b[2] > b[1] * a[2]
Same(a, b) == a[1] * b[2] = b[1] * a[2]
Plus(a, b) == <<a[1] * b[2] + b[1] * a[2], a[2] * b[2]>>

Cut(seq, n) == SubSeq(seq, 1, IF Len(seq) < n THEN Len(seq) ELSE n)

\* A sort: an arrangement of the keys in which none comes after one that it precedes.
Arranged(keys, precedes) ==
    CHOOSE seq \in SetToSeqs(keys) :
        \A i, j \in DOMAIN seq : i < j => <<seq[j], seq[i]>> \notin precedes

\* The keys by their scores; the database and sorted() break ties in some way.
Ranked(scores) ==
    LET keys == DOMAIN scores
    IN  Arranged(keys, {p \in keys \X keys : Above(scores[p[1]], scores[p[2]])})

Place(seq, x) == CHOOSE i \in DOMAIN seq : seq[i] = x

\* What the store finds: the best n of those keys.
Nearest(keys, score, n) == Cut(Ranked([x \in keys |-> <<score[x], 1>>]), n)

PapersOf(hits) == {hits[i].paper : i \in DOMAIN hits}

-----------------------------------------------------------------------------
(* Level 1: EmbedPhase, AnnSearchPhase, FusionPhase.                       *)

\* _build_filter; the hybrid search has no filter by IDs, and is used when there are none.
Matching(asked, store) ==
    {p \in store.papers : /\ asked.filtered => p \in store.fit
                          /\ asked.ids # {} => p \in asked.ids}

TopCandidates(asked) ==
    IF asked.top_k > PaperCandidates THEN asked.top_k ELSE PaperCandidates

PaperSearch(asked, query, store) ==
    Nearest(Matching(asked, store), query.paper, TopCandidates(asked))

\* rerank_candidates: five features, each normalised over the candidates, weighed, and a
\* penalty for short abstracts.  A failure of the fusion keeps the order of the search.
Scorings(asked, query) ==
    {query.paper} \cup
        (IF asked.fusion /\ asked.strategy # "fast" THEN [DOMAIN query.paper -> FusedScores] ELSE {})

\* One candidate keeps its score.
Reranked(papers, query, scoring) ==
    LET score == IF Len(papers) > 1 THEN scoring ELSE query.paper
    IN  Ranked([p \in ToSet(papers) |-> <<score[p], 1>>])

Hits(papers, scores) == [i \in DOMAIN papers |-> [paper |-> papers[i], score |-> scores[papers[i]]]]

LevelOne(papers, query, scoring) ==
    LET score == IF Len(papers) > 1 THEN scoring ELSE query.paper
    IN  [hits     |-> Hits(papers, [p \in ToSet(papers) |-> <<score[p], 1>>]),
         evidence |-> << >>]

-----------------------------------------------------------------------------
(* Level 2: ChunkSearchPhase, MaxPAggregationPhase, RRFFusionPhase.        *)

Candidates(query, store) == {c[1] : c \in ToSet(Nearest(store.chunks, query.bm25, CoarseTopK))}

\* Mutant of Eligible: the filters are left to the search of papers.
AnyCandidate(asked, papers, store) == papers

\* With filters, the candidates are looked up by them.
Eligible(asked, papers, store) == IF asked.filtered THEN papers \cap store.fit ELSE papers

Refined(query, papers, store) ==
    ToSet(Nearest({c \in store.chunks : c[1] \in papers}, query.chunk, RefineTopK))

\* Later chunks of a paper count for more, by their place among those that were found.
Weighted(c, chunks, score) ==
    LET last == Max({d[2] : d \in {e \in chunks : e[1] = c[1]}})
    IN  IF last = 0 THEN <<score[c], 1>>
        ELSE <<score[c] * (10 * last + Beta * c[2]), 10 * last>>

\* The chunks of each paper, best first.
ByPaper(chunks, scores) ==
    [p \in {c[1] : c \in chunks} |-> Ranked([c \in {d \in chunks : d[1] = p} |-> scores[c]])]

\* Half of the best one and half of the mean of the best five.
Blended(best, scores) ==
    LET all == FoldLeft(LAMBDA sum, c : Plus(sum, scores[c]), <<0, 1>>, best)
        top == scores[best[1]]
    IN  Plus(<<top[1], 2 * top[2]>>, <<all[1], 2 * all[2] * Len(best)>>)

\* Half of 1 / (k + rank) for each of the two rankings that the paper is in.
Reciprocal(ranking, p) ==
    IF p \in ToSet(ranking) THEN <<1, 2 * (RrfK + Place(ranking, p))>> ELSE <<0, 1>>

\* A paper that only its chunks have found is dropped when it has no row.
Merged(papers, chunks, store) ==
    LET both == papers \o SetToSeq((ToSet(chunks) \ ToSet(papers)) \cap store.papers)
    IN  Hits(both, [p \in ToSet(both) |-> Plus(Reciprocal(papers, p), Reciprocal(chunks, p))])

\* Mutant of LevelTwo: what fails in level 2 is answered by level 1.
LevelTwoOrOne(asked, query, papers, store) ==
    LevelOne(papers, query, query.paper)

\* store: what it holds at each of the calls.
LevelTwo(asked, query, papers, store) ==
    LET eligible == Eligible(asked, Candidates(query, store["coarse"]), store["eligible"])
        chunks   == Refined(query, eligible, store["refine"])
        scores   == [c \in chunks |-> Weighted(c, chunks, query.chunk)]
        own      == ByPaper(chunks, scores)
        ranked   == Ranked([p \in DOMAIN own |-> Blended(Cut(own[p], TopChunks), scores)])
    IN  [hits     |-> Merged(papers, ranked, store["fusion"]),
         evidence |-> [p \in DOMAIN own |-> Cut(own[p], EvidenceChunks)]]

-----------------------------------------------------------------------------
(* SearchEngine.search.  It changes nothing: an answer is a function of    *)
(* what the collections held at each of its calls.  A search is eventually *)
(* consistent and may see what they held before; look-ups by ID are        *)
(* strongly consistent.                                                    *)

Calls == {"papers", "coarse", "eligible", "refine", "fusion"}

ReadsOf(history) ==
    {v \in [Calls -> DOMAIN history] : v["eligible"] <= v["fusion"]}

\* Mutant of Before: equal scores are left in the order of the store.
BeforeByScore(g, h) == Above(g.score, h.score)

\* _sanitize_and_sort_candidates.
Before(g, h) ==
    \/ Above(g.score, h.score)
    \/ Same(g.score, h.score) /\ g.paper < h.paper

\* _build_hits: no more than top_k, each with its evidence.
Built(asked, found) ==
    LET hits  == found.hits
        keys  == DOMAIN hits
        order == Arranged(keys, {p \in keys \X keys : Before(hits[p[1]], hits[p[2]])})
        best  == Cut([i \in DOMAIN hits |-> hits[order[i]]], asked.top_k)
    IN  [hits     |-> best,
         evidence |-> [p \in PapersOf(best) \cap DOMAIN found.evidence |-> found.evidence[p]]]

Answered(asked, query, history, v, scoring) ==
    LET papers == Reranked(PaperSearch(asked, query, history[v["papers"]]), query, scoring)
        found  == IF asked.level = 1 THEN LevelOne(papers, query, scoring)
                  ELSE LevelTwo(asked, query, papers, [call \in Calls |-> history[v[call]]])
    IN  Built(asked, found)

\* The answers that a request may get, each with what the collections held, and with the
\* answer to the same request for one paper more.
Outcomes(asked) ==
    UNION {UNION {
        {LET got    == Answered(asked, query, history, v, scoring)
             longer == Answered([asked EXCEPT !.top_k = @ + 1], query, history, v, scoring)
         IN  [hits |-> got.hits, evidence |-> got.evidence, longer |-> longer.hits, held |-> history] :
            v \in ReadsOf(history), scoring \in Scorings(asked, query)} :
        query \in Queries} : history \in Histories}

OutcomesOf == [r \in DOMAIN Requests |-> Outcomes(Requests[r])]

-----------------------------------------------------------------------------
(* Properties of an answer.                                                *)

\* "Sanitize, deterministically order, then truncate": no paper comes twice, no two hits are
\* in an order that the next search could change, and there are no more than asked for.
Ordered(asked, answer) ==
    LET hits == answer.hits
    IN  /\ Len(hits) <= asked.top_k
        /\ \A i, j \in DOMAIN hits : i < j =>
              \/ Above(hits[i].score, hits[j].score)
              \/ Same(hits[i].score, hits[j].score) /\ hits[i].paper < hits[j].paper

\* Whichever path has found a paper, it passed the filters of the request at some time, also
\* when it is written to while the search runs.  (The IDs of a command-line search do not bind
\* its chunk path.)
Fits(asked, answer) ==
    \A p \in PapersOf(answer.hits) : \E store \in ToSet(answer.held) :
        /\ p \in store.papers
        /\ asked.filtered => p \in store.fit
        /\ asked.ids # {} /\ asked.level = 1 => p \in asked.ids

\* "Every paper receives the same RRF-derived score": a thorough answer is never that of
\* level 1, whatever fails in level 2, and shows at most three chunks for a paper, its own.
Thorough(asked, answer) ==
    asked.level = 2 =>
        /\ \A i \in DOMAIN answer.hits : ~Above(answer.hits[i].score, <<1, RrfK + 1>>)
        /\ \A p \in DOMAIN answer.evidence :
              /\ Len(answer.evidence[p]) \in 1..EvidenceChunks
              /\ \A c \in ToSet(answer.evidence[p]) : c[1] = p

\* "Fixed recall depth keeps ranking stable when callers change response size."
SizeOnlyCuts(asked, answer) ==
    asked.top_k < PaperCandidates => answer.hits = Cut(answer.longer, asked.top_k)

Sound(asked, answer) ==
    /\ Ordered(asked, answer)
    /\ Fits(asked, answer)
    /\ Thorough(asked, answer)
    /\ SizeOnlyCuts(asked, answer)

=============================================================================
