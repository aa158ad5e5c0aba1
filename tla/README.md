# parts-answer-gate: models, checks and proofs

This directory holds TLA+ models of parts-answer-gate, the configurations that check them with TLC,
and theorems about them that TLAPS checks.

The service answers maintenance questions from a corpus of manuals whose revisions, withdrawals and
corrections are dated on two axes: when a passage is *valid* for a machine, and when it was *known*.
It retrieves, decides at a gate whether it may answer at all, and only then quotes.

## Inventory

| part | code | state | operations | how it meets the others |
|---|---|---|---|---|
| effectivity rule | `domain.py`, `store/effectivity.py` | none | does a passage apply to a question | Python rule for tests, SQL fragment in all three retrieval SELECTs |
| retrieval | `retrieval/*`, `store/queries.py` | none of its own | identifier lookup, candidates, BM25, vectors, fusion, rerank | reads the chunk table in READ COMMITTED, called by the request and by the evaluation |
| gate | `gate.py` | none | signals, rules, decision | between retrieval and answerer |
| citations, answerer | `citations.py`, `answerer.py` | none | choose quotes, post-validate | reads what the gate approved and the revision labels |
| request | `api/app.py` | one session per request | `ask`, `ask_json`, `healthz` | a thread per request, beside any seed |
| loader | `store/loader.py`, `scripts/seed_index.py` | document and chunk tables | upsert documents, then chunks; embed what changed | any number of containers may run it at once |
| lifecycle probe | `store/lifecycle.py` | a savepoint | modify, re-embed, measure, roll back | drives the loader on the live tables |
| startup | `docker-entrypoint.sh`, alembic, `store/engine.py` | schema version, connections | migrate, seed, serve | a failure never stops the container; the pool serves the request |
| corpus | `corpus/builder.py` | none, seeded | plan revisions, bulletin, correction; render | writes what the loader reads |
| questions and checks | `corpus/questions.py`, `generate.py`, `identifiers.py`, `splits.py` | four files in `data/generated` | label questions, check, write file by file | written from the plan, read by freeze, build, cache |
| evaluation | `evaluation/runner.py`, `metrics.py`, `artifacts.py` | outcomes of an arm | run questions, draw the curve, compute rates and tables | drives retrieval and gate, reads the corpus's labels |
| evidence | `scripts/build_artifacts.py`, `check_artifacts_current.py`, `release_gate.py`, `plant_breaches.py` | `artifacts/*.json` | score, stamp, write, check, grade, plant | reads corpus, freeze and index; the pages render what it leaves |
| holdout | `holdout.py`, `corpus/splits.py` | a frozen file | compute, verify, freeze | decides which questions the published numbers use |
| vector cache | `retrieval/precomputed.py` | two files | write, load, look up | replaces the encoder in small containers |

What is hard here: the loader decides, embeds for minutes and then writes; two deployments seed one
database; a request is four statements over tables that a seed may replace between any two; one rule
is implemented twice in two logics; the curve is a claim about decisions never taken, made by a
hand-copied list of the gate's rules; both time axes are half open and meet on the days of handovers
and discoveries; labels are written from the plan and never from what retrieval admits; a dozen files
are written one after another by scripts that may stop, and one digest of ids has to tell which
belong together; two runs of a ranking over a table in no order must agree byte for byte.

## Modules

`Effectivity` — the rule twice. `AppliesInPython` follows `applies_in_python` and the domain model's
methods; `CandidateFilter` follows the WHERE fragment in three truth values. A row is a record of the
chunk columns, dates and serials are integers, NULL is `None`.

`Gate` — `gate.py` as operators. Text is abstracted to what the gate reads off it: the words a
question may ask for, the series that fixes the form of the section label, the heading, and the
figures. Shares are in tenths, the grain of the threshold sweep.

`Loader` — the seeders, the probe and the two tables. `CountChunks`, `UpsertDocument`, `ReadState`,
`Embed`, `WriteChunk`, `Commit` are the stretches of `main` and `load_chunks` between which another
process may act: a row upsert is one step because it may wait for a lock. Uncommitted rows are their
locks; what they will hold is computed at the commit, which is the same row, since the process alone
may write that key. `Abort` stands for every failure in a transaction, `CancelDeadlocked` for
PostgreSQL's detector, `Restart` for the container coming back.

`Evaluation` — `run_arm` question by question and `coverage_curve` point by point, for the gated
system and the ungated baseline, over any retrieval result. The decision of the gate, the hard block
and the evidence are kept as the code keeps them; the properties compare them with the gate at each
threshold. The ground truth is the code's: every revision of the family in force on the date, those
that do not support the question included.

`Figures` — what is published of an arm once its curve is drawn: rates as pairs of counts, the
attribution table, recall and the place of the first supporting passage, the table of languages, and
the gate's report. Each is an operator over the same outcomes with the denominator its function uses;
the one property of the module relates them.

`Corpus` — the plan and the rendering of one family: revisions, figures, part numbers, bulletin,
correction, and the documents with both time axes. Every seeded draw is a choice; of the part numbers
the generations are kept, counted from a first number for each topic (`FirstPart`).

`Questions` — extends `Corpus` with what is asked of it once it is built. A seed of each of the seven
kinds is a record of what the generator writes down; `BuildQuestions` is one of them. `Retrieved` is
what the evaluation's query is given by the effectivity rule, which asks for no machine when the
question is about another family; `AnsweringPassages` is what of it is about the question, for
comparison with the label. That a decoy is not answerable follows from no passage being about its family.
`ReplayHolds` and the three `...BreachCaught` are the knowledge replay of the artifacts and the
planted breaches of the dates, as conditions on a corpus.

`Evidence` — the author's workspace. A file is named by the corpus it was written from; a script that
writes several files is a job with a list of what is left, and `Interrupt` stops it between two. The
generator writes documents, chunks, questions and manifest; `precompute_embeddings` the pair of cache
files; `build_artifacts` reads the corpus, scores, reads the freeze again for its stamp, and writes
artifact by artifact. `Freeze` may run from a second terminal meanwhile, the others one at a time.
`Seed` is one step: how it may be interleaved is `Loader`'s matter. `ReleaseGate` writes the report
the pages show, whether or not the kill test started.

`Quoting` — `citations.py`, with the part numbers of `domain.py`: sentences, the window to quote, its
offsets, and their verification, on texts of letters. `Ranking` — the three stages, reciprocal rank
fusion, min-max normalisation and the rerank, in whole numbers. Fused scores are exact: `FusionScale`
is any common multiple of the denominators 60 + position. BM25 has the term frequency, the length
normalisation and the floor for common words of `BM25Okapi`, over a table `Idf` of logarithms; its
scores and the shares of the rerank (in units of `1 / ShareScale`) are rounded down. A question's
words are a set, so a word asked twice counts once. `Answering` — a question ranked twice, as the
determinism artifact does it, while the table may reorder its rows, and then answered from any
part of the result the gate may approve; the arms that remove a signal are weights of zero.

`AnswerPromise` and `Ask` — the promise to one question, and the request that has to keep it while
corpora are committed. The request's steps are its SELECTs, fusion and reranking, the gate, and the
citation. The vector search may return any part of the filtered rows, BM25 may add any candidate.
`Ask` takes the candidates SELECT to be the promise's reading.

`Startup` — several containers from the entrypoint to their replies. Each command of the script is an
action that goes on to the next whether it worked or not; the migration is a read of the version and
a transaction. A request is its statements: the connection it takes from the pool, the count of
`/healthz`, the search of the Ask page or `/api/ask`, the page's list of machines. A connection
records whether it is alive and whether the search settings are the session's or its transaction's.
How a load writes is `Loader`'s matter and how a question is answered `Ask`'s; here a load commits or
fails, and a search runs or fails. The history variable `searched` says how the last search ran, and
`excused` whether the database was away or behind during the request.

`MC*` modules give the constants; `*Proofs` modules hold the theorems.

## Runs

| run | asks | bounds |
|---|---|---|
| `loader` | are vectors true to their text, loads whole, decisions still true at the write, does every transaction end | two images sharing two of four documents, one document only withdrawn, one rewritten; empty or older index; one restart each; the probe over three chunks |
| `loader_regenerated` | do chunk dates agree with the document's | one image, two chunks, the second dropped: **violated** |
| `evaluation` | is the curve the gate's, on the evidence it would have used, and do headline, curve, tables and gate report agree | all results of up to three of six passages, three scores, exact hits, three questions of two languages of which one has no support, four thresholds, evidence and recall cut at two |
| `evaluation_rail` | is a contradiction in volts noticed | two passages of one rail: **violated** |
| `corpus` | one believed manual passage at every pair of dates, history kept, only planted contradictions, every label true, every planted breach of the dates noticed | four revisions, two gaps, discoveries before, on and after a handover, two figures, a measured topic for some machines and a part number for all, every question |
| `questions_gold` | can the passage a question was written from be retrieved | the same: **violated** |
| `evidence` | is accepted evidence of the frozen hold-out, where can a wrong vector come from, does the whole chain leave one corpus and its own verdicts on the pages | four corpora (one reworded with as many texts, one grown, one that leaks and is refused), the generator started twice, two artifacts, two kill conditions |
| `answering` | do two rankings agree, does what the stages agree on stand, do features only break ties, is an answer its quotes | any three of six passages, two distances, three questions, three arms; every stage, the result and a quote cut at two |
| `ask` | does what is shown apply, is an answer corroborated, does the request keep its promise | five questions, two corpora, up to four rows, three ranks, evidence cut at two |
| `ask_race` | can a fused id be outside the candidates | the same: **violated** |
| `startup` | does every container come to serve, does every search have its settings, is a healthy instance indexed, has every server error its cause in the database | two containers with a database of any age and one without; one outage, one restart, one request under way at a time, sent to two of the containers |
| `startup_old_schema` | is a healthy instance migrated | the same: **violated** |

Why the bounds are enough. A decision of the loader depends on one chunk and its document, so what
two loads can do to each other shows on one shared chunk with its document; the second shared one and
the private ones make lock orders differ. The gate's conflict and agreement signals relate two
passages, and a third gives the cut something to leave out. The dates of a family matter by their
order only, and the gaps and delays give each order, ties included. A request's trouble is the rows
that change between two of its statements: one that loses its part number, one that gains it, one
that comes into force, one that is corrected away and one that is new. Two requests of one container
would share nothing but the pool, where each holds a connection of its own, so one at a time keeps
the histories a connection can have; one outage leaves a connection dead under an idle and under a
busy container, and a second container is enough to migrate or load beside the first. Evidence of a corpus
can be confused with that of one other, in text or in membership, so two generations suffice. Three
passages are the least for which a feature may move one past another; `FusionScale` is then 61·62·63,
and the logarithms are in hundredths. The third question
has a word that one passage has three times. A quote crosses every edge of a text in
passages of two or three short sentences. In `answering` the vector search finds every passage; what
an approximate one may miss is `Ask`'s choice. `evidence` takes a file to be written or not: a torn
file is unreadable to every script and stops it.

Deadlock checking is off where the system really stops: all seeds done, the curve drawn, a question
of the corpus asked, the question answered. In `loader`, `EveryTransactionEnds` and
`SeedersNeverDeadlock` say what the deadlock check would.

## Fairness

`Loader`: weak fairness of each seeder's own steps and of the probe, since nothing in the scripts
waits for anything but the database; and of cancelling a deadlock, which PostgreSQL does after
`deadlock_timeout`. Failures and restarts are owed nothing. `Ask`: weak fairness of the request's
steps, a thread of its own; nobody owes the index a load. `EveryTransactionEnds` does not
assume that the encoder, a lock or a peer is lucky. `Startup`: weak fairness of each container's script and of its handlers,
which are processes nothing stops; nobody owes a container a database, a request or a restart.

## Theorems

| theorem | module | for every |
|---|---|---|
| `SqlMirrorsPython` | `GateProofs` | row the columns can hold, question, language list |
| `HandoverIsExact` | `GateProofs` | two documents, one taking over on the day the other ends |
| `AnswerIsSound`, `ReviewHasPassages` | `GateProofs` | question, result, thresholds |
| `TypeCorrect`, `VectorsDescribeTexts`, `LoadsAreWhole`, `DecisionsHold`, `EmbedsOnlyChanges`, `SeedersDoNotDeadlock`, `SeedsLeaveAnIndex`, `OnlyCommitsWrite` | `LoaderProofs` | set of images, corpora, seeders, restarts |
| `TypeCorrect`, `CurveAgreesWithGate`, `CoverageFalls`, `EvidenceIsTheAnswers`, `NoPointIsOutOfForce`, `FiguresAgree` | `EvaluationProofs` | questions, languages, results, thresholds, sweep |
| `TypeCorrect`, `ShownPassagesDoApply`, `AnswersHaveSupport`, `OnlyACommitTears`, `ServiceKeepsPromise` | `AskProofs` | questions, corpora, thresholds, top-k |
| `TypeCorrect`, `SettingsAlwaysReach`, `HealthyIsIndexed`, `ErrorsAreExplained` | `StartupProofs` | containers, outages, restarts |
| `TypeCorrect`, `AcceptedIsOfTheFreeze`, `OnlyACrashMisleads`, `ChainLeavesOne` | `EvidenceProofs` | corpora, splits, artifacts, conditions, interruptions |
| `TypeCorrect`, `OneManual`, `HistoryIsKept`, `ConflictsArePlanted`, `BreachesAreCaught`, `SeedsTellTruth` | `CorpusProofs` | number of revisions, topics, figures, gaps, delays, serial windows, part numbers |
| `TypeCorrect`, `RunsAgree`, `StagesDecide`, `AnswersAreQuotes` | `AnsweringProofs` | documents, passages, distances, questions, number of candidates, table of logarithms, stage depth, top-k, quote limits |

*The loader.* None of the claims about the tables is inductive alone. `IInv` adds three facts:
`Shape` (row columns and what is locked when), `DocumentsStayLocked` (from its read to its commit a
seeder holds the row of every document of its corpus) and `SeenIsCurrent` (what it read is what is
stored). The second gives the third: another commit that changed one of the seeder's chunks would
hold that chunk's document, which the seeder holds. This uses the assumption that a chunk's document
is in the corpus that lists the chunk, which holds because the id of a chunk is its document's and an
ordinal. Seeders do not deadlock because of `LocksInOrder`: a seeder locks documents from the lowest
up, and a chunk only when it has all its documents. Nobody then waits for a chunk, since whoever has
it has its document too; and in a set of seeders that all wait for documents, the one that waits for
the highest waits for a seeder that waits for a higher one.

*The gate.* One lemma says which rules have not fired for each outcome; the theorems read the signals
off the rules. The evidence of an answer is not empty because rule 1 has not fired.

*The evaluation.* `IInv` says what was recorded: each outcome is that of the gate on its result, and
each point drawn is the comparison on it. `PointIsTheGate` shows the hard block together with coverage
is the first-firing rule read at another threshold. The published figures follow from it by counting:
the sets that two tables count are equal or split each other, over a finite set of questions; the
language table needs that every question has one of the languages.

*The request.* The invariant carries the applicability of the candidates from the SELECT on, and that
everything ranked, approved and shown is among them; `SqlMirrorsPython` turns the WHERE fragment into
the domain rule. The refinement maps each step to a reading, a reply or a stutter. That only a commit
tears a request needs that, as long as none fell between its statements, the rows it read are those
in the table, and an id names one row of a corpus; that an answer is corroborated follows from the
gate's theorem and a support floor of two.

*The startup.* Two strengthenings carry the proof. `LiveIsConfigured`: a connection that is alive has
its settings outside any transaction, so no ending of a request can undo them. `UnexcusedIsSound`: a
request nothing has happened to found the schema at the head and keeps a live connection, so none of
its statements can fail; with it the error property, about a step, follows from the invariant. The
lemmas take the entrypoint, the ways of ending or going on with a request, and the events apart.

*The workspace.* `IInv` says of each kind of file what it can be: questions come after what they cite
(`FilesHold`), the two cache files are of one list unless their lengths differ or a precompute is, or
was, between them (`CacheHolds`), the index has its texts' vectors unless one was (`IndexHolds`), and
a build that nobody refroze under stamps what it scored (`BuildHolds`, `ArtifactsHold`). The chain has
an invariant of its own on top, `ChainHolds`, with one clause for each script that has run: a later
script keeps the earlier clauses, and what starts the chain again resets it. Its clause for the build
says which part of the list is written, since the artifacts are only current one after another.

*The corpus.* `CalendarHolds` and `DaysAreOwned` are about planning: revisions follow each other and
every day from the launch on falls to one of them, so a passage is in force on a day exactly when its
revision owns the day. `DocumentsHold` says which documents there are, without the order they came in.
The manual that is believed is then a matter of the second axis: the published document until the
discovery, the corrected one from it on. From these two lemmas follow what a question can retrieve and
what each breach changes. `SeedsTellTruth` takes the kinds one by one: an answerable question has the
documents of its own revision alone, because a topic under a bulletin is not asked about in the last
revision; a question about a withdrawn part is dated where no revision names the part, because the
numbers of a topic never go back; and a number that was not issued is named nowhere.

*The ranking.* A list is sorted when each element is at the place that the number of elements before
it gives (`Sorted`). In an order that tells any two elements apart no two have one place, so by
counting every place is taken (`PlacesAreTaken`): a sorted set is a list of it without repetition, and
there is only one. The vector search sorts places of the table and not passages;
`DenseIgnoresTheTable` shows that it returns the ids of the passages sorted by distance and id, because
the rows nearer than a row are, one for one, the passages nearer than its passage. So every stage is a
function of the set of candidates, and `IInv` can say, while rows move, that what has been worked out
so far is what would be worked out now (`StagesInv`), that every run recorded is the one result
(`RunsInv`), and in which state that holds. The two halves of `StagesDecide` follow from what the
result is. `UnanimityStands` goes from stage to stage: what a stage says of two passages is which of
its list names first (`WhatExactSays`, `WhatLexicalSays`, `WhatDenseSays`), a vote shrinks with the
rank (`VotesFollowTheOrder`), and no vote of the one ahead is smaller. A passage in the result has
a vote, so a stage with a weight lists it, is not silent about it, and gives the other strictly more
(`FusionFollowsTheStages`); features no worse keep the difference.
`FeaturesBreakTies` is arithmetic: a share is at most one (`SharesOfOne`), the weights add up to 180 of
the 200 that the pool is scaled to, and the two passages are a whole width apart. The number of
candidates is a constant like any other. What is assumed of the scales can always be had:
`ScalesExist` finds a common multiple for any number of candidates. That a BM25 score, a sum over the
words of a text, is a number is shown as a fold is read below (`SumIsOfAKind`).

*The answer.* `ReplyInv` says that a reply, once there is one, keeps its promise (`ReplyHolds`), and
`AnswerHolds` that any approval of any ranking yields one. Below it are facts about texts. The
sentences of a text are found by a recursive function, and joined quotes by a fold. Neither needs an
induction theorem: that the recursion has a solution, and that the solution has its sentences in
order, inside the text, and some if there is anything to see (`SpansEquation`, `SpansAreInOrder`), is shown by
looking at the last offset where it fails, which the offsets after it rule out (`DownFromTheEnd`); a
fold is read from the first place where it fails (`UpFromTheStart`). Windows are then finitely many
and compared by an order, so one is chosen (`QuoteIsAWindow`), and a window past the cap is one
sentence, also when it is read again by itself (`OneSentence`). A quote is a slice of a passage and
the passage a slice of its document, so the sum of the offsets finds it (`SliceOfSlice`,
`CitationHolds`). `NoNumberArises` is the reason for a line end between quotes: no part number
reaches across it, and none begins or ends at it that did not at the edge of its quote.

What the constants are assumed to be is stated where they are declared, and each run evaluates it:
corpora are finite lists with ids that name one row (the primary key); an image has a corpus in it, as
the Dockerfile builds it; retrieval returns finite results; every question is in a language of the
table; the support floor is at least two (`DEFAULT_MIN_SUPPORTING_CHUNKS`), in `Ask` alone; gaps and
delays are at least a day; a serial window is bounded on both sides or none (`_serials`); no number is
issued to two topics, which `_collect_parts` stops the build for; passages are finitely many, with ids
that name one, at whole distances; a passage's offsets hold its text in its document
(`_check_offsets`, which stops the build otherwise); and Python's `None` is none of the things it
stands in for the absence of. The scales of `Ranking` are the model's own: `FusionScale` is
a common multiple of the denominators for as many candidates as there are, and the logarithms are
whole numbers.

Every safety property of the passing runs is a theorem. Only model-checked is liveness
(`EveryQuestionGetsAReply`, `EveryTransactionEnds`, `EveryContainerServes`), which the prover has no
rules for.

## Divergences found

- A chunk that a regenerated corpus no longer has is never deleted and keeps its document's old dates
  (`loader_regenerated`). The test that `domain.py` says asserts agreement does not exist.
- Volts are rendered by the catalogue and absent from `MEASUREMENT_UNITS` (`evaluation_rail`).
- A question written from a passage that has been corrected since cites the passage that is no longer
  believed; the evaluation's query names no knowledge date and can never retrieve it
  (`questions_gold`).
- The pipeline says a fused id outside the candidates cannot happen; a seed that commits between two
  SELECTs makes it happen (`ask_race`). The request then fails, and nothing wrong is shown.
- The entrypoint logs that `/healthz` will report a failed migration; it counts rows, and an old
  schema has rows (`startup_old_schema`).

Met while modelling, without a run of their own:

- A bulletin's label `B.2` is not matched by the pattern described as matching it (`gate.py:217`), so
  its passages conflict with any figure of the same unit. The gate then asks a person, which is safe.
- `metrics.py:116` says the in-force set is empty for a question the corpus cannot answer;
  `build_artifacts.py` fills it with every revision of the family, so answering such a question is not
  "wrong". `unsupported_answer_rate` and kill condition E count those answers instead.
- `metrics.py:413` says kill condition I is graded on abstentions alone; `artifacts.py` grades what is
  withheld, reviews included, and says so.
- `release_gate.py` says the gate cannot be reported when the kill test did not run; the report is
  written before that, and with nothing run nothing has failed: it says PASSED, and so do the pages.
  The report is not stamped either, so a rebuild leaves old verdicts beside new figures until the
  gate is run again, which `ChainLeavesOneCorpus` is about.
- `_fallback_span` in `citations.py`, with its cap, is for a passage without a sentence; every passage
  that is not blank has one, so a long line is quoted whole, past `MAX_QUOTE_CHARS`.
- The arm `dense_only` gives the identifier stage no vote, but the rerank still adds the feature of an
  exact hit.
- `bm25.py` takes a score of zero for "no overlap"; among one or two candidates a word that all of
  them have scores zero or less, and the stage is silent.
- `_groundedness` verifies the citations of answers and not those of reviews. `AnswerIsItsQuotes`
  covers both.

## Not modelled, and why

- Text: tokenising, folding, templates, phrases, languages. What the gate reads off a passage is part
  of `Gate`; how it is read is data.
- What has no state and no rule about another part: nDCG, default thresholds, the abstractive port, the
  disclosure text, the breaches planted in SQL and in citations, timings, the thresholds of the twelve
  kill conditions. Floating-point rounding of scores is left out; a tie is a tie.
- Pages that render artifacts, settings read from the environment, the EXPLAIN diagnostics, the
  Qdrant comparison and the scripts that drive the service: no state of their own.
- Reports and timings (`LoadReport`, the lifecycle figures): nothing depends on them.

## Plan

Done: all the parts of the inventory, and a proof of every safety property of the passing runs. Left:

1. Lemmas that `EvaluationProofs`, `AskProofs` and `AnsweringProofs` each prove about cardinalities and
   slices, in one place.
2. Liveness of the loader under the lock order, which a ranking argument on paper gives and the prover
   cannot check.
