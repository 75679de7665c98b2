# A TLA+ model of MADlib 0.3

MADlib is a library of analytics that runs inside a PostgreSQL or Greenplum
server.  This directory holds specifications of the parts of it whose
correctness depends on order, distribution or failure, the TLC configurations
that check them on small instances, and proofs checked by TLAPS.  All paths
below are relative to the repository's root, `src/`.

    tlc -config <run>.cfg <MC module>.tla      checks one run (see "Runs")
    tlapm <M>.tla                              checks the proofs of a module (see "Proofs")

## 1. The system

A user never starts MADlib: an operator installs it into a schema of a database
with the command-line tool **madpack**, and from then on it is a set of SQL
functions and aggregates.  Behind each of them is C, C++, PL/Python or PL/pgSQL.

An *aggregate* is a transition function folded over rows.  On Greenplum each
segment folds its own rows and the master folds the segments' transition values
with a merge function, in the order in which they arrive; the transition value
is a byte string or an array that the functions read and overwrite in place.
This is where the library is concurrent: which rows meet on a segment, in which
order, and in which order segments are merged is up to the server, and must not
matter.

A *driver* is a PL/Python or PL/pgSQL function that runs SQL in a loop and keeps
its state in tables between the iterations.

| component | source | state | operations | what is hard | what makes it correct |
|---|---|---|---|---|---|
| madpack installer | `src/madpack/madpack.py` | schemas, `migrationhistory`, module objects, install-check users and schemas in the database; version, case and position in the tool | install/update, reinstall, uninstall, install-check, version | many transactions, no transaction around them; failing statements, death of the tool, prompts, a rollback that may fail | an installation is only lost if uninstalled; a report is true; a check cleans up |
| configuration of modules | `configyml.py`, `sort-module.py`, `Modules.yml` | none | read, order by dependency | | a module after those it needs |
| FM sketch | `methods/sketch/.../fm.c` | transition value: sortasort while small, bitmaps when big | trans, merge, final | four combinations in a merge, conversion at the limit | depends on the set of values alone |
| sortasort | `sortasort.c`, `fm.c` | directory part sorted, storage area | find, insert, grow | search split between a sorted front and an unsorted tail | implements a bounded set |
| CountMin sketch | `countmin.c`, `countmin.py_in` | 64 levels of counters | trans, merge, range count, centile, two histograms | ends of the integer range, signs, rounding | counts never low, exact without collisions; histograms are partitions |
| MFV sketch | `mfvsketch.c` | CountMin sketch, list of values and counts, storage area | trans, merge, final | list updated from one value at a time; bytes overwritten in place | the list is the top of the table; bytes never overlap |
| sketch support | `sketch_support.c` | none | bit and byte operations, md5 | | |
| k-means | `kmeans.py_in`, `kmeans.c` | point tables, centroid table | seed, assign, update, stop | seeding may draw too few; fixed temporary names | terminates; each point has its nearest centroid |
| logistic regression | `logistic.py_in`, `logistic.cpp` | table of states per iteration; a state is an array that is copied between iterations, segments and merges | driver loop, IRLS, CG, IGD steps | the first iterations are special; sums of one iteration must not leak into the next; models of segments are averaged pairwise | an iteration sees every row once, with the coefficients of the last one; the loop ends |
| association rules | `assoc_rules.sql_in` | temporary itemset tables | Apriori iterations, rules | sets identified by hash; candidates pruned by joins with what is found so far; thresholds | finds exactly the frequent sets and the confident rules |
| parallel LDA | `plda.py_in`, `plda.c` | two corpus tables taking turns, three kinds of counts | sample, count, publish; label | counts and assignments must agree, from all segments and between two tables | documents are drawn by, and the model has, the counts of the assignment |
| sparse vectors | `methods/svec` | run-length encoded vectors; an aggregate state with spare room | reading, casts, element access, slices, arithmetic, comparison, median, `svec_agg` | runs of two vectors in step; words of different lengths; a word overwritten in place | the same as on plain arrays; the encoding stays readable |
| rank tests | `modules/stats/*_test.cpp` | counts and rank sums of an ordered stream | ordered transition, final | ties come in any order, and are recognised late | independent of the order of ties |
| linear regression, t, F, chi-squared tests, analysis of variance | `linear.cpp`, `t_test.cpp`, `chi_squared_test.cpp`, `one_way_anova.cpp` | sums, per group in the last one | transition, merge, final | what a row or segment adds depends on sums of the others; empty segments; contradicting rows that meet late | the result is that of one pass over all rows |
| array operations | `methods/array_ops` | none between calls | element by element, over a null bitmap and untyped memory | shapes, NULLs, integer widths | the function of the elements |
| decision trees, random forests | `methods/cart` | trees in tables | build, prune, classify | size | |
| online SVM | `methods/kernel_machines` | support vectors in an array | update, predict | floating point | |
| matrix factorisation, conjugate gradient | `svdmf.py_in`, `conjugate_gradient.sql_in` | tables of vectors | iterate | floating point, step control | |
| naive Bayes, quantiles, profile, Viterbi | `bayes.py_in`, ... | none between calls | | | |
| C++ abstraction layer | `ports/postgres/dbconnector`, `dbal` | memory contexts, error stack | convert, allocate, call | backend errors (longjmp) against C++ exceptions | no error crosses the wrong way |
| compatibility SQL, vendored code, build, documentation | | | | | |

How they interact: madpack runs the SQL files of the modules, which define
functions that load one shared library; `profile.py_in` calls the sketch
aggregates; `assoc_rules` and `kmeans` call `svec`; the regression driver calls
C++ through the abstraction layer; FM uses sortasort, and MFV uses CountMin,
directly.  Otherwise modules share nothing but the server.

`PROJECT.json` lists every component with its status, and under `hazards` what is
hard to test in each, with its line and the properties that would notice.

## 2. The modules

| module | models |
|---|---|
| `Madpack` | the installer, statement by statement |
| `MadpackAtomic` | what it promises: a command takes effect at once or not at all |
| `MadpackRefines` | the refinement mapping between the two |
| `MadpackProofs` | theorems: types, invariants, the refinement |
| `SortAsort` | `sortasort.c` with the growing insert of `fm.c` |
| `Dictionary` | what it promises: a bounded set |
| `SortAsortProofs` | theorems about the two |
| `FMSketch` | `fm.c`, both stages of the aggregate |
| `FMSketchProofs` | theorems about it |
| `CountMin` | one array of counters with its operations |
| `DyadicRanges` | the range arithmetic of `countmin.py_in` |
| `CMSketch` | `countmin.c` and the queries, over the two above |
| `CMSketchProofs` | theorems about it |
| `MFVSketch` | `mfvsketch.c`, over `CountMin` |
| `MFVSketchProofs` | theorems about it |
| `Values` | elements of a sparse vector and the arithmetic of operators.c and SparseData.h on them |
| `RunLength` | `SparseData.h`, `SparseData.c`: the encoding and the walks over it |
| `Selection` | the randomised partitioning behind the median |
| `Svec` | the type and its functions (`operators.c`, `sparse_vector.c`, `gp_sfv.c`), over the three above |
| `DenseVectors` | what it promises: arrays |
| `SqlValues` | NULL and exceptions, shared by the next three |
| `HypothesisTests` | the aggregates of `modules/stats` |
| `Regression` | the aggregates of `modules/regress` |
| `ArrayOps` | the functions of `array_ops.c` |
| `Queries` | a query over the three above: rows on segments, merges, and the driver of logistic regression |
| `AssocRules` | `assoc_rules`: the Apriori loop over tables |
| `AssocRulesProofs` | theorems about it |
| `PLDA` | `plda_train` and the labelling of documents |
| `Session` | one session that calls a query, `assoc_rules` or parallel LDA: the composition of `Queries`, `AssocRules` and `PLDA` |
| `SessionProofs` | theorems about it |
| `Recursion` | lemmas about finite sets, induction, recursive functions and sums |
| `MC...` | instances for TLC: constants only |

### Madpack

*State.*  `db` maps a schema name to what the schema holds, or `NoSchema`: the
`migrationhistory` table with its rows in order, for each module the version its
objects are of (`Absent`, or `Broken` when a file stopped half way), and the probe
table `__madlib_test_table`.  The names are the target schema and one backup name
per version (`TempSchema`, with the code's own way of turning "0.3" into digits).
`users` and `tests` are what install-check leaves in the cluster.  `run[p]` is the
Python process at terminal `p`: its label `pc`, the command, the versions it has
read (`dbrev` is read when the tool starts and after the drop of a reinstall, and
nowhere else), the case of `__db_install`, and the module it is at.

*Actions.*  One per psql call and one per decision without SQL; each psql call is
its own transaction in the code.  An action has the statement's effect if the
catalog allows it (`Possible`), else the failure branch of the code is taken; a
statement may also fail for a reason outside the model at the labels in
`FaultPoints`, and the tool may die at those in `CrashPoints`.  A death between a
statement and its reply is a death at the next label.

| action | code |
|---|---|
| `Start` | `main` up to the commands |
| `Uninstall`, `Confirm`, `UninstallDrop`, `Reread` | uninstall/reinstall |
| `Compare`, `PlpyCheck` | version comparison, `__plpy_check` |
| `Probe`, `Unprobe`, `ProbeFails` | "Test if schema is writable": the choice between the three cases |
| `Ask`, `Rename`, `CreateSchema` | the prompt, `__db_rename_schema`, `__db_create_schema` |
| `DropHistory` ... `InstallModule`, `Installed` | `__db_create_objects` |
| `HistoryFails`, `ModuleFails`, `RollbackDrop`, `RollbackRestore`, `RollbackFails` | the exception handlers and `__db_rollback` |
| `Check` ... `CloseTest`, `CheckFails` | install-check |

*Abstraction.*  Which SQL files a module has is left out: a module succeeds or stops
half way.  The results of tests do not influence what install-check does next and
are left out.  Two fields are ghosts: `before`, the target schema when the command
started, and `dropped`, that the command has done its confirmed drop of it.

### The sketches

*Two stages.*  `FMSketch`, `CMSketch` and `MFVSketch` have the same shape: `part[s]`
is the transition value of a segment, `acc` that of the master; `Row` is the
transition function on one row of one segment and `Gather` the merge of one
segment.  Rows and merges interleave in every order.  Ghost variables (`seen`,
`rows`) remember what was fed in.

*Hashing.*  md5 is a constant function (`Bit`, `Col`).  In the CountMin modules `Col`
is a variable that never changes, so that one run looks at a hash without
collisions (`Perfect`) and at one with many.

*SortAsort* has values as byte strings because the code compares bytes: a text
value is stored with its length header, one byte for short values and four for
long ones, and the instance has both.  The comparison of lengths in `sorta_cmp`
compares a length with itself (it asks for the second length with `len`, which
the line before has overwritten), so the model has the byte order alone.

*FMSketch* takes a sortasort to be a set; that is what `IsDictionary` of
`SortAsort` says and `ImplementsDictionary` proves.  A bitmap is the set of its 1 bits.

*CMSketch.*  Integers have `W` bits instead of 64; the range arithmetic is written
for `W` with the ends where the code puts them (`__min_int64` is one above the
least int8).  Right shift of a negative number is arithmetic, as compilers for the
supported platforms do it.  `W` is at least 3: of integers of two bits the ranges that
end at the largest one have no half that is a range again.  The widths of buckets and the
ranks of centiles are doubles in the source, which are exact up to 2^53; the
model computes with integers and cuts off where the source does.

*MFVSketch* keeps offsets and sizes, since an update in place is the part of this
code that could overwrite something.

### Sparse vectors

*State.*  `x` and `y` are two stored vectors, `answer` the last call and, for a
question, its answer; `ops` counts calls, for the bound.  A vector has its data (a
`SparseData`), the room its two buffers were given, and the dimension that is kept
beside the data.  `SparseData` holds the encoding itself: `index` is a sequence of
signed bytes of `ByteBits` bits, in which a short run is one negative byte and a
long one the size of a word followed by the word.  To find the word of a run is to
walk from the start.  An empty `index` beside elements is the null pointer that
some functions make and read as "all runs are of one".

*Actions.*  `Operation` is a call that makes a new vector or raises an error,
`Question` and `ArrayQuestion` calls that answer, `Aggregating` the next row of
`svec_agg`.  Each is one SQL function: the fmgr wrapper with its checks and then the
walk over the data.  `svec_pivot` and `svec_agg` are the ones that work in place, in
buffers that `reallocSvec` (`Grown`) has made larger.

*Walks* are recursive functions over cursors: `op_sdata_by_sdata`, `sparsedata_eq`
and `sparsedata_contains` move two cursors as the loops do.  `partition_select` is
the set of outcomes over all pivots that `drand48` might choose.

*Abstraction.*  Elements are integers and NVP, the value that stands for NULL (a
NaN); a step that would divide with a remainder is not enabled (`IsExact`), and a
square root is represented by its square.  Exponents are 1 to 4, `svec_lapply` has
one function.  In `gp_extract_feature_histogram` words are numbers in the order of
`strcmp`.

*`Corners`* names four situations in which the code does not do what `DenseVectors`
says (section 5); the run keeps it empty, so that everything else can be checked.  `wide`: `svec_reverse` and a `svec_subvec` from right to
left step back by the size of the current word, not the previous one.  `ones`:
null-index vectors met with compressed ones.  `beyond`: `svec_contains` with a longer
right vector.  `stale`: the dimension after `svec_pivot`.

### Queries: statistics, regression, array operations

*State.*  `job` is the call: which aggregate or function, its rows or arguments,
whether the server spreads the rows, and for logistic regression the limit and
whether its test for convergence may succeed.  `placed` records which segment read
each row.  `state[s]` is the transition value of segment `s`, `state[0]` the merged
one, or the only one.  `waiting` are the segments still to be merged.  `iteration`
and `previous` are the driver's: the iteration number and the state that the last
one left in `_madlib_iterative_alg`.

| action | code |
|---|---|
| `Read(s)` | a row at segment `s`: the SFUNC, `..._transition` |
| `MergeStates(s)` | the PREFUNC, `..._merge_states` or `operator+=` |
| `Finish` | the FINALFUNC, `..._final` |
| `Iterate` | the final function of a step and one turn of `__runIterativeAlg` |
| `Reject` | the check of the limit in `compute_logregr` |
| `Call` | a function of `array_ops.c`, with its strictness in NULL arguments |

Merges start from the initial state, as Greenplum's do, and come in any order; a
segment may have no rows.  Ordered aggregates have no PREFUNC and are not spread.
An exception in any of them is the result of the query.

*Numbers.*  The statistics are computed on integers.  Sums of squared deviations are
kept as multiples of 1/`Scale` and weights as multiples of 1/`Share`, which
`QueriesAssumption` says are large enough for all divisions to be exact (and for the
chi-squared test `Row` leaves out rows whose quotient is not whole): the model checks
the algebra of the one-pass and merge formulas, and not rounding.  `Row` and `Arguments`
are what the tables and the arrays may hold, of which an instance takes some.
A final function returns what its statistic and p-values are computed from.

*Regression.*  For the linear one the sums are numbers.  For the logistic one a
summand is `<<row, c>>`, the row and the coefficients that were used, named by the
iteration they come from, and a sum is a bag of these.  A row that is counted twice,
lost, or computed from old coefficients is then a different bag.  A model of IGD is
the sequence of rows that moved it, and an average of models a bag of weights.

*ArrayOps* has arrays with a type, a lower bound and elements with NULL; integers
are computed wide and stored with `IntBits`.  The null bitmap is modelled by what
its cursor does: it does not move on past the first NULL.

### Association rules

*State.*  The tables of `assoc_rules.sql_in` under their names, as sets of rows, the
loop's `n`, and `pc`, the next statement.  `input` is the user's table; the tables
made of it before the loop are operators (`assoc_id_uniq`, `assoc_trans_svec`, `max_t`).
An itemset, in the code a vector of zeros and ones, is a set of products; a support
is a number of transactions, since all are divided by the same `max_t`, and a
threshold a fraction.  A support is compared with its threshold exactly: as a decimal the
threshold is only met by a quotient that terminates, which `numeric` has without rounding.
A confidence is a rounded quotient of rounded supports (`Quotient`), in units of
`1/Ulps`.  The hash by which the code joins and groups is the constant `Hash`.

*Actions.*  One per statement: `InsertSingles` before the loop, `Combine` (`list_a` and
`list_b`), `ListParts`, `Prune` (`list_c`), `InsertFrequent` with the exit of the loop,
and `InsertRules`.  The parts of the itemsets of all iterations stay in
`assoc_set_list_parts`, as they do in the code.

### Parallel LDA

*State.*  `corpus[0]` and `corpus[1]` are the two tables that take turns, sequences of
rows with the document, its topics, how often each topic occurs, and the segment it
lies on.  `topic_counts` and `glwcounts` are the driver's variables,
`plda_local_word_topic_count`, `model_table`, `output_table` the other tables.  `test`
is a document that is being labelled.

| action | code |
|---|---|
| `Seed`, `CountSeeded` | random topics and their counts, before the loop |
| `Sample` | `plda_sample_new_topics` on every row of the old table |
| `CountTopics`, `CountWords`, `AddUp` | the rest of an iteration: truncation and topic counts; counts of words by segment; their sum, the row of the model |
| `Finish` | the output table, the cleanup |
| `StartLabel`, `LabelAgain` | `plda_label_test_documents` for a document, and one of the rounds of `plda_label_document` |

*Draws.*  A topic is drawn by comparing a random number in [0, 1) with the ascending
sums of the topics' probabilities.  `sampleTopic` returns the topics for which there
is such a number, computed with the weights of the code over a common denominator:
where weights are negative, sums do not ascend, and some topics are never drawn; a
total of zero gives infinities.  `alpha` and `eta` are counted in halves.

*Errors* undo the transaction (`Fail`): an empty corpus, an empty document, a word
outside the dictionary, a limit below one.

*Session* instantiates both modules beside `Queries`.  `called` is the function, the
variables of the others stay `Null`; the segments are those of `Queries`.

## 3. Runs

| run | instance | shows | states |
|---|---|---|---|
| `madpack` | one operator, versions 0.3 and 0.4, two modules, four commands, two failures, one death | `TypeOK`; a report is true (`FailureRestores`, `SuccessMeansInstalled`); an installation is only destroyed by uninstall (`OnlyUninstallDestroys`); backups hold the version of their name (`BackupsAreNamed`); `CheckLeavesNoTrace`; `CommandEnds` | 159,374 |
| `madpack_atomic` | as `madpack`, but neither a failing rollback nor a death while the target is rebuilt | `Atomicity`: implements `MadpackAtomic` | 77,533 |
| `madpack_probe` | one death at the probe | refutes `Case3TargetIsMissing` | |
| `sortasort` | nine text values, directory of nine, sorted every four | `FindIsExact`, `StorageHolds`, `IsDictionary` | 32,552 |
| `fmsketch` | three segments, five values with colliding bits, capacity three | `SketchIsOfValues`, `NoElog` | 92,376 |
| `fmsketch_big` | two segments, capacity two, big sketches may meet | refutes `SketchIsOfValues` | |
| `cmsketch` | two segments, three rows from seven boundary values of 4-bit integers, two hashes | `RangeCountIsExact`, `NeverUndercounts`, `CentileIsClose`, `HistogramsPartition` | 5,440 |
| `cmsketch_top` | as `cmsketch`, one row | refutes `TopRangeIsExact`, where no two values collide | |
| `mfvsketch` | two segments, six rows of three values of lengths 1 to 3, list of two, two hashes | `ListsMostFrequent`, `CountsAreNotLow`, `StorageIsDisjoint`, `MergedCountsAreCurrent` | 31,672 |
| `svec` | all pairs of 16 vectors, literals of up to nine elements, bytes of three bits; one operation, one question; aggregates of up to five rows | `WellFormed`, `IsDense` (the refinement) | 175,305 |
| `session` | *queries:* two segments, up to four rows, every order, spread and order of merges; three limits; all array functions. *assoc_rules:* any three transactions over four products; supports of 1/6 and 1/2, confidences of 2/5 and 1, quotients of three decimals. *Parallel LDA:* up to two documents and three words of a dictionary of two, two topics, two segments, up to three iterations, two rounds for a test document | `TTestsAreOfRows`, `AnovaOfOrderedGroups`, `ChiSquaredIsOfRows`, `LinregrIsOfRows`, `UStatisticCountsPairs`, `SignedRanksAreMidranks`, `KSIsMaxDiff`, `IterationIsOfAllRows`, `ArraysAreElementwise`; `QueryEnds`; `FrequentSetsAreExact`, `RulesAreExact`; `ModelIsOfTheCorpus` | 694,140 |
| `anova_merge` | two segments, up to four rows of two groups | refutes `AnovaIsOfRows` | |

*Why the bounds are enough.*  For madpack four commands are an installation, an
upgrade, one more command that meets what a failed or killed one left, and a last
one; two failures are one in a command and one in its rollback.  Two versions give
an upgrade, a repetition and an attempt to go back.  In `fmsketch` five values over
a capacity of three give sketches that are new, small, exactly full, big by a
distinct value and big by a repeated one, in every combination the merge tells
apart.  In `sortasort` nine places with a sort every four give an empty front, two
fronts of different size and tails of every length; the storage grows more than
once.  In `cmsketch` the data are the ends of the range, one off each end, zero,
and values on both sides of dyadic boundaries; every range of 4-bit integers is
queried in every state.  In `mfvsketch` six rows suffice for a value passed over
twice to overtake one in a list of two, and lengths 1 to 3 make each of the three
ways of storing a value happen.

In `svec` a byte of three bits holds runs of up to three; four is the first length
that takes a word, and literals have runs on both sides of the change, scalars, equal
neighbours, NVP, and the vectors without compression.  One operation is enough since
the starting states are all pairs of literals and of arrays that were turned into
vectors, compressed and not; only `svec_pivot` leaves a vector of another form, spare
room behind its data, and its repetition is `Aggregating`: five rows pass the change of word
and two reallocations.

In the queries of `session` two segments give a merge into the initial state, a merge of two states
with rows, and one with an empty segment, from either side.  Four rows are two for
each of two samples or segments, which is the least that has a variance, and are
three groups of the analysis of variance, one of which is beyond the width of a
group (`GroupBits`) and wraps; three groups are the first that need more room than
the power of two before.  The tests that count ties have ties of two to four, on
both sides of zero and with explicit and default precisions.  Chi-squared, linear
and logistic regression have three rows: enough for two on one segment and one on
the other.  `Limits` are a rejected one, the one that is passed before it is asked
for, and one with an iteration in the middle; the driver never reaches `Horizon`.

For `assoc_rules` three transactions over four products give frequent itemsets of every
size up to four, candidates that lose a part and candidates that do not, and an exit
after every iteration.  One row is repeated; a transaction without products is a row
with NULL, which counts in `max_t`.  The supports are ones that no number of three
transactions meets exactly; the confidence 2/5 is not met exactly either, and 1 is, by quotients that are
1 although their two supports are rounded (section 5).  For
parallel LDA three iterations use each of the two tables as source and
as target after the first; documents share words, lie on the same segment or on
different ones; the corpora have one for each error.

*Fairness.*  Two runs check liveness.  `FairSpec` of `Madpack` assumes weak fairness
of `Step(p)`: a started command goes on by itself, each psql call returns, and an
operator answers a prompt one way or the other.  Starting a command and dying are not
fair.  `SessionSpec` of `Session` assumes weak fairness of `Driven`, the steps of a job of
logistic regression: the database finishes the scan that the driver has asked for,
and the driver, which is waiting for it, goes on.  Nothing is assumed about the
choice between ending and going on when the test for convergence may succeed:
`QueryEnds` holds because of the limit.  The other runs are about safety.

`CHECK_DEADLOCK` is off everywhere: operators may stop issuing commands (`MaxRuns`),
a directory fills up, all segments have been merged, a vector has been asked, a query
has its result.

*What the runs leave out.*  `madpack` has one operator; failures and a death at the
probe are only in `madpack_probe`, which shows where they lead.  `CMSketch` has
`EmptyParts = FALSE` in its runs, `FMSketch` `BigPairs = FALSE` in the passing one, and
`Svec` no `Corners`: see section 5.  `SignedRanksAreMidranks`, `KSIsMaxDiff`,
`AnovaOfOrderedGroups` and `ArraysAreElementwise` say in their own text for which
rows they are stated.

## 4. Proofs

A run settles an instance; the theorems below hold for every value of the constants,
under the hypotheses each one names.  Hypotheses beside the constants' own assumptions
are what the code needs, and where one is not obvious a run shows that it cannot go.

| module | theorem | states | under |
|---|---|---|---|
| `MadpackProofs` | `TypeCorrect` | `TypeOK` | |
| | `BackupsNamed`, `FailuresRestore`, `SuccessIsReal`, `ChecksLeaveNoTrace`, `UninstallAloneDestroys` | the other four invariants of run `madpack`, and its action property `OnlyUninstallDestroys` | `OneOperator`, `ProbeIsSafe`, `ModulesDiffer` |
| | `CommandsAreAtomic` | `Atomicity`: `Spec` implements `MadpackAtomic` | these three, `SomeOperator`, `RebuildingIsSafe` |
| `SortAsortProofs` | `FindsExactly`, `StorageSuffices` | `FindIsExact`, `StorageHolds` | |
| | `ImplementsDictionary` | `IsDictionary`: `Spec` implements `Dictionary` | |
| `FMSketchProofs` | `TypeCorrect`, `SketchOfValues`, `NoErrors` | `TypeOK`, `SketchIsOfValues`, `NoElog` | `BigPairs = FALSE` |
| `CMSketchProofs` | `TypeCorrect`, `HistogramsCover` | `TypeOK`, `HistogramsPartition` | |
| | `QueriesNeverUndercount`, `RangeCountsAreExact`, `CentilesAreClose` | `NeverUndercounts`, `RangeCountIsExact`, `CentileIsClose` | `EmptyParts = FALSE` |
| `MFVSketchProofs` | `MostFrequentListed`, `CountsCoverRows`, `NoValueOverruns` | `ListsMostFrequent`, `CountsAreNotLow`, `StorageIsDisjoint` | |
| | `MergedListsAreSorted` | `MergedCountsAreCurrent` | `IntHoldsCounts` |
| `AssocRulesProofs` | `FrequentSetsFound` | `FrequentSetsAreExact` of `AssocRules` | `HashTellsApart`, `NoneExact` in every state |
| | `RulesFound` | `RulesAreExact` of `AssocRules` | these, and `ConfidencesTold` in every state |
| `SessionProofs` | `SessionFrequentSets`, `SessionRules` | the same of a session that may call other functions | the same |
| | `QueryTypes` | `TypeOK` of `Queries` | |
| | `AnovaOfGroups` | `AnovaOfOrderedGroups` | `MarksAreNoRecords` |
| | `LinearSums`, `ChiSquared`, `MomentsOfTests` | `LinregrIsOfRows`, `ChiSquaredIsOfRows`, `TTestsAreOfRows` | `MarksAreNoRecords` |
| | `UStatistic`, `KolmogorovSmirnov` | `UStatisticCountsPairs`, `KSIsMaxDiff` | `MarksAreNoRecords` |
| | `ArrayFunctions` | `ArraysAreElementwise` | `MarksAreNoRecords` |
| | `SessionScans` | rows are on one segment each, and merged when all are read | |

### The hypotheses

* `OneOperator`: all of `Procs` are the same.  The tool takes no lock, and what it
  promises is promised to one operator at a time.
* `ProbeIsSafe`: the statements of the probe for a writable schema fail only where
  the schema is missing, and the tool does not die between them.  Run `madpack_probe` is
  the counterexample without it.  All other statements may fail and the tool may die
  at every other label, within any bounds.
* `ModulesDiffer`: `Modules.yml` names a module once.
* `RebuildingIsSafe`: the refinement has no counterpart for a target that was dropped
  and is not put back.  So the creation of the schema, whose failure the code swallows,
  and the rollback succeed, and the tool does not die from the rename to the end.
  Failures of the history's and the modules' statements, which the rollback answers, and
  deaths everywhere else are covered.  The invariants above do without this.
* `SomeOperator`: `Procs` is not empty, since the mapping speaks of the operator.
* `NoContentAssumption` of `MadpackRefines`: `NoSchema` is not a schema.
* `MarksAreNoRecords`: a NULL, an exception and a missing result are no records of the
  kind that states, arrays and results are.  TLC takes model values for them.
* `SortAsortAssumption`, a hypothesis of the module itself: no value begins with another,
  which the length header ensures; the sorted front is none or has three values, which
  `SORTA_SLOP`, 100 in the code, ensures.  Of a front of two the search would look at the
  second value alone (section 5).
* `BigPairs = FALSE`: no merge meets two BIG sketches.  Run `fmsketch_big` is the
  counterexample without it.
* `EmptyParts = FALSE`: no segment without rows is merged into counters.  What such a
  merge adds is the memory behind an empty text (`countmin.c:215`, section 5).
* `WAssumption`, a hypothesis of the module itself: `W` is at least 3, 64 in the code.
* `IntHoldsCounts`: no difference of two counts overflows the `int` in which
  `mfvsketch.c:432` returns it.  `IntHalf`, a power of two, is taken to be a natural number:
  the provers cannot evaluate powers.
* `HashTellsApart`: `svec_hash` differs for different itemsets.  The code finds the row of
  an itemset by it.
* `NoneExact`: no itemset of several products has exactly the minimum of support; the code
  compares it with `>`, and single products with `>=` (section 5).
* `ConfidencesTold`: no split of a frequent itemset has exactly the minimum of confidence,
  unless the itemset is in as many transactions as its left side; and `2 * Ulps` is at least
  `max_t` times twice the denominator and once the numerator of the threshold.  With twenty
  decimals of `numeric` and a threshold of two the latter is so up to some 10^17
  transactions.  Where a confidence is met exactly, rounding decides (section 5).

### The arguments

*Madpack.*  `TypeInv` is `TypeOK` with the relation between a process's label and its
counters.  `SafeInv` adds, for each label, what the tool can rely on (`SafeAt`):
`TargetOK` what the target schema holds by how far a command has come (untouched;
probed; empty; stamped with the modules before `k` installed and the others absent),
`CaseOK` that the version read is that of the target then, that an upgrade's old schema
lies under the backup name as it was, and that the other two cases started from a
schema without history or from none, `TestsOK` which modules the check has left no
schema of.  None of the run's invariants is inductive without it: the report of success comes
many statements after the version was read, and is only true since nothing in between can
have touched the target or the backup.  TLC checked `SafeInv` on the 159,374 states of
`madpack`.  The lemmas `...Does` say what each action does to the
database, and are shared; then there is a lemma for each group of actions.

*Refinement.*  `AtomInv` adds `WholeInv`, which the 77,533 states of `madpack_atomic` satisfy: a
schema has rows of history only in a table, and a target exists from its creation to its
end or rollback.  Each action is then a step of `MadpackAtomic` (`Installed` is
`Install`, `UninstallDrop` is `Uninstall`) or leaves the mapped state as it is; for the
latter it is shown that `targetBar` and `backupsBar` do not change although the schema
is renamed away and put back.

*Sortasort.*  `Inv` says that stored values differ, that the front `1..Hi(dir)` ascends, and
that the storage in use is the sum of the values' sizes and less than there is.  That
`SortaLess` orders the values (`LessOrders`) needs the first byte in which two of them
differ (`FirstDifference`), and that neither begins with the other.  `Sorted` puts a value
at the place given by the number of those before it; that these numbers are those from
0 up, each once, is the counting argument `BelowMeets`, and `SortedFacts` concludes that
sorting loses and repeats nothing.  For the binary search, `Searched` and `TurnNarrows` have
the invariant of the loop: a value of the front lies between `min` and `max`, and when
only two places are left, at the guess.  Each turn makes the range smaller, so the loop has
ended after `Hi(d)` turns (`TurnsEnd`); when it ends without a match, the value is not in
the front.  The tail is searched one by one.  `ImplementsDictionary` then needs one thing more, that a
directory without repetitions has as many members as places (`CountOf`), since
`Dictionary` bounds the one and the code counts the other.

*FM.*  Every transition value is a *valid* sketch of the values behind it.
`Valid(k, S)` says more than `SketchIsOfValues`: a SMALL sketch has at most `MINVALS`
values and the half of a transition value that its status does not use is empty.
Without the size a merge might reach the error of a full sortasort; without the emptiness
the one formula for "everything else" in `Merge` would add stray bits.  `TransValid` and
`MergeValid` show that the two functions preserve validity; `RoomForBoth` is the counting
argument behind `NoErrors`.

*CountMin.*  The recursion of `FindRanges` is over pairs of bounds, and what it makes of a
range is a cell of two or one or two narrower ranges; so it has exactly one solution
(`SolutionExists`, `SolutionUnique`, by the width of a range), of which everything
else is proved by the least width at which it fails.  `Tiles` says that each integer of
a range is in exactly one of its cells; for ranges up to the largest integer it is in
at least one (`Covers`), see section 5.  `Counted` says of every state that each counter
is the number of rows at the places, segment and value, that fall on it; of the
master's, at those of the merged segments.  A cell's count is then the number of rows
in it, or more where prefixes collide, and the counts of disjoint cells add up.  The search
for a centile keeps the rank between those of its two ends (`Bracket`) and halves
their distance, so that `W - 1` turns leave one integer.  For the histograms the
buckets are shown to start where the last one ended (`InARow`); nothing about the counts
is needed, so that the theorem has no hypothesis.

*MFV.*  `Keeps(k, r)` relates a segment's transition value to `r`, how often it has read
each value: no counter is below the count (`Covers`) nor above the number of rows
(`CellsUpTo`), listed values differ, and without collisions what is not listed is no more
frequent than what is (`Topmost`).  The last two need each other: a value is put into the
list by its count in the sketch, whatever was passed over before.  `Stored` says that
the bytes of listed values lie apart and before `next_offset`, in every state between an
eviction and an update in place.  `Gathered` relates the merged value to sums over the
segments merged so far: its counts may only be compared with counters of the summed
sketch, since an entry comes from one of two lists and its old count is of one side.  TLC
checked the invariant on the 31,672 states of `mfvsketch`.

*Association rules.*  The itemsets the loop finds, `Kept`, are defined by the code's own
thresholds without reference to the iterations; `SetsAreKept` says that after iteration `n`
the table has those of up to `n` products.  Candidates are made of what was kept before, so
the step needs that a part of a kept itemset is kept (`PartsAreKept`, by monotony of the
supports), that every kept itemset of `n + 1` products is the union of two of `n`, and that
pruning drops none.  The exit of the loop is right because a size without itemsets has none
above it.  `NoneExact` then makes `Kept` what the documentation calls frequent.  For the
rules, `RoundedAbove` and `RoundedBelow` bound what two roundings of the supports and one of
their quotient can add up to; the counts of two itemsets differ from the threshold by at
least one part in `max_t` times its denominator, which the places of `ConfidencesTold`
outweigh (`RoundingTells`).  Equal supports are rounded to the same number, and its
quotient by itself is exactly 1.
`SessionProofs` instantiates these lemmas beside `Session`'s own instance of
`AssocRules`, shows the two to be the same, and that other functions leave the tables alone.

*Scans.*  What an aggregate keeps is a function of its rows.  `ScanInv` says where these
are: `KeptBy(s)`, the rows that the state of a segment has, are those placed there, at 0
those of the merged segments; a merge joins two disjoint sets, and in the end 0 has all.
`KeptByASpread` then reduces a query to two equations about functions of sets of rows:
that a row turns the state `V[I]` of some rows into that of `I \cup {n}` (`AddsRows`), and a
merge those of two parts into that of the whole (`JoinsRows`), except where the rows are
among those that end the query (`B`), which more rows do not change (`Lasting`).  What
is left for an aggregate is algebra: sums of disjoint parts (`TotalUnion`), for
the tests of means that the corrected sums of squares of two parts and the distance of
their means make that of the whole (`CssJoined`: every division is by a factor of
`Scale`), for the chi-squared test that the products of sums kept so far make the sum of
the squared deviations from the final totals (`ChiDeviationIs`, by `TotalLinear`).
The rank tests read rows in order, so that the rows read are always the first ones
and the last of them has the largest value (`FirstRows`).  For the Mann-Whitney test
the sum of ranks of a sample is then the ranks within the sample and the pairs it wins,
ties as halves (`RanksGrow`): the correction of the ranks given before a tie was
known, and the new row's rank, together count just the pairs that the new row makes.  For the
Kolmogorov-Smirnov test the rows up to a value are a prefix (`PrefixUpto`), so that
the largest difference of a prefix is no less than that of a value; within a tie of one
sample the difference lies between those around it (`BetweenSides`), so that it is no
more either.

*Analysis of variance.*  `TypesInv` says of the state that the values of its groups ascend,
that `posToIndices` has each index once, and that the reserved room is never less than the
groups (`QueryTypes`).  `OKeeps` relates it to the rows it has: it has a group for each of
their values, and the numbers at a group's index are those of the rows of the group.  A
row of a new group shifts the positions of the greater ones and gives it the last index,
in more room or not.  Where the groups of a segment come in ascending order, index and
position agree (`Straight`); the merge, which takes the numbers at the position, then adds
to each group those of the same one (`StraightMerge`).  The result counts how many groups
have which numbers, over positions as over groups, since each is met once.

*Arrays.*  A query on arrays is one step, whose loop is a recursive function.  `WalkIs`
solves it for arrays without an element after a NULL, given the results of all prefixes:
the cursor on the bitmap, which never passes a NULL (section 5), then takes every element.  What
remains for each aggregate is the step from one prefix to the next: for sums that a
summand may be wrapped before or after (`WrapSum`, by congruence), for the deviation that the
squared distances from the mean are the sum of squares less the square of the sum
(`MeanDistancesAre`).  `CompatibleIs` says that the checks on two arrays are for NULLs and
shapes and nothing else; `TruncatedQuotient` that the division of integers is that of C.

*`Recursion`.*  A recursive function over the naturals or over finite sets equals its
defining equation only if there is such a function.  `NatRecursion` and `SubsetRecursion`
prove that for a step given as a function, so that they can be cited for each of the
recursive functions and folds of `MFVSketch` (`Taken`, `Fill`, sums); induction is by a least
counterexample.  The sums over a set that the sketches use get their laws here
(`SumOn` of a set with one more element, of a function changed at a point, monotony).

### Only model-checked

* `CommandEnds`, `QueryEnds`: liveness.
* `Svec` with `IsDense`: walks of two cursors whose steps depend on the data.
* `Queries`: `IterationIsOfAllRows`, since the models of the gradient descent depend on the
  order of rows and merges, not only on their set;
  `SignedRanksAreMidranks`, which is stated with a recursive `SelectSeq` of the rows: not done.
* `PLDA`: what its folds over a sequence of words compute is induction over data.

## 5. Where the code does something else than it says

Each of the first four has a run that ends in a violation.

* `madpack.py:410`/`464`.  Any failure of the probe is taken for "Target schema does
  not exist".  A madpack dies between the creation and the removal of the probe table,
  at a first installation or an upgrade; an upgrade after the installation is complete
  finds the table in its way and enters that branch with the installation in place, where
  the run ends.  What follows is in the code and the model, and not in the trace: the
  failing CREATE SCHEMA is not heeded, the history of the installation is dropped and, if
  a module then fails, its schema.
* `fm.c:377`/`454`.  Merging two BIG sketches returns an empty bitmap, since
  `big_or` assigns its result to its own parameter.
* `countmin.py_in:131`.  A range that ends at the largest integer and does not start
  at a power of two may count one value twice: of the range from 2 to 7, the largest
  integer of four bits, the pieces are 2-3, 4-4 and 5-7, and the last is looked up as the
  whole dyad from 4 on.
* `one_way_anova.cpp:107`.  The const `idxOfGroup` returns the position of a group in
  the sorted order where its comment (lines 55-56) promises the index of its numbers.
  The merge reads through it: segments that met their groups in different orders
  give groups the numbers of each other.  PostgreSQL does not merge and is not
  affected.

The model contains the following too; the runs' instances stay clear of them, so
that the other properties can be checked, by the constant in parentheses.

* `madpack.py:951`: versions are compared as lists of digits; 0.10 counts as older
  than 0.3 (`Revs`).  `madpack.py:395`: 0.3.1 and 0.31 share a backup name (`Revs`).
* `madpack.py:541`: the version is stamped before the modules are installed.  If the
  tool dies in between, the next install reports that everything is up to date.
  The properties do not promise anything about such a target: `SuccessMeansInstalled`
  is about commands that reported success.
* `madpack.py:509`: a failure to create the schema is swallowed.  The following
  statements then fail, and so does the rollback, which finds no schema to drop; the
  old installation stays under its backup name.
* `fm.c:175`: a full sortasort becomes BIG at the next row even if that row's value is
  in it, although a comment reserves BIG for more than MINVALS values
  (`fm.c:70`).  The estimate changes, the values it stands for do not.
* `countmin.c:215`: the pointer to the second sketch is taken before an empty second
  argument is replaced, so an empty segment adds what lies behind it in memory
  (`EmptyParts = TRUE`).
* `mfvsketch.c:508`: a value in both lists comes out of the merge twice; the
  quick histogram may have two buckets for one value.
* `mfvsketch.c:432`: the difference of two 64-bit counts is returned as an int; counts
  2^31 and more apart may sort the wrong way round (`IntBits`), so that a histogram is not
  "in descending order of frequency" (`sketch.sql_in:199`) and a merge keeps the wrong
  values.  With the eight bits of the run the six rows never get there; the theorem about
  merged lists has it as its hypothesis.
* `countmin.c:193`, not in the model: the sketch of no rows at all is copied from behind an
  empty text; in the model it is blank.  `countmin.c:370`: a counter at its limit is an
  error, which the model has not.
* `sortasort.c:84`: the comparison by length never finds a difference.  This is what
  makes the search right: the search compares bytes only, and would miss values in
  a directory sorted by length first.
* `sortasort.c:186`: the binary search stops at a range of two after looking at one of
  them.  The first guess is `hi / 2`, so of a front of two the first value is never
  looked at; with 100 values in the shortest front the other one has been the guess
  before (`SLOP >= 3`).

Sparse vectors; in the model, and kept out of the run, by the `Corners` in
parentheses or by an enabling condition:

* `operators.c:1531` against `operators.c:55`: `svec_pivot` does not update the
  dimension beside the data; what checks dimensions sees the old one (`stale`).
* `SparseData.c:562`, and `subarr` for a range from right to left: the step back uses
  the size of the current word; with words of different sizes it lands inside a word
  (`wide`).
* `SparseData.h:804`: `sparsedata_contains` with a longer right vector tests the last
  run of its rest only (`beyond`).
* Null-index vectors met with compressed ones: concatenation, `svec_change` and
  `svec_pivot` append to an index that is not there; `svec_append` crashes;
  `svec_nonbase_positions` and `_values` return nothing (`ones`).

Sparse vectors; not in the model: an append to an empty vector crashes and takes counts
of zero and less; the median of an empty vector reads outside it; the cast from
positions compares the last position only with the size, and none with a size of zero or
less (`operators.c:1024`; the model does the same, its instances give positions in order and
a size); `float8arr_equals`
compares the pointers to the dimensions, and a bitmap with itself; `svec_normalize`
changes its argument; `svec_hash` differs for equal vectors with different runs;
`svec_count` takes a scalar 0 on the left for its first call; the cast to `float8[]`
gives NaN for NULL.

Statistics, regression, arrays:

* `one_way_anova.cpp`: a group is an `int32` in SQL and a `uint16` in the state; groups
  that are equal modulo 2^16 are one (`GroupBits`; the properties compute with this).
  Line 142, under a comment that asks for overflow checks: the reserved room is a `uint16`
  and becomes 0 when the 32,769th group needs 2^16; the state is then corrupted.  `Room`
  does not wrap: the run has three groups, and beyond 2^15 the theorems do not speak of the
  code.
* `kolmogorov_smirnov_test.cpp:88`: the samples are compared between two rows of equal
  value as well, so the statistic may be too large if a value is in both samples
  (`KSIsMaxDiff` states the two halves).
* `wilcoxon_signed_rank_test.cpp:76`: the default precision of a negative value is
  negative, so equal absolute values may not tie (excluded in `SignedRanksAreMidranks`).
* `mann_whitney_test.cpp`: the one-sided statistics come from the smaller U and are
  never positive.  This is behind the p-values and not in the model.
* `logistic.py_in:100`: a limit of one gives two iterations.  `logistic.cpp`: the step
  size of the first IGD iteration is zero (in `IterationIsOfAllRows`).
  `logistic.cpp:830` reads an IGD state as one of IRLS, in a function that nothing
  calls for it.
* `array_ops.c:804-814`: the cursor on the null bitmap stays at the first NULL, while
  `array_ops.sql_in:108` says that NULLs are ignored (`ArraysAreElementwise` is about
  arrays without an element after a NULL).
* `array_ops.c`, not in the model: `array_mean`, `array_sum_big` and `array_stddev` of
  types other than `float8` read the wrong width; results lose their lower
  bounds; results of several dimensions are corrupted (`ndim` is overwritten at 1094
  and 1210); results of two and four bytes per element
  are read beyond their buffer; the least integer divided by -1 traps for `int4`, `int8`.

Association rules and parallel LDA; in the model, and kept out of the properties by
the supports and confidences of the instance and by `i > 1`:

* `assoc_rules.sql_in:635`.  Itemsets of two and more products need more than the
  minimum of support, single products the minimum (line 518), which is what the
  documentation says of all of them (line 347).
* `assoc_rules.sql_in:685`.  Supports are quotients rounded to some twenty decimals (lines
  511, 621), and so is the confidence, their quotient.  A rule that has exactly the minimum,
  which line 348 says is included, may come out below it and is dropped: of three
  transactions, (1/3)/(2/3) is 0.49999999999999999999.  With `Ulps = 1000` the model has
  333/667 rounded to 499/1000.
* `plda.c:218`.  The count of a word and its topic is lowered by one, "to exclude
  current word's contribution", also in the first iteration, in which all counts are
  zero (`plda.py_in:35`).  With an `eta` below 1 the probability of the current topic is
  then negative.  The same holds for a document that is labelled, whose words are
  not in the counts of the model.

Not in the model: in association rules a NULL `trans_id`, which `max_t` would not count and
`assoc_trans_svec` would; `list_c` is the one table that is not temporary
(`assoc_rules.sql_in:576`), and stays; in parallel LDA the test for an empty dictionary
never succeeds, since the bound of an empty array is NULL (`plda.py_in:31`).

## 6. Not modelled

*Left out of modelled parts.*  Of `svec`: angle, tanimoto, `svec_normalize`, log, hash,
element-wise minimum and maximum of `float8[]`, `float8arr_equals`, NULL arguments
(functions are strict), divisions with a remainder and other exponents.  Of
`array_ops`: `array_sqrt`, `normalize`, `array_of_float`, `array_of_bigint`, arrays of
several dimensions, types other than `smallint` and `float8`.  Of the statistics and
regression: rounding, more than 2^15 groups, the formulas from the sums to coefficients, statistics and
p-values; the result functions of logistic regression, which only read a state; and
the distance of two states, whose comparison with the precision is a choice.  Of `assoc_rules`: lift and conviction, messages, how many decimals
a `numeric` quotient has, hash collisions (in the model, not in the runs).  Of parallel LDA:
`plda_train_alternative`, which no SQL function calls, and `plda_run`, which prints.  Several
madpack processes at once are in the model (`Procs`) and not in the runs: the
promises are to one operator, and the code has no lock that would extend them to
two.

*Not modelled at all*, and why:

* Distribution functions, matrix factorisation, conjugate gradient, online SVM: loops
  over floating-point numbers whose properties are about error, which integers
  do not show.
* Decision trees and random forests: PL/pgSQL that builds trees in tables by
  dynamic SQL; what decides is impurity, a real number, and the rest is SQL on whole
  tables without a second actor.
* k-means: one session that runs SQL over temporary tables of real-valued points.  Its
  assignments and its end are decided by distances and shares of points, which a
  model would have to replace by choices; what is hard beside them is a temporary view
  that an error leaves behind (`kmeans.py_in:749`) and the comparison of both exits in
  one condition (`:973`).
* `sketch_support.c`, `configyml.py`, naive Bayes, quantile, profile, Viterbi: functions
  without state between calls, or one query.
* The C++ abstraction layer: conversions by templates; the exchange of errors with the
  backend depends on `longjmp` and compilers.
* Compatibility SQL, vendored code, build, documentation.

*Known, and not stated as properties:* two install-checks of one version use the same
user and schemas (`madpack.py:978`); versions are compared digit by digit
(`madpack.py:953`); a warning on psql's stderr counts as failure (`madpack.py:130`; it is
one of the failures in `FaultPoints`); the pointer at `countmin.c:215`
(`EmptyParts`); the table of states of logistic regression has a fixed name and
outlives the call (`logistic.py_in:80`).

## 7. Plan

Done: all modules of section 2 with their runs; the invariants and the refinement of
the installer, of the sortasort, the FM, CountMin and MFV sketches, and of association
rules, alone and in a session, proved.

What remains is to prove more, in this order:

1. `Queries`: the iterations and the signed ranks.
2. `PLDA`: that the published counts are those of the assignment (`ModelIsOfTheCorpus`).
3. `MadpackAtomic`: that its histories keep a chain of versions; with `CommandsAreAtomic` the
   installer then does.
