# Verification of intentumdiff-core

TLA+ models of the Rust core of intentumdiff (`src/crates/rust-core-host`), checked with TLC and, where marked,
proved with TLAPS. Paths below are relative to `src/crates/rust-core-host/src/`.

## The system

The core compares two versions of a file by their syntax trees. A parser component (a Wasm plugin, or
tree-sitter for Python) makes a semantic tree of each version; the matcher decides which node is which; the edit
script is read off the matching; refinement, promotion and suppression passes turn edits into the changes a
reviewer sees. Around this pipeline are process-wide caches and stores, because callers (a C ABI, a command line, a
live server) use a stateless API.

| component | state | operations | interacts through |
|---|---|---|---|
| cache registry (`cache_registry.rs`) | a map from (path, ttl, cap) to a warm store, behind a mutex | one entry point per store operation, `open`, `close` | hands an `Arc<SqliteStore>` to every caller; opens outside its mutex |
| cache store (`cache_store.rs`) | an optional connection behind a mutex; a SQLite file with a schema version, four tables and counters | `open` (schema, rebuild, eviction), get, put, clear, export, listings, `close` | other stores and processes on the same file |
| analytics registry and store (`analytics_registry.rs`, `analytics_store.rs`, `duckdb_ffi.rs`) | the same map keyed by path; a flag per store; runs, files, parser calls, hotspots, events, history | record, query, `close`; the engine is chosen at each opening | as the cache; a DuckDB library found at run time |
| semantic tree (`SemanticNode`, `TreeIndex` in `lib.rs`) | immutable trees and their indexes | conversion, labels, hashes, scopes | read by everything below |
| matcher (`compute_matching_with_diagnostics_indexed`) | the list of matched pairs, grown and pruned by ten phases | entity seeds, callable renames (`callable_renames.rs`), top-down, root, label, bottom-up, prunes, operator binding (`operator_tokens.rs`) | each phase reads what the earlier ones paired |
| edit script (`generate_edit_script_with_diagnostics_indexed`) | sets of moved and covered subtrees | MOVE, DELETE, INSERT, UPDATE, REORDER | reads the matching |
| refinement, promotion, suppression (`draft_*.rs`, `decorator_order.rs`, `invariance_groups.rs`, `lib.rs`) | the list of drafts | ordered rewriting passes | read tree, matching and edits |
| parser component cache (`lib.rs`) | compiled components by path, size, time and metering | lookup, compile, run a pair under fuel | files being replaced |
| parser registry and routing (`parser_registry.rs`, `parser_routing.rs`, `filename_selection.rs`) | manifests by directory | resolve a parser for a file | the component cache |
| repository access (`git_source.rs`, `commit_plumbing.rs`) | none; the repository belongs to its user | list changes, read both sides, one git command or file at a time | a repository that moves meanwhile |
| batch, commit and live server (`lib.rs`, `live_server.rs`, `routed_review.rs`) | the outcomes of the files of a request | diff, commit, review; fall back when anything is uncovered | all of the above, a batch in parallel over its files |
| guardrails (`guardrail_policy.rs`) | the policy of one review | read the policy, defer, attach violations | the working tree |
| XML dialects (`xml_schema.rs`) | a process-wide list and a thread's scope | register, scope, match | read by profile passes on whatever thread they run |
| configuration, assets, symbol index, renderers, CLI | none of their own | functions of their input, or I/O | - |

What is hard here: threads that open, share and close one store; a file rebuilt and trimmed statement by statement
without a transaction, with crashes and other connections between the statements; a recording that is a list of
self-committing `INSERT`s; components compiled outside a lock from files that installers replace; a review whose inputs are
read one by one from a repository somebody works in; and, in the sequential part, matching phases that each add pairs for
nodes other than the one at hand, two prunes that take pairs back, an edit script that leaves out what it believes to be
covered by something else, and a chain of passes that drop edits because of others a later pass may drop.

What makes each correct: a registry loses no connection, hands out no dead store and mixes no identities; a cache serves no
payload of another schema, drops no row without a reason and blocks no caller; a matching is one-to-one, keeps to
types and scopes; a script shows every loss and gain, and is empty exactly when the trees are equal; no refinement hides a
loss or a gain; a parser is never older than the call it serves, never unvetted, and each call has its own fuel; a recorded row
finds its run; a review is of one baseline, misses no change, and is served whole or not at all.

## Modules

```
                    StoreRegistry  <-- StoreRegistryProofs, MCStoreRegistry
  refined by (proved) |       |  refined by (proved)
              CacheRegistry  AnalyticsStore  <-- AnalyticsStoreProofs, MCAnalyticsStore
 EXTENDS CacheFile    |
              CacheRegistryProofs, MCCacheRegistry

SemanticTree <-- TreeMatching <-- EditScript <-- DraftRefinement <-- ReviewFinalization
                      |               |                                      |
             TreeMatchingProofs  MCEditScript <---------- MCReviewFinalization, EditScriptProofs

SourceCollection <-- LiveReview <-- LiveReviewProofs, MCLiveReview
ParserCache <-- ParserCacheProofs, MCParserCache

InductionLemmas <-- EditScriptProofs, AnalyticsStoreProofs, ParserCacheProofs
```

**StoreRegistry** is the abstract specification of both registries. `reg` is the map behind the mutex, `opened` the
stores whose `Option<Connection>` is `Some`, `owner` the identity a store was opened with; `pc`, `key`, `held` and
`outcome` are a thread's place, identity, `Arc` and result. `LookupHit`/`LookupMiss`, `Open`/`OpenFails` and
`RegisterFirst`/`RegisterLoser` are the three parts of `store_for`, each one critical section or the unlocked code
between two of them; `RemoveEntry` and `TakeConnection` are the two halves of `close`. An operation is one step, `Use`.

**CacheFile** has the tables, in the order `SCHEMA` creates them (`TableOrder`) and the size cap visits them (`SizedOrder`), and what one SQL
statement does to them. **CacheRegistry** refines `StoreRegistry`: `Open`
becomes `SqliteStore::open` statement by statement (`CreateNext`, `ReadVersion`, `Stamp`, `DropNext`, `Restamp`,
then `ExpireNext`, `MeasureNext`, `Collect`, `Trim` for `evict`), and `Use` becomes get (`GetSelect`, `GetBump`), put,
clear (one `DELETE` per table) and export (which takes the connection anew for the keys, and for each entry's metadata and
payload). A store's connection mutex is held where `pc` is in `LockedLabels`. `StatementFails` is a failing
statement, `Exit` the end of the process at any point: the file keeps what was committed. Threads with different
retention on one path have different connections to one file, as two processes would. The put functions are one
action, so are the get functions: they differ in their table. `stats`, `metrics` and the listings only read.

**SemanticTree** is a tree as a function from ids (paths of child slots) to type, label, start position and structural
hash, with the index operators the code keeps in `TreeIndex`. A hash is the content it digests, hence
without collisions. Operator leaves take a slot in the ids; in the code they are named apart, which tells no two nodes of the
catalogue from each other.

**TreeMatching** is `compute_matching_with_diagnostics_indexed`. `phase` is the function that runs, `todo` the old nodes its
loop has still to visit, `pairs` the matching, `renamedCalls` the evidence put aside before bottom-up. Each iteration of a
loop is a step (`MatchEntity`, `MatchTopDown`, `MatchLabel`, `MatchBottomUp`), each whole-list pass is one
(`SeedRenames`, `PairRoots`, `DropOperators`, `PruneStatements`, `PruneOperators`, `BindOperators`). The keys of every `min_by_key`
are tuples compared by `Before`. The diagnostics counters are left out.

**AnalyticsStore** implements `StoreRegistry` for the analytics store. Opening is `DuckDbOpens`/`DuckDbUnavailable`, then
`DuckDbReady` or `DuckDbSchemaFails`, then `SqliteOpens` or `OpenFails`: the library may be found at one opening and not at
the next, and `kind` is what a path's file holds since its first schema. A recording's statements are worked out at once as
`todo`, a sequence of rows for each position (`RowsOf`: `RunRows` for a diagnostics run, `HistoryRow` and what hangs on it for a diff), and
inserted one by one (`InsertNext`), because every `INSERT` takes the mutex and commits by itself; `StatementFails` and `Exit` may come
between any two. A chosen run id may be taken (`Taken`). UUIDs are the number of the call. `ClearOpen` is `close`, which
clears a flag. Queries only read, and are one step.

**ParserCache** has the process-wide map of compiled components. A caller takes the components of its batch first: per file `ReadGuarded`
or `GuardRefuses`, `ReadMetadata` or `MetadataFails`, `CacheHit` or `CacheMiss`, `Compile` or `CompileFails`, `InsertFirst`; what it gets is
kept in `entries`. Then the items end in any order, as a parallel iterator lets them (`ItemWithoutParser`,
`ItemWithoutComponent`, `ItemParsed`), and `Assemble` answers. `Install` and `Uninstall` change component files at any moment; a version stands for the
metadata as well as for the bytes. `FuelBudget` and `RunPair` are the budgets of a pair: its three calls are made on one Wasm store whose fuel is set
anew before each.

**SourceCollection** is the repository (`commits`, `head`, `upstream`, `index`, `disk`), a user who may `Edit`, `Add`, `Untrack`, `Commit` and `Push`
between any two steps, and the collectors: `ResolveOld`, `ResolveNew`, `Labels`, `Inventory` (`git diff --name-status` with renames), one
`ReadEntry` per entry, `ListUntracked`, `Collected`; the certified collector reads its `ReadBaseline` by ref. git itself is modelled from its use. `steady` is
history: the paths whose change has been there since the first command and cannot have been paired with a binary file, which hides both (`WithText`).
**LiveReview** goes on from there: the policy from disk (`PolicyAbsent`, `PolicyFound`, `PolicyRead`,
`PolicyDefers`), `ResolveParsers` or `Unresolved`, `IndexSymbols`, then the Python files as one certified `Batch` and the others one after the other
(`FilePython`, `EnterScope`, `FileWasm`, `FileDeclined`), each within a scope of XML dialects that `DropScope` ends, and `Assemble`. `CommitJson` is the certified
commit. What a parser makes of two sources is one of three outcomes. `EditProfiles` and `SetRegistry` are what a user and other threads do to the dialects.

**EditScript** has the sets of edits as functions of a finished matching. A MOVE's position, an UPDATE_MOVED's
distinction from an UPDATE and the recovery of literals in moved subtrees are left out, the last because the trees have no
literal tokens.

**DraftRefinement** is `refine_candidate_drafts` over the script of a finished matching. A pass reads and rewrites the whole list, so each is
an operator on a set of drafts, named for what it finds or makes: `RenameUpdates`, `ParentStatements`, `SameIdNamedRenames`, `ImportedRenames`,
`InsideMoves`, then what is dropped: `SameLabelDeletes`, `DescendantNoise`, `NoisyMoves`, `ChildNoise`, `ParentNoise`, `ContainerNoise`. `stage` is how far
the diff is, and `Refine`, the whole chain, one step. The order of the drafts matters to `InsideMoves` alone, which takes any. Descriptions,
confidence, annotations and the final sort are left out, and so is `promote_same_id_named_line_moves`, which does nothing where ids are child slots.

**ReviewFinalization** goes on with `finalize_python_review_drafts`, in one step `Finalize`: `AdditionsToMoves`, `SameIdRenames`, `ParameterRenames`,
`DescendantLeafUpdates`, `CorroboratedRenames`, then `DedupeRenames`, `SignatureNoise`, `WithoutDelta`, `AroundLeaves` and `CoveredByPairings` (the two halves of one
function), `SameLabelPairs`, `CoveredByRenames`, `MovesInRenames`, `ParentNoise` and `ChildNoise` again, and `LowSignalReorders`, which keeps the entities outside
a longest run that kept its order (`Stationary`, `Movers`). The passes that ask for what no tree here has are left out: annotations, string and integer
literals, comparisons with the empty string, extracted expressions, decorators, Clojure and AssemblyScript; so are the change groups, which tell of the changes and alter none.

The **MC** modules give the constants their values. `MCEditScript` has the catalogues of files.

## Runs

| run | instance | shows |
|---|---|---|
| `registry` | 3 threads, 2 identities, 3 stores, symmetric | `RegisteredIsOpen`, `NoLeakedConnection`, `OneStorePerIdentity` and `FirstWinnerKept`. Three threads are an opener, a rival and a closer, the most any property relates. |
| `cache_crash` | 2 threads, 2 identities, 3 calls of get, put, clear, close; 2 tables, 1 key; files fresh, current and of an older schema; crashes and failing statements | `ServesCurrentSchema`: a payload written under another schema never reaches a caller, wherever an upgrade stopped. `OperatesOnLiveConnection`: close waits for a running operation. `ImplementsRegistry`: the detailed model implements `StoreRegistry`. |
| `cache_retention` | 2 calls of put, open, export, close; a clock of 2 ticks; one identity with no time to live and a small cap; threads fair | `RowsGoForAReason`, `TablesMissOnlyInRebuild`, and `CallsReturn`: nobody waits for ever. |
| `cache_first_open` | 2 calls on a new file, no failures | A counterexample to `OpenNeverFails`. |
| `cache_export` | 2 calls: an export and a clear or a second opening | A counterexample to `ExportsWholeRows`. |
| `edit_review` | all pairs of 94 files: of one or two out of ten functions, classes, imports, statements and blocks, two with a function defined twice, one with another class and method, two in which a function and a class change places around a statement; any order in `InsideMoves` | In the matcher `OneToOne`, `OperatorsFollowParents`, `InternalsStayInScope` (until the prunes); in the script `EmptyExactlyForEqualTrees` and `ChangesAreShown`; after the refinement `ChangesStayTold` and `TokensGoForAReason`; after the finalization `ChangesStayInSight`, `ChangesAreToldOnce` and `DisplacedSwapsAreTold` (of two entities that change places, and their numbers among their siblings, one is told as moved); at every stage `NothingIsInvented`. |
| `edit_swaps` | all pairs of files of three out of two functions, a class and a statement | A counterexample to `EntitySwapsAreTold`. |
| `edit_decorators` | all pairs of files of up to two different plain or decorated functions | A counterexample to `DeltaIsNeverEmpty`. |
| `analytics` | 2 threads, 1 path, 2 stores, 3 calls; batches of no JSON, a JSON array, and three diffs with one and two parser calls, a hotspot and an event; fresh run ids and a chosen one; failures and exit anywhere | `RowsBelongToTheirRun`, `AcknowledgedRunIsWhole` (the totals in a run's row are those of the rows recorded after it), `EngineMatchesFile`, `ImplementsRegistry`. |
| `parser_cache` | 2 callers, 3 calls; a free and a guarded component of 2 versions; batches of two files, of one without a limit, of a guarded one with two that need no parser | `ParsesWithCurrentComponent`, `BatchRunsOneBuild`, `CachedComponentIsKept`, `GuardedIsVetted`, `FuelIsPerCall`. |
| `live_review` | 3 files (Python, XML, the policy), 3 contents (one binary; git may take two of them, or one and the binary one, for a rename), 4 things that happen to the repository or the dialects; the five kinds of request | `NoChangeIsLost` (whatever git takes for a rename), `OldSidesAreOfOneCommit`, `ServedIsWhole`, `DialectsAreOfTheFile`. |
| `policy_rename` | the same | A counterexample to `PolicyChangeIsShown`. |

Bounds. `MaxCalls` bounds how many calls are begun, `MaxNow` the clock, `MaxCount` the counters, which stay at it. Three calls are two
that race and one that comes after. Two tables, one counted by the size cap and one not, make each loop over tables
take a first and a last step and tell the two kinds apart. One cache key suffices: no statement of the properties relates two
rows, and the order of rows by age is therefore not checked. Files of two items are what a swap, a
rename, a move between scopes, an import in place of a definition and an insertion before an existing item need; an exchange that leaves something
in between needs three siblings. Items are three to ten nodes deep in blocks and
calls, so that every phase of the matcher pairs something in some file. `MinHeight` and `Similarity` are the defaults of the configuration.
Every pass of the refinement changes the drafts of some pair, and every one of the finalization
but three: `ParameterRenames`, `MovesInRenames` and the second `ChildNoise`, for which earlier passes leave nothing to do in files as small as these.
`ChangesStayTold` and `ChangesStayInSight` ask that no body takes the place of another's (`BodiesStay`, so 8,035 of the 8,836 pairs), the latter also
that no leaf is told as edited inside an entity that goes and one that comes (`EntitiesStay`, all but 322 of these); what the code does with the others is told below.
In `analytics` two threads on one path are two recordings that interleave and a close or a second opening; two stores let one be
retired while it is used. In `parser_cache` a third call comes after two that race, so that what they cached is used. `MaxFuel` 9 is "unlimited", `SmallFuel` 2 the
threshold of hard limits. In `live_review` four steps are an edit, an addition, a commit and one more: a file can be edited, staged, committed and edited again
within one review; three paths can be an unmoved file, a rename's source and its target.

Fairness. `FairSpec` lets every thread that is inside a call take its steps (weak fairness of `Step(t)`): a thread of the
operating system is not suspended for ever. Nothing makes a caller call, the process exit or time pass. It also gives a waiting
thread the connection mutex when it stays free: the calls are finitely many, so nobody is
overtaken for ever. The other modules state safety alone and no fairness: a review or a batch ends or its caller waits, and
no code there retries or wakes anybody.

## Findings

- *First use fails.* `SqliteStore::open` runs outside the registry lock, so two threads that use a new cache file at the same time
  both read no `schema_version` and both `INSERT` it; the second violates the primary key and its call fails
  (`cache_store.rs:199`). The registry is written for such races to be harmless (`cache_registry.rs:45`). Run `cache_first_open`.
- *Torn exports.* `export_entries` releases the connection between an entry's metadata and its payload. An entry cleared
  in between is exported as `null`, where the comment promises every entry with both
  (`cache_store.rs:659`). Run `cache_export`.
- *A decorator that changes hands.* With `@d` moved from `f` to `g`, the wrapper of `f` is matched to the wrapper of `g`, both definitions
  keep their effective parent, and no edit is left, while the trees differ. The pipeline then attributes the empty
  result to suppression (`lib.rs:3535`). Run `edit_decorators`; without decorators the script is empty
  exactly for equal trees (`EmptyExactlyForEqualTrees` in `edit_review`).
- *Entities that change places around one that stays.* Only siblings whose number changed become a REORDER (`lib.rs:8764`), and which of them moved is decided by a longest run that
  kept its order among the REORDERs of entities (`draft_promotions.rs:2223`). A statement and two functions `s f g` become `g f s`: `f` keeps its number, `g` is the only entity left and by itself
  a run that kept its order, so its REORDER is dropped as an insertion shift, and no change is left at all, where the comment says that the user's reordering of two functions
  "must surface as moved code, not vanish into style-only output (issue #12)" (`draft_promotions.rs:2202`). Run `edit_swaps`; what the code keeps of the promise is
  `DisplacedSwapsAreTold` in `edit_review`, and proved.
- *A policy renamed and edited in one commit.* Commit reviews look for the policy's name in the new path of a file only
  (`live_server.rs:1049`); the shared check looks at both names. Run `policy_rename`; `PolicyEditIsShown` is proved where the policy stays in place.

Observed while modelling, and not made into runs. A DELETION around the old end and an ADDITION around the new end of a modified leaf are taken for "the SAME edit reported at container
granularity" and dropped (`draft_promotions.rs:1654`), entities as well as wrappers. So a class that is renamed, or put around a function, while one operator or name in it is edited, is told by that
operator alone; nothing says that `D` became `C`, or, if the method came into an `if` that the class made way for, that `C` is gone. When two methods of a class exchange their bodies, the blocks are matched across by their hashes; the
script has two MOVEs of blocks and what goes with them. The descendant pass drops the latter as having ridden along, the move pass drops the MOVEs, since a `block` that
keeps its depth counts as a reorder (`draft_suppressors.rs:1008`), and no change is left after the finalization either; the comment there promises to keep "genuine relocations". A bare block that is added
inside a class is dropped as covered by the REORDER of the class, and the REORDER is dropped later as an insertion shift: with the class `C` of the catalogue in a second version
whose method has another body, the new body is in no change (`draft_suppressors.rs:1131`, `draft_promotions.rs:2198`). Two statements that change places in a function that keeps its name
leave no change, only a count of suppressed reorders. A decorator that is put on a definition counts as an added node, and what is reordered inside
rides along with it, which is why `DisplacedSwapsAreTold` asks for a new version without decorators. A call statement replaced by an import is told as the name that changed: the other names of the statement are in no change,
which is why `ChangesStayInSight` counts the statement around a change as seen. In a larger catalogue, a statement that moves into the new body of a function rides along with the addition of the
body, and the container pass drops the addition because its leaves are matched; and a draft that says "rename" counts
as carrying the whole function, so that it may hide a replaced body. The policy is read from the disk after the sources, for reviews of two commits as well.
The certified collector names the ref anew for each git command. A file that is added to the index between `git diff` and `git ls-files
--others` is in neither list. A deletion that git pairs as a rename with a file that has become binary vanishes with it, and so does an addition paired with a deleted binary file
(`git_source.rs`, `collect_entries`). The symbol
index of a commit is "Best-effort (empty on any failure)" in its comment and ends the review with an error in its code (`live_server.rs:903`).
One style-only Python file makes a whole commit fall back, while the same file by itself is served. When the schema batch fails on a file DuckDB has just made, SQLite is
tried on that file, and fails.

The statement prune compares the first identifier of any two statements, where its comment speaks of call-bearing statements and
callees (`lib.rs`, `first_callee_label`): an `if` whose condition starts with another name loses its pair. When that takes back the pair of two functions defined inside the `if`,
the pairs inside them stay (`lib.rs:7374`), and `InternalsStayInScope` can be said of the matching before the prunes only. The models do as the code does.

## Proofs

`StoreRegistryProofs` proves every property of `StoreRegistry` for any sets of threads, identities and stores, assuming
only that `NoStore` and `NoKey` are not among them. The properties are not inductive alone: that a registered store is open
needs that no thread is about to close it or to drop it as a loser. `Inv` adds ownership: a registered store is
filed under the identity it was opened with (`RegisteredUnderItsIdentity`), a store on its way in or out of the map has
exactly one holder among the threads (`ExclusivelyHeld`), and one that waits to be registered is known to its opener alone
(`PrivateUntilRegistered`). Each conjunct has a lemma that every action preserves it; `FirstWinnerKept` follows from
the actions and the type invariant. As both implementations are proved to implement `StoreRegistry`, the theorems speak of the cache and
of the analytics store.

`CacheRegistryProofs` proves that `CacheRegistry` implements `StoreRegistry` and every safety property of the cache, for any tables in any order, keys,
retentions, threads and stores, with statements that fail and exits anywhere. Nearly every step has one of two shapes, the thread goes on inside its call (`GoesOn`) or returns
(`Returns`), and the refinement and the registry's part of each invariant are proved of the shapes. `TypeOK` is inductive with `Loops`: a loop over tables
is within its bounds, and a queue of rows is there only while it is worked off. `OperatesOnLiveConnection` needs `Connections`: a store waiting to be registered is its
opener's alone, and no two operations run on one connection. `ServesCurrentSchema` needs `Schema`, which says of each place in `open` what
the file then holds: before `Restamp` the version may be old only while every table not yet dropped may be, and past it no table is. `TablesMissOnlyInRebuild` needs
`Rebuilds`, which tables an opener has still to create again; its theorem assumes that no statement fails (`~DiskErrors`), as its run does, because an opening that fails between
the drops and the creates leaves a file without tables. `RowsGoForAReason` needs `Retention`: what a row in a thread's queue is waiting for.

`TreeMatchingProofs` proves `TypeOK`, `OneToOne`, `SameTypes`, `OperatorsFollowParents` and `InternalsStayInScope` for any trees, threshold and
minimal height, so for matchings no catalogue of files reaches. The assumptions are that a tree is a finite set of paths with a root, whose operators are leaves
(`TreeAssumption`), and that subtrees with one digest have the same types in the same places (`HashAssumption`: the digest is SHA-256 of the type and the digests of the children, and collisions
are left out). The argument has two halves. Each source of pairs gives a matching when it is given one:
two subtrees walked in step, because a place below a node is one node (`SeededMatching`); renames, because they are unique at both ends
(`RenamesMatching`); a call and its callee (`CalleesMatching`); operators by their number among their siblings, because siblings are
ordered by slot, so the sets of earlier siblings are nested and finite and no two have one size (`BoundMatching`). And each loop comes only to nodes that are
still free, which is the part of `TypeOK` that `OneToOne` needs to be inductive: `VisitStep` and `EnterStep` carry both through every phase.
That nothing else of a gate is needed is itself a result: labels, scopes, distances and thresholds may be changed without endangering these.
`InternalsAreScoped` is about the scopes: each loop's own test admits its pair, a subtree walked in step is one of two equal
subtrees, a callee lies in the scope of its call, and taking operators' pairs back leaves the pairs the others rely on.

`EditScriptProofs` proves what the script shows of any matching. `EveryChangeIsShown` says that a node that goes is under a deleted one: nodes are left out of
the deletes only for one above them, and the highest node left out would have to be left out for one higher. `UndecoratedDeltaIsNeverEmpty` is the harder half of
`EmptyExactlyForEqualTrees`: with an empty script the matching is total and keeps types, labels and parents; its shallowest pair of two different ids would be
two children of one node, whose numbers among their siblings are their slots and would differ, which is a REORDER. Both are inductions over the depth of a node, made
by choosing a least counterexample. `EmptyExactly` adds the other half, that equal trees give an empty script, and with it the whole of
`EmptyExactlyForEqualTrees`. Its invariant `Settled` says what each phase makes of a tree and its equal: every pair is of a node and itself (`Diagonal`), entities are
paired by their ids in the first phase, so that none is left to be renamed; the comparison of subtrees then comes to the root first, which is the highest node and has no other copy, and with it
pairs all there is (`Full`). The approximate loops have nothing to do; the prunes find every statement and every anchor paired with itself; the operators, which are dropped on
the way, come back because each has a parent that stayed. The theorem's condition is `Tall`: the root is as high as `min_height`, or the comparison of subtrees never comes to it.
For lower trees the matcher goes by labels and distances, about which nothing is assumed here.
Assumed are children numbered without a gap (`SlotAssumption`), one start symbol that is the root's alone, no operator, and no lower than any node
(`RootAssumption`), and that the digests of two trees, and of each of their nodes, are equal if the trees have the same nodes (`DigestAssumption`).

These are theorems of the matcher's `Spec`; `ReviewKeepsTheMatching` shows that `FinalizationSpec`, which the run checks, implies it, because refinement and
finalization only read trees and matching, so they hold of every review at each of its stages. `EveryChangeIsDrafted` adds that the passes start from drafts that tell of every
change: where `ChangesStayTold` fails, a pass has taken something.

The passes are proved about in three steps. `SuppressedKinds` says which kinds of drafts a pass can take away at all, and `Promotes` and `Keeps` what it can make: a removal, an addition or a reorder
that is among the drafts after a pass was among them before, and no drafts are made of none. Both compose, so `Underway` is an invariant: from the first draft to the last, whatever is called removed or
added is what the script removed or added (`OnlyTheUnmatched`). `NothingInvented` is that, with `EmptyExactly`'s invariant for equal trees. `ToldOnce` needs in addition that
two passes do their work and nothing later undoes it: after the descendants are dropped no removal is inside another (`IsFlat`), and after the pairings are taken none is at the end of one (`Apart`), also when
reorders become moves in the end, since their ends are paired. `DisplacedSwaps` is about the longest run that kept its order, for any number of siblings: it exists (`Foremost`: a finite set that a transitive
relation ranks has a first), keeps the order (`StationaryKeepsOrder`) and therefore has not both of two entities that overtook each other; and their REORDERs reach it, since a reorder inside something added would
be inside something moved there (`OrderInsideAdded`), which the script leaves out. `TokensGo` follows a token through the refinement: a removal it is in is taken by a promotion only for a refactoring around it, which stays
(`ChangesAreTakenUp`), or for an edit in place; the descendant pass takes it for a removal around it, of which the highest stays; and when that is a bare container the token was told by what the
container pass leaves (`ContainersTellNothing`).

`AnalyticsStoreProofs` proves that `AnalyticsStore` implements `StoreRegistry` step by step (`Refinement`), and every state property, for any threads, paths, stores, batches and number of calls; the assumptions are those of the module. Refinement
needs one invariant, `Hands`: a thread holds an `Arc`, a path and an unregistered store exactly where its place says so. `EnginesMatchFiles` adds `Engines`: a store on
its way into the map has an engine its file admits. `RowsAreJoined` needs what is *about* to be inserted: `Inv` is `Working` (who has a job has a plan) and `Recording`, where
a plan is shaped and typed, and *founded*: each row still to come finds the row it refers to in the file or
before it in the plan. That a plan starts that way is a fact about the lists `RowsOf` builds (`FileRowsAreAPlan`, `RunIsAPlan`), that it
stays so after an insertion or a failure one about its head and tail (`NextIsFounded`, `RestIsAPlan`).
`AcknowledgedRunsAreWhole` needs `Whole`: what a call has in its file and what it has still to insert are together all the rows of the run it was asked for, no two calls
record as one, and no two runs of a file have one id. What is left is arithmetic that `RunRow` did beforehand: the sum of the totals is shown to be the number of
the things counted (`Units`, a pair for each unit of fuel), so that it does not matter in which order, or grouped by which file, they are added.

`ParserCacheProofs` proves all six properties for any callers, batches and files, from one vetted digest, `SmallFuel < MaxFuel` and budgets that are computed from sizes
staying below `u64::MAX`. `IInv` says of each caller what it needs to know in its place: a cache entry was compiled from no
version older than its key (`CacheOK`), and the current lookup, the entries so far and the settled items belong to
versions no older than the call (`Called`, `LooksUp`, `Settled`).

`LiveReviewProofs` proves all five, and `PolicyEditIsShown`, for any finite set of paths, any contents, similarity, history and number of steps; the policy's file is not Python, which
its name settles. `IInv` adds five parts to the properties: `Shape` (types, and what each stage may rely on: `Staged`), `OldSides` (every old side is of the
commit the old ref was resolved to, and no row is read before it is), `Diffs` (there is a diff for each row so far, of that row and by its parser),
`Scoped` (the thread's dialects are set exactly between entering and dropping the scope) and `Kept`: each path of `steady` is still changed and is in a row already, in an entry still
to be read, or among the files still to be listed, and its entry's sides are text, so that reading it makes a row. That a path gets into the inventory is where git comes in:
`git diff` lists every difference, by itself or as one side of a rename, whatever it takes for similar (`InventoryFinds`).

`InductionLemmas` holds what these proofs share. The library's induction theorems cannot be instantiated, so induction is over sets: a set of numbers with a member has a
least one (`Least`), one with 0 and every successor is all of them (`AllNumbers`), one that gains a set of members by adding one has all finite sets (`AllSubsets`). From
the last follow the folds of the community modules: that one exists (`FoldExists`), and that a sum of sizes is the size of the whole (`SumOfParts`).

Only model-checked: `EmptyExactlyForEqualTrees` for trees lower than `min_height` (the catalogue has the empty file); `ChangesStayTold` and `ChangesStayInSight`, which count tokens, hold on the catalogue under conditions on the
pair of files (above) and are no invariants of all trees: what is true of all is `TokensGoForAReason`, which names the reasons. `CallsReturn` is liveness and out of the prover's reach.

## Smaller abstractions

- `CacheRegistry`: the `CREATE INDEX` statements do not fail in `CreateNext`, and the cutoff of the eviction is taken with the version, a few statements before
  `evict` reads the clock. A failing `SELECT` of a get is a miss (`Answers`). The run `cache_retention` has no clear: that rows go by a clear
  is in the theorem alone.
- `AnalyticsStore`: a query may be any SQL; the model lets it only read.
- `ParserCache`: `RunPair` leaves out the fuel of the instantiation, the validation of the input and the limits on its bytes.
- `SemanticTree`: `BranchLabel` calls every node without children by its type; the code gives it its text, so an empty file's root has an empty label.
- `TreeMatching`: `SameBody` compares trees; there is no text outside them whose trimmed snippets could be compared too.
- `ReviewFinalization`: drafts are a set, so a leaf update that `DescendantLeafUpdates` finds below two nested modifications is in it once.
- `LiveReview`: the early return for the language `generic`, before any scope, is left out of `FileDeclined`.

## Not modelled, and the plan

1. The passes of `finalize_python_review_drafts` that need literal tokens and texts in the trees, with `decorator_order.rs`,
   `function_extraction.rs` and `invariance_groups.rs`.
2. Proofs: what `TokensGo` says of the refinement, for the finalization too (`ChangesStayInSight`): its passes drop a modification for another around it or in it, and the reasons multiply.
3. Reviews by patch and other version control systems (`patch_source.rs`, `vcs_backend.rs`): one command or one text each.

The parser manifest is cached for the life of the process (`parser_registry.rs:44`); nothing is promised of a directory that is provisioned
anew, so there is nothing to check. Compiled components are never evicted; nothing bounds them, and `CachedComponentIsKept` says as much.

Not planned: vocabulary tables per language and the passes that only look things up in them (their value is in data), the evaluation of guardrail rules, configuration,
asset comparison and the symbol index (functions of their input), renderers and the command line (presentation), vendored crates.
