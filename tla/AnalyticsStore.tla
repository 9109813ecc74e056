---------------------------- MODULE AnalyticsStore ----------------------------
(****************************************************************************)
(* The diff-history and fuel-diagnostics store: analytics_registry.rs over  *)
(* analytics_store.rs over SQLite or a DuckDB library found at run time     *)
(* (duckdb_ffi.rs).  Implements StoreRegistry.                              *)
(*                                                                          *)
(* A recording is a list of INSERT statements, each of which takes the      *)
(* connection's mutex by itself and commits by itself: what can happen      *)
(* between two of them is another thread's statement, a close, a failure of *)
(* the next one, or the end of the process.                                 *)
(****************************************************************************)
EXTENDS Naturals, Sequences, SequencesExt

CONSTANTS
  Thread, Path, Store, NoStore, NoKey,   \* as in StoreRegistry
  RunId,      \* the ids a caller may choose for its run
  NoRun,      \* the run of a diff recorded alone
  Batch,      \* the lists of diffs a caller may record
  MaxCalls    \* bound on the calls ever begun

ASSUME NoStoreAssumption == NoStore \notin Store
ASSUME NoKeyAssumption == NoKey \notin Path
ASSUME BoundAssumption == MaxCalls \in Nat

(* A diff is text that is no JSON, a JSON value that is no object, or an    *)
(* object with its parser calls, hotspots and events.                       *)
ASSUME BatchAssumption ==
  Batch \subseteq Seq([form : {"garbage", "value", "object"},
                       calls : Seq([fuel : Nat, total : Nat]),
                       hotspots : Nat, events : Nat])

VARIABLES
  reg,       \* the map behind the registry mutex
  open,      \* the stores whose `open` flag is set
  owner,     \* the path a store was opened with
  engine,    \* the engine of a store's backend
  kind,      \* what a path holds: nothing yet, or one engine's database
  db,        \* the committed rows of a path
  pc, key, held, outcome,    \* a thread's place, path, Arc and result
  job,       \* what its call has to do
  todo,      \* the rows its call has still to insert, by position
  acked,     \* the calls that recorded a run and returned its id
  calls      \* the calls begun so far; a call's number stands for the UUIDs it mints

vars == <<reg, open, owner, engine, kind, db, pc, key, held, outcome, job, todo,
          acked, calls>>

registryVars == <<reg, open, owner, engine, kind>>

NoJob == [op |-> "none", call |-> 0]

-----------------------------------------------------------------------------
(****************************************************************************)
(* The rows of a recording, in the order of its statements.                 *)
(****************************************************************************)
Row(table, run, call, pos, n, data) ==
  [table |-> table, run |-> run, call |-> call, pos |-> pos, n |-> n, data |-> data]

MaxFunction(f) == FoldFunction(LAMBDA x, acc : IF x > acc THEN x ELSE acc, 0, f)

(* A parser call reports its fuel and, unless 0 stands for nothing, the     *)
(* total over its repetitions.                                              *)
TotalFuel(c) == IF c.total = 0 THEN c.fuel ELSE c.total

(* Mutant: the total of a file is the sum of its peaks. *)
FileFuelSummaryOfPeaks(d) ==
  [peak |-> MaxFunction([i \in DOMAIN d.calls |-> d.calls[i].fuel]),
   total |-> SumFunction([i \in DOMAIN d.calls |-> d.calls[i].fuel]),
   hotspots |-> d.hotspots]

(* (peak, total, hotspots) of a file. *)
FileFuelSummary(d) ==
  [peak |-> MaxFunction([i \in DOMAIN d.calls |-> d.calls[i].fuel]),
   total |-> SumFunction([i \in DOMAIN d.calls |-> TotalFuel(d.calls[i])]),
   hotspots |-> d.hotspots]

ParserCallRows(run, call, pos, d) ==
  [n \in DOMAIN d.calls |->
     Row("parser_calls", run, call, pos, n,
         [fuel |-> d.calls[n].fuel, total |-> TotalFuel(d.calls[n])])]

HotspotRows(run, call, pos, d) ==
  [n \in 1..d.hotspots |-> Row("hotspots", run, call, pos, n, <<>>)]

EventRows(run, call, pos, d) ==
  [n \in 1..d.events |-> Row("events", run, call, pos, n, <<>>)]

HistoryRow(call, pos) == Row("diff_history", NoRun, call, pos, 0, <<>>)
FileRow(run, call, pos, d) == Row("files", run, call, pos, 0, FileFuelSummary(d))

FileRows(run, call, pos, d) ==
  <<HistoryRow(call, pos), FileRow(run, call, pos, d)>>
    \o ParserCallRows(run, call, pos, d)
    \o HotspotRows(run, call, pos, d)
    \o EventRows(run, call, pos, d)

(* Only JSON objects are recorded in a run, and counted in its row. *)
Parsed(diffs) == RestrictValues(diffs, LAMBDA d : d.form = "object")

RunRow(run, call, parsed) ==
  LET sums == [i \in DOMAIN parsed |-> FileFuelSummary(parsed[i])]
  IN  Row("runs", run, call, 0, 0,
          [diffs |-> Cardinality(DOMAIN parsed),
           total |-> SumFunction([i \in DOMAIN sums |-> sums[i].total]),
           peak |-> MaxFunction([i \in DOMAIN sums |-> sums[i].peak]),
           hotspots |-> SumFunction([i \in DOMAIN sums |-> sums[i].hotspots])])

(* Mutant: the run is recorded when its files are. *)
RunRowsLast(run, call, parsed) ==
  LET last == 1 + Max({0} \cup DOMAIN parsed)
  IN  [i \in {last} \cup DOMAIN parsed |->
         IF i = last THEN <<RunRow(run, call, parsed)>>
                     ELSE FileRows(run, call, i, parsed[i])]

(* The run comes first, then the rows of each file. *)
RunRows(run, call, parsed) ==
  [i \in {0} \cup DOMAIN parsed |->
     IF i = 0 THEN <<RunRow(run, call, parsed)>>
              ELSE FileRows(run, call, i, parsed[i])]

(* What a call inserts.  Text that is no JSON is skipped by record_diff.    *)
RowsOf(op, run, call, diffs) ==
  CASE op = "run" -> RunRows(run, call, Parsed(diffs))
    [] op = "diff" /\ diffs[1].form # "garbage" -> <<<<HistoryRow(call, 1)>>>>
    [] OTHER -> <<>>

-----------------------------------------------------------------------------
Init ==
  /\ reg = [p \in Path |-> NoStore]
  /\ open = {}
  /\ owner = [s \in Store |-> NoKey]
  /\ engine = [s \in Store |-> "none"]
  /\ kind = [p \in Path |-> "none"]
  /\ db = [p \in Path |-> {}]
  /\ pc = [t \in Thread |-> "idle"]
  /\ key = [t \in Thread |-> NoKey]
  /\ held = [t \in Thread |-> NoStore]
  /\ outcome = [t \in Thread |-> "none"]
  /\ job = [t \in Thread |-> NoJob]
  /\ todo = [t \in Thread |-> <<>>]
  /\ acked = {}
  /\ calls = 0

Goto(t, l) == pc' = [pc EXCEPT ![t] = l]

(* Mutant: the call returns without dropping its Arc. *)
FinishKeepsArc(t, result) ==
  /\ Goto(t, "idle")
  /\ key' = [key EXCEPT ![t] = NoKey]
  /\ outcome' = [outcome EXCEPT ![t] = result]
  /\ job' = [job EXCEPT ![t] = NoJob]
  /\ todo' = [todo EXCEPT ![t] = <<>>]
  /\ UNCHANGED held

(* The call returns and drops its Arc. *)
Finish(t, result) ==
  /\ Goto(t, "idle")
  /\ key' = [key EXCEPT ![t] = NoKey]
  /\ held' = [held EXCEPT ![t] = NoStore]
  /\ outcome' = [outcome EXCEPT ![t] = result]
  /\ job' = [job EXCEPT ![t] = NoJob]
  /\ todo' = [todo EXCEPT ![t] = <<>>]

Begin(t, p, label, op, rows) ==
  /\ pc[t] = "idle"
  /\ calls < MaxCalls
  /\ calls' = calls + 1
  /\ Goto(t, label)
  /\ key' = [key EXCEPT ![t] = p]
  /\ outcome' = [outcome EXCEPT ![t] = "none"]
  /\ job' = [job EXCEPT ![t] = [op |-> op, call |-> calls + 1]]
  /\ todo' = [todo EXCEPT ![t] = rows]
  /\ UNCHANGED <<registryVars, db, held, acked>>

(* open, backend and the queries. *)
CallRead(t, p, op) ==
  /\ op \in {"open", "query"}
  /\ Begin(t, p, "lookup", op, <<>>)

CallRecordDiff(t, p) ==
  \E diffs \in Batch :
    /\ Len(diffs) = 1
    /\ Begin(t, p, "lookup", "diff", RowsOf("diff", NoRun, calls + 1, diffs))

(* run_id.unwrap_or_else(uuid): the caller's id, or a fresh one. *)
CallRecordRun(t, p) ==
  \E diffs \in Batch, run \in RunId \cup {calls + 1} :
    Begin(t, p, "lookup", "run", RowsOf("run", run, calls + 1, diffs))

CallClose(t, p) == Begin(t, p, "remove", "close", <<>>)

-----------------------------------------------------------------------------
(****************************************************************************)
(* store_for, with AnalyticsStore::open outside the registry lock.          *)
(****************************************************************************)
LookupHit(t) ==
  /\ pc[t] = "lookup"
  /\ reg[key[t]] # NoStore
  /\ held' = [held EXCEPT ![t] = reg[key[t]]]
  /\ Goto(t, "use")
  /\ UNCHANGED <<registryVars, db, key, outcome, job, todo, acked, calls>>

LookupMiss(t) ==
  /\ pc[t] = "lookup"
  /\ reg[key[t]] = NoStore
  /\ Goto(t, "opening")
  /\ UNCHANGED <<registryVars, db, key, held, outcome, job, todo, acked, calls>>

(* duckdb_ffi::try_open found a library and the library took the file: it   *)
(* makes a new one its own and refuses one of SQLite's.                     *)
DuckDbOpens(t) ==
  /\ pc[t] = "opening"
  /\ kind[key[t]] \in {"none", "duckdb"}
  /\ kind' = [kind EXCEPT ![key[t]] = "duckdb"]
  /\ Goto(t, "schema")
  /\ UNCHANGED <<reg, open, owner, engine, db, key, held, outcome, job, todo, acked, calls>>

(* No candidate library loads, or none opens the file. *)
DuckDbUnavailable(t) ==
  /\ pc[t] = "opening"
  /\ Goto(t, "sqlite")
  /\ UNCHANGED <<registryVars, db, key, held, outcome, job, todo, acked, calls>>

(* The schema batch failed on DuckDB: the handle is dropped, and SQLite is  *)
(* tried on what is now a DuckDB file.                                      *)
DuckDbSchemaFails(t) ==
  /\ pc[t] = "schema"
  /\ Goto(t, "sqlite")
  /\ UNCHANGED <<registryVars, db, key, held, outcome, job, todo, acked, calls>>

(* A store object nobody can reach: its memory can hold a new one. *)
Unreachable(s) ==
  /\ s \notin open
  /\ \A p \in Path : reg[p] # s
  /\ \A t \in Thread : held[t] # s

NewStore(t, e) ==
  /\ \E s \in Store :
       /\ Unreachable(s)
       /\ open' = open \cup {s}
       /\ owner' = [owner EXCEPT ![s] = key[t]]
       /\ engine' = [engine EXCEPT ![s] = e]
       /\ held' = [held EXCEPT ![t] = s]
  /\ Goto(t, "register")

DuckDbReady(t) ==
  /\ pc[t] = "schema"
  /\ NewStore(t, "duckdb")
  /\ UNCHANGED <<reg, kind, db, key, outcome, job, todo, acked, calls>>

(* Mutant: the result of SQLite's schema batch is not looked at. *)
SqliteOpensUnchecked(t) ==
  /\ pc[t] = "sqlite"
  /\ kind' = [kind EXCEPT ![key[t]] = IF @ = "none" THEN "sqlite" ELSE @]
  /\ NewStore(t, "sqlite")
  /\ UNCHANGED <<reg, db, key, outcome, job, todo, acked, calls>>

(* Connection::open succeeds on any file; the schema batch tells a file     *)
(* that is not SQLite's.                                                    *)
SqliteOpens(t) ==
  /\ pc[t] = "sqlite"
  /\ kind[key[t]] \in {"none", "sqlite"}
  /\ kind' = [kind EXCEPT ![key[t]] = "sqlite"]
  /\ NewStore(t, "sqlite")
  /\ UNCHANGED <<reg, db, key, outcome, job, todo, acked, calls>>

(* The directory cannot be made, or SQLite cannot open or use the file. *)
OpenFails(t) ==
  /\ pc[t] \in {"opening", "sqlite"}
  /\ Finish(t, "open_error")
  /\ UNCHANGED <<registryVars, db, acked, calls>>

RegisterFirst(t) ==
  /\ pc[t] = "register"
  /\ reg[key[t]] = NoStore
  /\ reg' = [reg EXCEPT ![key[t]] = held[t]]
  /\ Goto(t, "use")
  /\ UNCHANGED <<open, owner, engine, kind, db, key, held, outcome, job, todo, acked, calls>>

(* Mutant: insert(..) in place of or_insert_with(..). *)
RegisterLast(t) ==
  /\ pc[t] = "register"
  /\ reg[key[t]] # NoStore
  /\ reg' = [reg EXCEPT ![key[t]] = held[t]]
  /\ Goto(t, "use")
  /\ UNCHANGED <<open, owner, engine, kind, db, key, held, outcome, job, todo, acked, calls>>

RegisterLoser(t) ==
  /\ pc[t] = "register"
  /\ reg[key[t]] # NoStore
  /\ open' = open \ {held[t]}
  /\ held' = [held EXCEPT ![t] = reg[key[t]]]
  /\ Goto(t, "use")
  /\ UNCHANGED <<reg, owner, engine, kind, db, key, outcome, job, todo, acked, calls>>

-----------------------------------------------------------------------------
(****************************************************************************)
(* The operations.  None of them looks at the `open` flag.                  *)
(****************************************************************************)

(* open and backend are done with the store; a query reads one statement's  *)
(* result, or is refused before it (limit, read-only guard); record_diff    *)
(* of text that is no JSON returns Ok.                                      *)
Return(t) ==
  /\ pc[t] = "use"
  /\ DOMAIN todo[t] = {}
  /\ \E result \in {"ok"} \cup (IF job[t].op = "query" THEN {"error"} ELSE {}) :
       Finish(t, result)
  /\ UNCHANGED <<registryVars, db, acked, calls>>

(* The next statement, and what comes after it. *)
Position(t) == CHOOSE i \in DOMAIN todo[t] : \A j \in DOMAIN todo[t] : i <= j
NextRow(t) == Head(todo[t][Position(t)])

Rest(t) ==
  LET i == Position(t)
  IN  IF Len(todo[t][i]) = 1
      THEN Restrict(todo[t], DOMAIN todo[t] \ {i})
      ELSE [todo[t] EXCEPT ![i] = Tail(@)]

(* diagnostic_runs.id is the only key a caller can choose. *)
Taken(t, row) ==
  row.table = "runs" /\ \E r \in db[key[t]] : r.table = "runs" /\ r.run = row.run

Insert(t) ==
  /\ db' = [db EXCEPT ![key[t]] = @ \cup {NextRow(t)}]
  /\ IF DOMAIN Rest(t) = {}
     THEN /\ Finish(t, "ok")
          /\ acked' = IF job[t].op = "run" THEN acked \cup {job[t].call} ELSE acked
     ELSE /\ todo' = [todo EXCEPT ![t] = Rest(t)]
          /\ UNCHANGED <<pc, key, held, outcome, job, acked>>
  /\ UNCHANGED <<registryVars, calls>>

(* Mutant: a run is recorded under an id that is taken (INSERT OR IGNORE). *)
InsertOrIgnore(t) ==
  /\ pc[t] = "use"
  /\ DOMAIN todo[t] # {}
  /\ IF Taken(t, NextRow(t))
     THEN /\ todo' = [todo EXCEPT ![t] = Rest(t)]
          /\ UNCHANGED <<registryVars, db, pc, key, held, outcome, job, acked, calls>>
     ELSE Insert(t)

InsertNext(t) ==
  /\ pc[t] = "use"
  /\ DOMAIN todo[t] # {}
  /\ ~ Taken(t, NextRow(t))
  /\ Insert(t)

(* Mutant: a failed statement is passed over, the recording goes on. *)
StatementSkipped(t) ==
  /\ pc[t] = "use"
  /\ DOMAIN todo[t] # {}
  /\ DOMAIN Rest(t) # {}
  /\ todo' = [todo EXCEPT ![t] = Rest(t)]
  /\ UNCHANGED <<registryVars, db, pc, key, held, outcome, job, acked, calls>>

(* A statement fails (the disk is full, another process holds the file too  *)
(* long, the id is taken) and ? returns from the recording.                 *)
StatementFails(t) ==
  /\ pc[t] = "use"
  /\ DOMAIN todo[t] # {}
  /\ Finish(t, "error")
  /\ UNCHANGED <<registryVars, db, acked, calls>>

RemoveEntry(t) ==
  /\ pc[t] = "remove"
  /\ reg[key[t]] # NoStore
  /\ reg' = [reg EXCEPT ![key[t]] = NoStore]
  /\ held' = [held EXCEPT ![t] = reg[key[t]]]
  /\ Goto(t, "closing")
  /\ UNCHANGED <<open, owner, engine, kind, db, key, outcome, job, todo, acked, calls>>

RemoveNothing(t) ==
  /\ pc[t] = "remove"
  /\ reg[key[t]] = NoStore
  /\ Finish(t, "ok")
  /\ UNCHANGED <<registryVars, db, acked, calls>>

(* close only clears the flag: the connection goes with the last Arc. *)
ClearOpen(t) ==
  /\ pc[t] = "closing"
  /\ open' = open \ {held[t]}
  /\ Finish(t, "ok")
  /\ UNCHANGED <<reg, owner, engine, kind, db, acked, calls>>

(* The process ends at any point; what was committed stays. *)
Exit ==
  /\ reg' = [p \in Path |-> NoStore]
  /\ open' = {}
  /\ pc' = [t \in Thread |-> "idle"]
  /\ key' = [t \in Thread |-> NoKey]
  /\ held' = [t \in Thread |-> NoStore]
  /\ outcome' = [t \in Thread |-> "none"]
  /\ job' = [t \in Thread |-> NoJob]
  /\ todo' = [t \in Thread |-> <<>>]
  /\ UNCHANGED <<owner, engine, kind, db, acked, calls>>

Step(t) ==
  \/ LookupHit(t) \/ LookupMiss(t)
  \/ DuckDbOpens(t) \/ DuckDbUnavailable(t) \/ DuckDbSchemaFails(t) \/ DuckDbReady(t)
  \/ SqliteOpens(t) \/ OpenFails(t)
  \/ RegisterFirst(t) \/ RegisterLoser(t)
  \/ Return(t) \/ InsertNext(t) \/ StatementFails(t)
  \/ RemoveEntry(t) \/ RemoveNothing(t) \/ ClearOpen(t)

Begins(t) ==
  \E p \in Path :
    \/ \E op \in {"open", "query"} : CallRead(t, p, op)
    \/ CallRecordDiff(t, p)
    \/ CallRecordRun(t, p)
    \/ CallClose(t, p)

Next == (\E t \in Thread : Begins(t) \/ Step(t)) \/ Exit

Spec == Init /\ [][Next]_vars

-----------------------------------------------------------------------------
(****************************************************************************)
(* Properties.                                                              *)
(****************************************************************************)
Labels == {"idle", "lookup", "opening", "schema", "sqlite", "register", "use",
           "remove", "closing"}

Tables == {"runs", "diff_history", "files", "parser_calls", "hotspots", "events"}

RowIds == RunId \cup {NoRun} \cup 1..MaxCalls

TypeOK ==
  /\ reg \in [Path -> Store \cup {NoStore}]
  /\ open \subseteq Store
  /\ owner \in [Store -> Path \cup {NoKey}]
  /\ engine \in [Store -> {"none", "sqlite", "duckdb"}]
  /\ kind \in [Path -> {"none", "sqlite", "duckdb"}]
  /\ \A p \in Path : \A r \in db[p] : r.table \in Tables /\ r.run \in RowIds /\ r.call \in 1..calls
  /\ pc \in [Thread -> Labels]
  /\ key \in [Thread -> Path \cup {NoKey}]
  /\ held \in [Thread -> Store \cup {NoStore}]
  /\ outcome \in [Thread -> {"none", "ok", "error", "open_error"}]
  /\ \A t \in Thread : job[t] = NoJob <=> pc[t] = "idle"
  /\ \A t \in Thread : held[t] # NoStore <=> pc[t] \in {"register", "use", "closing"}
  /\ acked \subseteq 1..calls
  /\ calls \in 0..MaxCalls

RowsIn(p, table) == {r \in db[p] : r.table = table}

(* Whatever stops a recording, and whoever else records under the same id:  *)
(* each row of a run names a run that is there and was begun by the same    *)
(* call, each detail a file of that run, and each file is in the history    *)
(* too.  So the join of hotspots and runs behind top_fuel_hotspots loses no *)
(* row and shows nobody else's command.                                     *)
RowsBelongToTheirRun ==
  \A p \in Path : \A r \in db[p] :
    /\ r.table \notin {"runs", "diff_history"} =>
         \E run \in RowsIn(p, "runs") : run.run = r.run /\ run.call = r.call
    /\ r.table \in {"parser_calls", "hotspots", "events"} =>
         \E file \in RowsIn(p, "files") :
           file.run = r.run /\ file.call = r.call /\ file.pos = r.pos
    /\ r.table = "files" =>
         \E h \in RowsIn(p, "diff_history") : h.call = r.call /\ h.pos = r.pos

SumOfData(rows, f(_)) == FoldSet(LAMBDA r, acc : f(r) + acc, 0, rows)

(* A run whose id was returned to its caller is whole, and the totals in    *)
(* its row, computed before any detail is recorded, are those of the rows   *)
(* recorded after it: its files, their fuel, their hotspots.                *)
AcknowledgedRunIsWhole ==
  \A c \in acked : \E p \in Path : \E run \in RowsIn(p, "runs") :
    LET Of(table) == {r \in RowsIn(p, table) : r.run = run.run}
    IN  /\ run.call = c
        /\ Cardinality(Of("files")) = run.data.diffs
        /\ Cardinality(Of("hotspots")) = run.data.hotspots
        /\ SumOfData(Of("parser_calls"), LAMBDA r : r.data.total) = run.data.total
        /\ \A r \in Of("parser_calls") : r.data.fuel <= run.data.peak

(* "A DuckDB file and a SQLite file are not interchangeable": a store that  *)
(* somebody can reach runs the engine its file was made by, whichever       *)
(* library was found when the file, or the store, was opened.               *)
EngineMatchesFile ==
  \A s \in Store :
    (\E p \in Path : reg[p] = s) \/ (\E t \in Thread : held[t] = s)
      => engine[s] = kind[owner[s]]

(* To a caller the store is the registry's: the steps of opening are one,   *)
(* a recording is one use, and no operation finds its store closed.         *)
Registry == INSTANCE StoreRegistry WITH
  Key <- Path,
  opened <- open,
  pc <- [t \in Thread |-> IF pc[t] \in {"schema", "sqlite"} THEN "opening" ELSE pc[t]],
  outcome <- [t \in Thread |-> IF outcome[t] \in {"ok", "error"} THEN "done" ELSE outcome[t]]

ImplementsRegistry == Registry!Spec
=============================================================================
