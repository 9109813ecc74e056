---------------------------- MODULE CacheRegistry ----------------------------
(****************************************************************************)
(* The disk cache as its callers see it: the threads of a process calling   *)
(* the stateless entry points of cache_registry.rs, each of which fetches   *)
(* the warm SqliteStore of its identity and runs one operation of           *)
(* cache_store.rs on it, statement by statement.                            *)
(*                                                                          *)
(* All identities here name the same file with different retention, so two  *)
(* of them are two connections to one file.  To the file, a second process  *)
(* is one more connection: it is covered by a further identity.             *)
(*                                                                          *)
(* Locks.  The registry mutex is only ever held for one action.  The        *)
(* connection mutex of a store is held from Acquire to the end of the       *)
(* operation: MutexFree.  The file's own write lock is inside a statement.  *)
(****************************************************************************)
EXTENDS CacheFile, SequencesExt

CONSTANTS
  Thread, Key, Store, NoStore, NoKey,   \* as in StoreRegistry
  Ttl,          \* ttl_days of an identity, in ticks of the clock
  Cap,          \* max_mb of an identity, in bytes
  Ops,          \* the entry points the threads call
  Files,        \* the states the file may be in at the start
  MaxNow,       \* bound on the clock
  MaxCalls,     \* bound on the number of calls
  MaxCount,     \* bound on the hit and miss counters, which stop there
  DiskErrors    \* whether a statement may fail (disk full, I/O error)

ASSUME NoStoreAssumption == NoStore \notin Store
ASSUME NoKeyAssumption == NoKey \notin Key
ASSUME RetentionAssumption == Ttl \in [Key -> Nat] /\ Cap \in [Key -> Nat]
ASSUME FilesAssumption == Files \subseteq {"fresh", "older", "current"}
ASSUME BoundsAssumption == MaxNow \in Nat /\ MaxCalls \in Nat /\ MaxCount \in Nat

VARIABLES
  file,         \* [version, tables, hits, misses]
  now,          \* now_epoch()
  reg, opened, owner, pc, held, outcome,   \* as in StoreRegistry
  job,          \* the call a thread is in
  scan,         \* the local variables of its loops
  calls         \* how many calls have been made

vars == <<file, now, reg, opened, owner, pc, held, outcome, job, scan, calls>>
registry == <<reg, opened, owner>>

NoJob == [op |-> "none", key |-> NoKey]
Jobs ==
  UNION {
    [op : {"open", "close"} \cap Ops, key : Key],
    [op : {"get"} \cap Ops, key : Key, table : Table, item : Item],
    [op : {"put"} \cap Ops, key : Key, table : Table, item : Item, payload : Value],
    [op : {"clear"} \cap Ops, key : Key, tables : SUBSET Table \ {{}}],
    [op : {"export"} \cap Ops, key : Key, table : Table] }

OpenLabels == {"create", "version", "stamp", "drop", "recreate", "restamp",
               "expire", "measure", "collect", "trim", "construct"}
LockedLabels == {"body", "bump"}
UnlockedLabels == {"use", "between", "payload"}
Labels == {"idle", "lookup", "register", "remove", "closing"}
            \cup OpenLabels \cup LockedLabels \cup UnlockedLabels
Outcomes == {"none", "done", "closed", "open_error", "db_error"}

(* pos: place in a loop over tables.  cutoff, total, removed: evict's.      *)
(* queue: the cache keys a loop still has to visit.  meta: the metadata an  *)
(* export has read for the key in front.  out: the rows it has written.     *)
(* hit: what a get's SELECT found.                                          *)
NoScan == [pos |-> 1, cutoff |-> 0, total |-> 0, removed |-> 0, queue |-> <<>>,
           meta |-> NoRow, out |-> {}, hit |-> NoRow]

(* The tables a loop at label l goes through. *)
LoopOver(l) == IF l \in {"measure", "collect", "trim"} THEN SizedOrder ELSE TableOrder

TypeOK ==
  /\ file.version \in Versions
  /\ file.tables \in [Table -> Rows \cup {NoTable}]
  /\ file.hits \in [Table -> 0..MaxCount] /\ file.misses \in [Table -> 0..MaxCount]
  /\ now \in 0..MaxNow
  /\ reg \in [Key -> Store \cup {NoStore}]
  /\ opened \in SUBSET Store
  /\ pc \in [Thread -> Labels]
  /\ held \in [Thread -> Store \cup {NoStore}]
  /\ outcome \in [Thread -> Outcomes]
  /\ \A t \in Thread :
       /\ job[t] \in Jobs \cup {NoJob}
       /\ job[t] = NoJob <=> pc[t] = "idle"
       /\ scan[t].pos \in 1..Len(LoopOver(pc[t]))
       /\ pc[t] \notin {"trim", "between", "payload"} => scan[t].queue = <<>>

-----------------------------------------------------------------------------
(****************************************************************************)
(* Initial states: no file yet, a cache left by an earlier process, or one  *)
(* left by a release with another schema version.                           *)
(****************************************************************************)
LeftBy(v) == {EmptyTable} \cup {[i \in Item |-> [payload |-> v, created_at |-> 0]]}

FileAtStart(kind) ==
  LET with(version, contents) ==
        [version : {version}, tables : [Table -> contents],
         hits : {[T \in Table |-> 0]}, misses : {[T \in Table |-> 0]}]
  IN CASE kind = "fresh"   -> with("none", {NoTable})
       [] kind = "current" -> with("current", UNION {LeftBy(v) : v \in Value})
       [] kind = "older"   -> with("older", LeftBy(Legacy))

Init ==
  /\ file \in UNION {FileAtStart(kind) : kind \in Files}
  /\ now = 0
  /\ reg = [k \in Key |-> NoStore]
  /\ opened = {}
  /\ owner = [s \in Store |-> NoKey]
  /\ pc = [t \in Thread |-> "idle"]
  /\ held = [t \in Thread |-> NoStore]
  /\ outcome = [t \in Thread |-> "none"]
  /\ job = [t \in Thread |-> NoJob]
  /\ scan = [t \in Thread |-> NoScan]
  /\ calls = 0

-----------------------------------------------------------------------------
Goto(t, l) == pc' = [pc EXCEPT ![t] = l]

(* The call returns: its guards, its Arc and its locals are dropped. *)
Finish(t, result) ==
  /\ Goto(t, "idle")
  /\ held' = [held EXCEPT ![t] = NoStore]
  /\ job' = [job EXCEPT ![t] = NoJob]
  /\ scan' = [scan EXCEPT ![t] = NoScan]
  /\ outcome' = [outcome EXCEPT ![t] = result]
  /\ UNCHANGED calls

(* The thread goes on inside its call. *)
Continue(t, l, locals) ==
  /\ Goto(t, l)
  /\ scan' = [scan EXCEPT ![t] = locals]
  /\ UNCHANGED <<job, outcome, calls>>

(* Mutant: an export holds the connection mutex while it asks for rows.     *)
MutexFreeOfExports(s) ==
  \A u \in Thread : held[u] = s => pc[u] \notin LockedLabels \cup {"between", "payload"}

(* No operation is running on the connection of s. *)
MutexFree(s) == \A u \in Thread : held[u] = s => pc[u] \notin LockedLabels

(* Mutant: one table too many. *)
NextTablePastEnd(t, order, again, after) ==
  IF scan[t].pos <= Len(order)
  THEN Continue(t, again, [scan[t] EXCEPT !.pos = @ + 1])
  ELSE Continue(t, after, [scan[t] EXCEPT !.pos = 1])

(* A loop over the tables in order: what follows the table at pos. *)
NextTable(t, order, again, after) ==
  IF scan[t].pos < Len(order)
  THEN Continue(t, again, [scan[t] EXCEPT !.pos = @ + 1])
  ELSE Continue(t, after, [scan[t] EXCEPT !.pos = 1])

-----------------------------------------------------------------------------
(****************************************************************************)
(* Entering a call, and store_for.                                          *)
(****************************************************************************)
Begin(t) ==
  /\ pc[t] = "idle"
  /\ calls < MaxCalls
  /\ calls' = calls + 1
  /\ \E j \in Jobs :
       /\ job' = [job EXCEPT ![t] = j]
       /\ Goto(t, IF j.op = "close" THEN "remove" ELSE "lookup")
  /\ outcome' = [outcome EXCEPT ![t] = "none"]
  /\ UNCHANGED <<file, now, registry, held, scan>>

Lookup(t) ==
  /\ pc[t] = "lookup"
  /\ LET s == reg[job[t].key] IN
       IF s # NoStore
       THEN held' = [held EXCEPT ![t] = s] /\ Continue(t, "use", NoScan)
       ELSE UNCHANGED held /\ Continue(t, "create", NoScan)
  /\ UNCHANGED <<file, now, registry>>

Unreachable(s) ==
  /\ s \notin opened
  /\ \A k \in Key : reg[k] # s
  /\ \A t \in Thread : held[t] # s

Construct(t) ==
  /\ pc[t] = "construct"
  /\ \E s \in Store :
       /\ Unreachable(s)
       /\ opened' = opened \cup {s}
       /\ owner' = [owner EXCEPT ![s] = job[t].key]
       /\ held' = [held EXCEPT ![t] = s]
  /\ Continue(t, "register", NoScan)
  /\ UNCHANGED <<file, now, reg>>

(* Mutant: insert(..), the last opener replaces the first winner. *)
RegisterLastWins(t) ==
  /\ pc[t] = "register"
  /\ reg' = [reg EXCEPT ![job[t].key] = held[t]]
  /\ Continue(t, "use", NoScan)
  /\ UNCHANGED <<file, now, opened, owner, held>>

Register(t) ==
  /\ pc[t] = "register"
  /\ LET k == job[t].key IN
       IF reg[k] = NoStore
       THEN reg' = [reg EXCEPT ![k] = held[t]] /\ UNCHANGED <<opened, held>>
       ELSE /\ held' = [held EXCEPT ![t] = reg[k]]
            /\ opened' = opened \ {held[t]}
            /\ UNCHANGED reg
  /\ Continue(t, "use", NoScan)
  /\ UNCHANGED <<file, now, owner>>

-----------------------------------------------------------------------------
(****************************************************************************)
(* SqliteStore::open, one statement per action.  Any error ends the call    *)
(* and drops the connection; what was committed stays in the file.          *)
(****************************************************************************)
OpenFails(t) == Finish(t, "open_error") /\ UNCHANGED <<file, now, registry>>

(* execute_batch(CACHE_SCHEMA), before and after a rebuild. *)
CreateNext(t) ==
  /\ pc[t] \in {"create", "recreate"}
  /\ file' = [file EXCEPT !.tables = CreateTable(@, TableOrder[scan[t].pos])]
  /\ NextTable(t, TableOrder, pc[t], IF pc[t] = "create" THEN "version" ELSE "restamp")
  /\ UNCHANGED <<now, registry, held>>

(* Mutant: a new version number over the rows of the old schema. *)
ReadVersionKeepsRows(t) ==
  /\ pc[t] = "version"
  /\ Continue(t, CASE file.version = "none"    -> "stamp"
                   [] file.version = "older"   -> "restamp"
                   [] file.version = "current" -> "expire",
              [scan[t] EXCEPT !.cutoff = now - Ttl[job[t].key]])
  /\ UNCHANGED <<file, now, registry, held>>

ReadVersion(t) ==
  /\ pc[t] = "version"
  /\ Continue(t, CASE file.version = "none"    -> "stamp"
                   [] file.version = "older"   -> "drop"
                   [] file.version = "current" -> "expire",
              [scan[t] EXCEPT !.cutoff = now - Ttl[job[t].key]])
  /\ UNCHANGED <<file, now, registry, held>>

(* INSERT INTO meta: the key is the primary key, so a second INSERT fails.  *)
Stamp(t) ==
  /\ pc[t] = "stamp"
  /\ IF file.version = "none"
     THEN /\ file' = [file EXCEPT !.version = "current"]
          /\ Continue(t, "expire", [NoScan EXCEPT !.cutoff = now - Ttl[job[t].key]])
          /\ UNCHANGED <<now, registry, held>>
     ELSE OpenFails(t)

(* Mutant: the schema is not created again after the purge. *)
DropWithoutRecreate(t) ==
  /\ pc[t] = "drop"
  /\ file' = [file EXCEPT !.tables = DropTable(@, TableOrder[scan[t].pos])]
  /\ NextTable(t, TableOrder, "drop", "restamp")
  /\ UNCHANGED <<now, registry, held>>

DropNext(t) ==
  /\ pc[t] = "drop"
  /\ file' = [file EXCEPT !.tables = DropTable(@, TableOrder[scan[t].pos])]
  /\ NextTable(t, TableOrder, "drop", "recreate")
  /\ UNCHANGED <<now, registry, held>>

Restamp(t) ==
  /\ pc[t] = "restamp"
  /\ file' = [file EXCEPT !.version = "current"]
  /\ Continue(t, "expire", [NoScan EXCEPT !.cutoff = now - Ttl[job[t].key]])
  /\ UNCHANGED <<now, registry, held>>

-----------------------------------------------------------------------------
(****************************************************************************)
(* evict: expire every table, add up the sized ones, and when they exceed   *)
(* the cap take from each its oldest rows until a tenth of the total is     *)
(* gone.  The total and the order of a table are read before the rows go.   *)
(****************************************************************************)
ExpireNext(t) ==
  /\ pc[t] = "expire"
  /\ LET T == TableOrder[scan[t].pos] IN
       IF Exists(file.tables, T)
       THEN /\ file' = [file EXCEPT !.tables = DeleteOlder(@, T, scan[t].cutoff)]
            /\ NextTable(t, TableOrder, "expire", "measure")
            /\ UNCHANGED <<now, registry, held>>
       ELSE OpenFails(t)

MeasureNext(t) ==
  /\ pc[t] = "measure"
  /\ LET T == SizedOrder[scan[t].pos]
         total == scan[t].total + SumBytes(file.tables[T])
         last == scan[t].pos = Len(SizedOrder)
     IN IF ~Exists(file.tables, T) THEN OpenFails(t)
        ELSE /\ Continue(t, IF ~last THEN "measure"
                            ELSE IF total > Cap[job[t].key] THEN "collect" ELSE "construct",
                         [scan[t] EXCEPT !.total = total, !.pos = IF last THEN 1 ELSE @ + 1])
             /\ UNCHANGED <<file, now, registry, held>>

Collect(t) ==
  /\ pc[t] = "collect"
  /\ LET T == SizedOrder[scan[t].pos] IN
       IF ~Exists(file.tables, T) THEN OpenFails(t)
       ELSE /\ \E q \in OldestFirst(file.tables[T]) :
                 Continue(t, "trim", [scan[t] EXCEPT !.queue = q, !.removed = 0])
            /\ UNCHANGED <<file, now, registry, held>>

(* (total as f64 * 0.10) as i64 *)
TargetPerTable(t) == scan[t].total \div 10

Trim(t) ==
  /\ pc[t] = "trim"
  /\ LET T == SizedOrder[scan[t].pos]
         q == scan[t].queue
     IN IF q = <<>> \/ scan[t].removed >= TargetPerTable(t)
        THEN /\ IF scan[t].pos < Len(SizedOrder)
                THEN Continue(t, "collect", [scan[t] EXCEPT !.pos = @ + 1, !.queue = <<>>])
                ELSE Continue(t, "construct", NoScan)
             /\ UNCHANGED <<file, now, registry, held>>
        ELSE IF ~Exists(file.tables, T) THEN OpenFails(t)
        ELSE /\ file' = [file EXCEPT !.tables = DeleteRow(@, T, Head(q).item)]
             /\ Continue(t, "trim", [scan[t] EXCEPT !.queue = Tail(q),
                                                    !.removed = @ + Head(q).bytes])
             /\ UNCHANGED <<now, registry, held>>

OpenStep(t) ==
  \/ CreateNext(t) \/ ReadVersion(t) \/ Stamp(t) \/ DropNext(t) \/ Restamp(t)
  \/ ExpireNext(t) \/ MeasureNext(t) \/ Collect(t) \/ Trim(t)

-----------------------------------------------------------------------------
(****************************************************************************)
(* Operations.  with_conn takes the connection mutex, then finds the        *)
(* connection or an empty slot.                                             *)
(****************************************************************************)
WarmUp(t) ==
  /\ pc[t] = "use"
  /\ job[t].op = "open"
  /\ Finish(t, "done")
  /\ UNCHANGED <<file, now, registry>>

Acquire(t) ==
  /\ pc[t] = "use"
  /\ job[t].op # "open"
  /\ MutexFree(held[t])
  /\ IF held[t] \in opened
     THEN Continue(t, "body", NoScan) /\ UNCHANGED held
     ELSE Finish(t, "closed")
  /\ UNCHANGED <<file, now, registry>>

(* query_row(..).ok(): a SELECT that fails is a miss.                       *)
Answers(t) ==
  {SelectRow(file.tables, job[t].table, job[t].item)} \cup (IF DiskErrors THEN {NoRow} ELSE {})

GetSelect(t) ==
  /\ pc[t] = "body"
  /\ job[t].op = "get"
  /\ \E row \in Answers(t) : Continue(t, "bump", [NoScan EXCEPT !.hit = row])
  /\ UNCHANGED <<file, now, registry, held>>

Count(counters, T) == [counters EXCEPT ![T] = IF @ < MaxCount THEN @ + 1 ELSE @]

(* bump_metric, then the result is returned. *)
GetBump(t) ==
  /\ pc[t] = "bump"
  /\ file' = IF scan[t].hit # NoRow
             THEN [file EXCEPT !.hits = Count(@, job[t].table)]
             ELSE [file EXCEPT !.misses = Count(@, job[t].table)]
  /\ Finish(t, "done")
  /\ UNCHANGED <<now, registry>>

Put(t) ==
  /\ pc[t] = "body"
  /\ job[t].op = "put"
  /\ LET j == job[t] IN
       IF Exists(file.tables, j.table)
       THEN /\ file' = [file EXCEPT !.tables = PutRow(@, j.table, j.item, j.payload, now)]
            /\ Finish(t, "done")
       ELSE UNCHANGED file /\ Finish(t, "db_error")
  /\ UNCHANGED <<now, registry>>

(* One DELETE per chosen table; the first error ends the call. *)
ClearNext(t) ==
  /\ pc[t] = "body"
  /\ job[t].op = "clear"
  /\ LET T == TableOrder[scan[t].pos]
         chosen == T \in job[t].tables
         last == scan[t].pos = Len(TableOrder)
     IN IF chosen /\ ~Exists(file.tables, T)
        THEN UNCHANGED <<file, now, registry>> /\ Finish(t, "db_error")
        ELSE /\ file' = IF chosen THEN [file EXCEPT !.tables = EmptyOut(@, T)] ELSE file
             /\ IF last THEN Finish(t, "done")
                ELSE Continue(t, "body", [scan[t] EXCEPT !.pos = @ + 1]) /\ UNCHANGED held
             /\ UNCHANGED <<now, registry>>

-----------------------------------------------------------------------------
(****************************************************************************)
(* export_entries takes the connection once for the keys and then twice for *)
(* each key, for its metadata and for its payload.                          *)
(****************************************************************************)
ExportKeys(t) ==
  /\ pc[t] = "body"
  /\ job[t].op = "export"
  /\ LET T == job[t].table IN
       IF Exists(file.tables, T)
       THEN /\ \E q \in OldestFirst(file.tables[T]) :
                 Continue(t, "between", [NoScan EXCEPT !.queue = Reverse(q)])
            /\ UNCHANGED held
       ELSE Finish(t, "db_error")
  /\ UNCHANGED <<file, now, registry>>

(* get_entry_metadata and get_entry_payload: prepare() fails without the    *)
(* table, the payload's query_row(..).ok() does not.                        *)
ExportMetadata(t) ==
  /\ pc[t] = "between"
  /\ scan[t].queue # <<>>
  /\ MutexFree(held[t])
  /\ IF held[t] \notin opened THEN Finish(t, "closed")
     ELSE IF ~Exists(file.tables, job[t].table) THEN Finish(t, "db_error")
     ELSE /\ Continue(t, "payload", [scan[t] EXCEPT
                !.meta = SelectRow(file.tables, job[t].table, Head(scan[t].queue).item)])
          /\ UNCHANGED held
  /\ UNCHANGED <<file, now, registry>>

ExportPayload(t) ==
  /\ pc[t] = "payload"
  /\ MutexFree(held[t])
  /\ IF held[t] \notin opened THEN Finish(t, "closed")
     ELSE /\ Continue(t, "between", [scan[t] EXCEPT
                !.out = @ \cup {[meta    |-> scan[t].meta,
                                 payload |-> SelectRow(file.tables, job[t].table,
                                                       Head(scan[t].queue).item)]},
                !.meta = NoRow,
                !.queue = Tail(@)])
          /\ UNCHANGED held
  /\ UNCHANGED <<file, now, registry>>

ExportDone(t) ==
  /\ pc[t] = "between"
  /\ scan[t].queue = <<>>
  /\ Finish(t, "done")
  /\ UNCHANGED <<file, now, registry>>

-----------------------------------------------------------------------------
(****************************************************************************)
(* close, the environment, and the specification.                           *)
(****************************************************************************)
RemoveEntry(t) ==
  /\ pc[t] = "remove"
  /\ LET s == reg[job[t].key] IN
       IF s # NoStore
       THEN /\ reg' = [reg EXCEPT ![job[t].key] = NoStore]
            /\ held' = [held EXCEPT ![t] = s]
            /\ Continue(t, "closing", NoScan)
       ELSE UNCHANGED reg /\ Finish(t, "done")
  /\ UNCHANGED <<file, now, opened, owner>>

(* Mutant: the connection is taken without waiting for its mutex. *)
TakeConnectionUnlocked(t) ==
  /\ pc[t] = "closing"
  /\ opened' = opened \ {held[t]}
  /\ Finish(t, "done")
  /\ UNCHANGED <<file, now, reg, owner>>

TakeConnection(t) ==
  /\ pc[t] = "closing"
  /\ MutexFree(held[t])
  /\ opened' = opened \ {held[t]}
  /\ Finish(t, "done")
  /\ UNCHANGED <<file, now, reg, owner>>

(* A statement of open, or the write of an operation, fails. *)
StatementFails(t) ==
  /\ DiskErrors
  /\ \/ pc[t] \in OpenLabels \ {"construct"} /\ OpenFails(t)
     \/ /\ \/ pc[t] = "body" /\ job[t].op \in {"put", "clear"}
           \/ pc[t] = "bump"
        /\ Finish(t, "db_error")
        /\ UNCHANGED <<file, now, registry>>

(* The process is killed or exits; what was committed is in the file. *)
Exit ==
  /\ \E t \in Thread : pc[t] # "idle"
  /\ reg' = [k \in Key |-> NoStore]
  /\ opened' = {}
  /\ pc' = [t \in Thread |-> "idle"]
  /\ held' = [t \in Thread |-> NoStore]
  /\ outcome' = [t \in Thread |-> "none"]
  /\ job' = [t \in Thread |-> NoJob]
  /\ scan' = [t \in Thread |-> NoScan]
  /\ UNCHANGED <<file, now, owner, calls>>

Tick ==
  /\ now < MaxNow
  /\ now' = now + 1
  /\ UNCHANGED <<file, registry, pc, held, outcome, job, scan, calls>>

Step(t) ==
  \/ Lookup(t) \/ OpenStep(t) \/ Construct(t) \/ Register(t)
  \/ WarmUp(t) \/ Acquire(t)
  \/ GetSelect(t) \/ GetBump(t) \/ Put(t) \/ ClearNext(t)
  \/ ExportKeys(t) \/ ExportMetadata(t) \/ ExportPayload(t) \/ ExportDone(t)
  \/ RemoveEntry(t) \/ TakeConnection(t)

(* The callers have made the calls the bound allows. *)
Quiet ==
  /\ calls = MaxCalls
  /\ \A t \in Thread : pc[t] = "idle"
  /\ UNCHANGED vars

Next ==
  \/ \E t \in Thread : Begin(t) \/ Step(t) \/ StatementFails(t)
  \/ Exit
  \/ Tick
  \/ Quiet

Spec == Init /\ [][Next]_vars

(* Threads inside a call are scheduled, and mutexes go to those who wait. *)
FairSpec == Spec /\ \A t \in Thread : WF_vars(Step(t))

-----------------------------------------------------------------------------
(****************************************************************************)
(* Properties.                                                              *)
(****************************************************************************)

(* The registry below the operations: every step of open is one opening,    *)
(* every step of an operation is part of one use of the store.              *)
Registry ==
  INSTANCE StoreRegistry WITH
    pc <- [t \in Thread |-> CASE pc[t] \in OpenLabels -> "opening"
                             [] pc[t] \in LockedLabels \cup UnlockedLabels -> "use"
                             [] OTHER -> pc[t]],
    key <- [t \in Thread |-> job[t].key],
    outcome <- [t \in Thread |-> IF outcome[t] = "db_error" THEN "done" ELSE outcome[t]]

(* Statement by statement, under crashes and failing statements, the cache  *)
(* is a StoreRegistry: the first winner is kept, the loser's connection     *)
(* goes, and "cache store is closed" is reported only by a call whose store *)
(* a close took after the call had looked it up.                            *)
ImplementsRegistry == Registry!Spec

(* close waits for the operation that is running: no statement is left      *)
(* without its connection in the middle of an operation.                    *)
OperatesOnLiveConnection ==
  \A t \in Thread : pc[t] \in LockedLabels => held[t] \in opened

(* Payloads of another schema version never reach a caller: the version is  *)
(* recorded as current only when the tables it describes are gone, whatever *)
(* the statement an upgrade crashed or failed at and whoever else opened    *)
(* the file meanwhile; and only a file that is current is ever served.      *)
ServesCurrentSchema ==
  /\ \A k \in Key : reg[k] # NoStore => file.version = "current"
  /\ \A t \in Thread : scan[t].hit # NoRow => scan[t].hit.payload \in Value
  /\ file.version = "current" =>
       \A T \in Table : Exists(file.tables, T) =>
         \A i \in Items(file.tables[T]) : file.tables[T][i].payload # Legacy

(* While no statement fails, a served file lacks a table only as long as    *)
(* another opener, that read the old version too, is rebuilding it.         *)
TablesMissOnlyInRebuild ==
  (\E k \in Key : reg[k] # NoStore) =>
     \/ \A T \in Table : Exists(file.tables, T)
     \/ \E t \in Thread : pc[t] \in {"drop", "recreate"}

(* A row disappears from a table that stays only when it has outlived the   *)
(* retention of an identity being opened, or the cap of that identity was   *)
(* exceeded and the table counts towards it, or a caller clears the table.  *)
RowsGoForAReason ==
  [][\A T \in Table, i \in Item :
       LET row == SelectRow(file.tables, T, i) IN
       row # NoRow /\ Exists(file.tables', T) /\ file.tables'[T][i] = NoRow =>
         \E t \in Thread :
           \/ pc[t] = "expire" /\ now - row.created_at > Ttl[job[t].key]
           \/ pc[t] = "trim" /\ T \in Sized /\ scan[t].total > Cap[job[t].key]
           \/ pc[t] = "body" /\ job[t].op = "clear" /\ T \in job[t].tables]_vars

(* A first use never fails because another thread is opening the same file. *)
OpenNeverFails == \A t \in Thread : outcome[t] # "open_error"

(* "Every entry as a JSON array of {table, key, ...metadata, payload}": an  *)
(* exported row has both halves, of one and the same entry.                 *)
ExportsWholeRows ==
  \A t \in Thread : \A r \in scan[t].out : r.meta # NoRow /\ r.payload = r.meta

(* Every call returns, whatever the other callers do: nobody waits for a    *)
(* mutex that is never released.                                            *)
CallsReturn == \A t \in Thread : pc[t] # "idle" ~> pc[t] = "idle"
=============================================================================
