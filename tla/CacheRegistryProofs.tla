------------------------ MODULE CacheRegistryProofs ------------------------
(****************************************************************************)
(* Proofs about CacheRegistry, for any number of threads, identities and    *)
(* stores, any tables and retentions, whatever statements fail and however  *)
(* often the process exits.                                                 *)
(*                                                                          *)
(* Most steps are one of two: the thread goes on inside its call, or the    *)
(* call returns.  The shapes below say so of every step of open and of      *)
(* every step of an operation, so that what concerns the registry alone     *)
(* need not look at the statements.                                         *)
(****************************************************************************)
EXTENDS CacheRegistry, TLAPS

OperationLabels == LockedLabels \cup UnlockedLabels

(* What a thread has in its hands. *)
Hands ==
  /\ reg \in [Key -> Store \cup {NoStore}]
  /\ opened \subseteq Store
  /\ owner \in [Store -> Key \cup {NoKey}]
  /\ pc \in [Thread -> Labels]
  /\ held \in [Thread -> Store \cup {NoStore}]
  /\ outcome \in [Thread -> Outcomes]
  /\ job \in [Thread -> Jobs \cup {NoJob}]
  /\ DOMAIN scan = Thread
  /\ \A t \in Thread :
       /\ DOMAIN scan[t] = DOMAIN NoScan
       /\ held[t] # NoStore <=> pc[t] \in {"register", "closing"} \cup OperationLabels
       /\ job[t] = NoJob <=> pc[t] = "idle"

Tables == [Table -> Rows \cup {NoTable}]

(* What is in the file. *)
FileOK ==
  /\ file \in [version : Versions, tables : Tables,
               hits : [Table -> 0..MaxCount], misses : [Table -> 0..MaxCount]]
  /\ now \in 0..MaxNow

-----------------------------------------------------------------------------
(****************************************************************************)
(* Every step, by name and by shape.                                        *)
(****************************************************************************)

(* The steps of an operation on a store. *)
OperationStep(t) ==
  \/ WarmUp(t) \/ Acquire(t)
  \/ GetSelect(t) \/ GetBump(t) \/ Put(t) \/ ClearNext(t)
  \/ ExportKeys(t) \/ ExportMetadata(t) \/ ExportPayload(t) \/ ExportDone(t)

LEMMA Cases ==
  ASSUME [Next]_vars
  PROVE  \/ UNCHANGED vars \/ Exit \/ Tick
         \/ \E t \in Thread :
              \/ Begin(t) \/ Lookup(t) \/ OpenStep(t) \/ Construct(t) \/ Register(t)
              \/ OperationStep(t) \/ RemoveEntry(t) \/ TakeConnection(t)
              \/ StatementFails(t)
  BY Zenon DEF Next, Step, OperationStep, Quiet

(* Locals a thread may go on with: what a get has found stays what it was.  *)
Local(t, l, locals) ==
  /\ DOMAIN locals = DOMAIN NoScan
  /\ locals.hit \in {scan[t].hit, NoRow} \/ l = "bump"

(* A thread goes on inside its call, and the registry stays as it is. *)
GoesOn(t, l) ==
  /\ \E locals : Continue(t, l, locals) /\ Local(t, l, locals)
  /\ UNCHANGED <<registry, held>>

(* A call returns, and the registry stays as it is. *)
Returns(t, result) == Finish(t, result) /\ UNCHANGED registry

LEMMA ContinueGoesOn ==
  ASSUME NEW t \in Thread, NEW l, NEW locals, Continue(t, l, locals),
         Local(t, l, locals), UNCHANGED <<registry, held>>
  PROVE  GoesOn(t, l)
  BY DEF GoesOn

LEMMA SameLocal ==
  ASSUME NEW t \in Thread, NEW l
  PROVE  /\ DOMAIN scan[t] = DOMAIN NoScan => Local(t, l, scan[t])
         /\ Local(t, l, NoScan)
  BY DEF Local, NoScan

LEMMA NextTableGoesOn ==
  ASSUME NEW t \in Thread, NEW order, NEW again, NEW after, DOMAIN scan[t] = DOMAIN NoScan,
         NextTable(t, order, again, after), UNCHANGED <<registry, held>>
  PROVE  GoesOn(t, again) \/ GoesOn(t, after)
<1>1. \A l, n : Local(t, l, [scan[t] EXCEPT !.pos = n])
  BY DEF Local, NoScan
<1> QED BY <1>1, ContinueGoesOn DEF NextTable

LEMMA OpenShape ==
  ASSUME NEW t \in Thread, Hands, FileOK, OpenStep(t)
  PROVE  /\ pc[t] \in OpenLabels \ {"construct"}
         /\ (\E l \in OpenLabels : GoesOn(t, l)) \/ Returns(t, "open_error")
<1>0. DOMAIN scan[t] = DOMAIN NoScan
  BY DEF Hands
<1> USE <1>0 DEF OpenLabels
<1>1. CASE CreateNext(t)
  BY <1>1, NextTableGoesOn DEF CreateNext
<1>2. CASE ReadVersion(t)
  <2>1. \A l : Local(t, l, [scan[t] EXCEPT !.cutoff = now - Ttl[job[t].key]])
    BY DEF Local, NoScan
  <2> QED BY <1>2, <2>1, ContinueGoesOn DEF ReadVersion, FileOK, Versions
<1>3. CASE Stamp(t) \/ Restamp(t)
  <2>1. Local(t, "expire", [NoScan EXCEPT !.cutoff = now - Ttl[job[t].key]])
    BY DEF Local, NoScan
  <2> QED BY <1>3, <2>1, ContinueGoesOn DEF Stamp, Restamp, OpenFails, Returns
<1>4. CASE DropNext(t)
  BY <1>4, NextTableGoesOn DEF DropNext
<1>5. CASE ExpireNext(t)
  BY <1>5, NextTableGoesOn DEF ExpireNext, OpenFails, Returns
<1>6. CASE MeasureNext(t)
  <2> DEFINE after(total, pos) == [scan[t] EXCEPT !.total = total, !.pos = pos]
  <2>1. \A l, total, pos : Local(t, l, after(total, pos))
    BY DEF Local, NoScan
  <2>2. \/ OpenFails(t)
        \/ \E total, pos :
             /\ \E l \in {"measure", "collect", "construct"} : Continue(t, l, after(total, pos))
             /\ UNCHANGED <<registry, held>>
    BY <1>6 DEF MeasureNext
  <2> QED BY <1>6, <2>1, <2>2, ContinueGoesOn DEF MeasureNext, OpenFails, Returns
<1>7. CASE Collect(t)
  <2> DEFINE after(q) == [scan[t] EXCEPT !.queue = q, !.removed = 0]
  <2>1. \A l, q : Local(t, l, after(q))
    BY DEF Local, NoScan
  <2>2. \/ OpenFails(t)
        \/ (\E q : Continue(t, "trim", after(q))) /\ UNCHANGED <<registry, held>>
    BY <1>7 DEF Collect
  <2> QED BY <1>7, <2>1, <2>2, ContinueGoesOn DEF Collect, OpenFails, Returns
<1>8. CASE Trim(t)
  <2>1. Local(t, "collect", [scan[t] EXCEPT !.pos = @ + 1, !.queue = <<>>])
    BY DEF Local, NoScan
  <2>2. Local(t, "trim", [scan[t] EXCEPT !.queue = Tail(scan[t].queue),
                                         !.removed = @ + Head(scan[t].queue).bytes])
    BY DEF Local, NoScan
  <2> QED
    BY <1>8, <2>1, <2>2, SameLocal, ContinueGoesOn DEF Trim, OpenFails, Returns
<1> QED
  BY <1>1, <1>2, <1>3, <1>4, <1>5, <1>6, <1>7, <1>8 DEF OpenStep

LEMMA OperationShape ==
  ASSUME NEW t \in Thread, Hands, OperationStep(t)
  PROVE  /\ pc[t] \in OperationLabels
         /\ \/ \E l \in OperationLabels :
                 /\ GoesOn(t, l)
                 /\ l \in LockedLabels =>
                      pc[t] \in LockedLabels \/ (held[t] \in opened /\ MutexFree(held[t]))
            \/ \E result \in {"done", "closed", "db_error"} :
                 /\ Returns(t, result)
                 /\ result = "closed" => held[t] \notin opened
<1>0. DOMAIN scan[t] = DOMAIN NoScan
  BY DEF Hands
<1> USE <1>0 DEF OperationLabels, LockedLabels, UnlockedLabels
<1>1. CASE WarmUp(t)
  BY <1>1 DEF WarmUp, Returns
<1>2. CASE Acquire(t)
  BY <1>2, SameLocal, ContinueGoesOn DEF Acquire, Returns
<1>3. CASE GetSelect(t)
  <2>1. ASSUME NEW row PROVE Local(t, "bump", [NoScan EXCEPT !.hit = row])
    BY DEF Local
  <2> QED BY <1>3, <2>1, ContinueGoesOn DEF GetSelect
<1>4. CASE GetBump(t)
  BY <1>4 DEF GetBump, Returns
<1>5. CASE Put(t)
  BY <1>5 DEF Put, Returns
<1>6. CASE ClearNext(t)
  <2>1. Local(t, "body", [scan[t] EXCEPT !.pos = @ + 1])
    BY DEF Local, NoScan
  <2>2. GoesOn(t, "body") \/ Returns(t, "done") \/ Returns(t, "db_error")
    BY <1>6, <2>1, ContinueGoesOn DEF ClearNext, Returns
  <2>3. pc[t] = "body"
    BY <1>6 DEF ClearNext
  <2> QED BY <2>2, <2>3
<1>7. CASE ExportKeys(t)
  <2> DEFINE after(q) == [NoScan EXCEPT !.queue = q]
  <2>1. \A q : Local(t, "between", after(q))
    BY DEF Local, NoScan
  <2>2. \/ Finish(t, "db_error")
        \/ (\E q : Continue(t, "between", after(q))) /\ UNCHANGED held
    BY <1>7 DEF ExportKeys
  <2> QED BY <1>7, <2>1, <2>2, ContinueGoesOn DEF ExportKeys, Returns
<1>8. CASE ExportMetadata(t)
  <2> DEFINE after(row) == [scan[t] EXCEPT !.meta = row]
  <2>1. \A row : Local(t, "payload", after(row))
    BY DEF Local, NoScan
  <2>2. \/ Finish(t, "db_error") \/ (Finish(t, "closed") /\ held[t] \notin opened)
        \/ (\E row : Continue(t, "payload", after(row))) /\ UNCHANGED held
    BY <1>8 DEF ExportMetadata
  <2> QED BY <1>8, <2>1, <2>2, ContinueGoesOn DEF ExportMetadata, Returns
<1>9. CASE ExportPayload(t)
  <2> DEFINE after(rows) ==
        [scan[t] EXCEPT !.out = rows, !.meta = NoRow, !.queue = Tail(scan[t].queue)]
  <2>1. \A rows : Local(t, "between", after(rows))
    BY DEF Local, NoScan
  <2>2. \/ Finish(t, "closed") /\ held[t] \notin opened
        \/ (\E rows : Continue(t, "between", after(rows))) /\ UNCHANGED held
    BY <1>9 DEF ExportPayload
  <2> QED BY <1>9, <2>1, <2>2, ContinueGoesOn DEF ExportPayload, Returns
<1>10. CASE ExportDone(t)
  BY <1>10 DEF ExportDone, Returns
<1> QED
  BY <1>1, <1>2, <1>3, <1>4, <1>5, <1>6, <1>7, <1>8, <1>9, <1>10 DEF OperationStep

LEMMA FailureShape ==
  ASSUME NEW t \in Thread, StatementFails(t)
  PROVE  \/ pc[t] \in OpenLabels \ {"construct"} /\ Returns(t, "open_error")
         \/ pc[t] \in LockedLabels /\ Returns(t, "db_error")
  BY DEF StatementFails, OpenFails, Returns, LockedLabels

(* A step of one thread leaves the others where they are. *)
LEMMA Movers ==
  ASSUME Hands, FileOK, NEW t \in Thread,
         \/ Begin(t) \/ Lookup(t) \/ OpenStep(t) \/ Construct(t) \/ Register(t)
         \/ OperationStep(t) \/ RemoveEntry(t) \/ TakeConnection(t) \/ StatementFails(t)
  PROVE  \A u \in Thread \ {t} : pc'[u] = pc[u] /\ scan'[u] = scan[u] /\ job'[u] = job[u]
<1>1. CASE Begin(t)
  BY <1>1 DEF Hands, Begin, Goto
<1>2. ASSUME \E l, locals : Continue(t, l, locals)
      PROVE  \A u \in Thread \ {t} : pc'[u] = pc[u] /\ scan'[u] = scan[u] /\ job'[u] = job[u]
  BY <1>2 DEF Hands, Continue, Goto
<1>3. ASSUME \E result : Finish(t, result)
      PROVE  \A u \in Thread \ {t} : pc'[u] = pc[u] /\ scan'[u] = scan[u] /\ job'[u] = job[u]
  BY <1>3 DEF Hands, Finish, Goto
<1>4. CASE OpenStep(t) \/ OperationStep(t)
  BY <1>2, <1>3, <1>4, OpenShape, OperationShape DEF GoesOn, Returns
<1>5. CASE \/ Lookup(t) \/ Construct(t) \/ Register(t)
           \/ RemoveEntry(t) \/ TakeConnection(t) \/ StatementFails(t)
  BY <1>2, <1>3, <1>5
  DEF Lookup, Construct, Register, RemoveEntry, TakeConnection, StatementFails, OpenFails
<1> QED BY <1>1, <1>4, <1>5

(* What a call says of itself. *)
LEMMA JobFacts ==
  ASSUME NEW j \in Jobs
  PROVE  /\ j # NoJob
         /\ j.key \in Key
         /\ j.op \in {"get", "put"} => j.table \in Table /\ j.item \in Item
         /\ j.op = "put" => j.payload \in Value
         /\ j.op = "clear" => j.tables \subseteq Table
<1>1. CASE j \in [op : {"open", "close"} \cap Ops, key : Key]
  BY <1>1 DEF NoJob
<1>2. CASE j \in [op : {"get"} \cap Ops, key : Key, table : Table, item : Item]
  BY <1>2 DEF NoJob
<1>3. CASE j \in [op : {"put"} \cap Ops, key : Key, table : Table, item : Item, payload : Value]
  BY <1>3 DEF NoJob
<1>4. CASE j \in [op : {"clear"} \cap Ops, key : Key, tables : SUBSET Table \ {{}}]
  BY <1>4 DEF NoJob
<1>5. CASE j \in [op : {"export"} \cap Ops, key : Key, table : Table]
  BY <1>5 DEF NoJob
<1> QED
  BY <1>1, <1>2, <1>3, <1>4, <1>5 DEF Jobs

-----------------------------------------------------------------------------
(****************************************************************************)
(* Types.                                                                   *)
(****************************************************************************)
LEMMA HandsInit == Init => Hands
  BY NoStoreAssumption
  DEF Init, Hands, Labels, Outcomes, OperationLabels, OpenLabels, LockedLabels, UnlockedLabels

LEMMA GoesOnKeepsHands ==
  ASSUME Hands, NEW t \in Thread, NEW l \in Labels, GoesOn(t, l),
         pc[t] # "idle", l # "idle",
         pc[t] \in {"register", "closing"} \cup OperationLabels
           <=> l \in {"register", "closing"} \cup OperationLabels
  PROVE  Hands'
  BY DEF Hands, GoesOn, Local, Continue, Goto, registry

LEMMA ReturnsKeepsHands ==
  ASSUME Hands, NEW t \in Thread, NEW result \in Outcomes, Finish(t, result),
         reg' \in [Key -> Store \cup {NoStore}], opened' \subseteq Store, UNCHANGED owner
  PROVE  Hands'
  BY DEF Hands, Finish, Goto, Labels, OperationLabels, OpenLabels, LockedLabels, UnlockedLabels

LEMMA HandsStep == Hands /\ FileOK /\ [Next]_vars => Hands'
<1> SUFFICES ASSUME Hands, FileOK, [Next]_vars PROVE Hands'
  OBVIOUS
<1> USE NoStoreAssumption, NoKeyAssumption
    DEF Labels, OperationLabels, OpenLabels, LockedLabels, UnlockedLabels
<1>1. ASSUME NEW t \in Thread, Begin(t) PROVE Hands'
  BY <1>1, JobFacts DEF Hands, Begin, Goto, Outcomes, registry
<1>2. ASSUME NEW t \in Thread, Lookup(t) PROVE Hands'
  BY <1>2, JobFacts DEF Hands, Lookup, Continue, Goto, registry
<1>3. ASSUME NEW t \in Thread, OpenStep(t) PROVE Hands'
  BY <1>3, OpenShape, GoesOnKeepsHands, ReturnsKeepsHands DEF Hands, Returns, Outcomes, registry
<1>4. ASSUME NEW t \in Thread, Construct(t) PROVE Hands'
  BY <1>4, JobFacts DEF Hands, Construct, Continue, Goto
<1>5. ASSUME NEW t \in Thread, Register(t) PROVE Hands'
  BY <1>5, JobFacts DEF Hands, Register, Continue, Goto
<1>6. ASSUME NEW t \in Thread, OperationStep(t) PROVE Hands'
  BY <1>6, OperationShape, GoesOnKeepsHands, ReturnsKeepsHands
  DEF Hands, Returns, Outcomes, registry
<1>7. ASSUME NEW t \in Thread, RemoveEntry(t) PROVE Hands'
  <2>1. CASE reg[job[t].key] # NoStore
    BY <1>7, <2>1, JobFacts DEF Hands, RemoveEntry, Continue, Goto
  <2>2. CASE reg[job[t].key] = NoStore
    BY <1>7, <2>2, ReturnsKeepsHands DEF Hands, RemoveEntry, Outcomes
  <2> QED BY <2>1, <2>2
<1>8. ASSUME NEW t \in Thread, TakeConnection(t) PROVE Hands'
  BY <1>8, ReturnsKeepsHands DEF Hands, TakeConnection, Outcomes
<1>9. ASSUME NEW t \in Thread, StatementFails(t) PROVE Hands'
  BY <1>9, FailureShape, ReturnsKeepsHands DEF Hands, Returns, Outcomes, registry
<1>10. CASE Exit
  BY <1>10 DEF Exit, Hands, Outcomes
<1>11. CASE Tick
  BY <1>11 DEF Tick, Hands, registry
<1>12. CASE UNCHANGED vars
  BY <1>12 DEF vars, Hands
<1> QED
  BY <1>1, <1>2, <1>3, <1>4, <1>5, <1>6, <1>7, <1>8, <1>9, <1>10, <1>11, <1>12, Cases

(* The statements, on any tables. *)
LEMMA EmptyTableType == EmptyTable \in Rows
  BY DEF EmptyTable, Rows

LEMMA StatementTypes ==
  ASSUME NEW tables \in Tables, NEW T
  PROVE  /\ CreateTable(tables, T) \in Tables
         /\ DropTable(tables, T) \in Tables
         /\ EmptyOut(tables, T) \in Tables
         /\ \A cutoff : Exists(tables, T) => DeleteOlder(tables, T, cutoff) \in Tables
         /\ \A i : Exists(tables, T) => DeleteRow(tables, T, i) \in Tables
         /\ \A i, v, n : Exists(tables, T) /\ v \in Value /\ n \in Nat
                           => PutRow(tables, T, i, v, n) \in Tables
<1>1. /\ CreateTable(tables, T) \in Tables
      /\ DropTable(tables, T) \in Tables
      /\ EmptyOut(tables, T) \in Tables
  BY EmptyTableType DEF Tables, CreateTable, DropTable, EmptyOut
<1>2. ASSUME NEW cutoff, Exists(tables, T) PROVE DeleteOlder(tables, T, cutoff) \in Tables
  BY <1>2 DEF Tables, DeleteOlder, Exists, Rows
<1>3. ASSUME NEW i, Exists(tables, T) PROVE DeleteRow(tables, T, i) \in Tables
  BY <1>3 DEF Tables, DeleteRow, Exists, Rows
<1>4. ASSUME NEW i, NEW v \in Value, NEW n \in Nat, Exists(tables, T)
      PROVE  PutRow(tables, T, i, v, n) \in Tables
  <2>1. [payload |-> v, created_at |-> n] \in Row
    BY DEF Row
  <2> QED BY <1>4, <2>1 DEF Tables, PutRow, Exists, Rows
<1> QED BY <1>1, <1>2, <1>3, <1>4

LEMMA FileInit == Init => FileOK
<1> SUFFICES ASSUME Init PROVE FileOK
  OBVIOUS
<1>1. now \in 0..MaxNow
  BY BoundsAssumption DEF Init
<1>2. PICK kind \in {"fresh", "older", "current"} : file \in FileAtStart(kind)
  BY FilesAssumption DEF Init
<1>3. \A v \in Value \cup {Legacy} : LeftBy(v) \subseteq Rows
  <2>1. \A v \in Value \cup {Legacy} : [payload |-> v, created_at |-> 0] \in Row
    BY DEF Row
  <2> QED BY <2>1, EmptyTableType DEF LeftBy, Rows
<1>4. PICK contents \in SUBSET (Rows \cup {NoTable}), version \in Versions :
        file \in [version : {version}, tables : [Table -> contents],
                 hits : {[T \in Table |-> 0]}, misses : {[T \in Table |-> 0]}]
  <2>1. CASE kind = "fresh"
    BY <1>2, <2>1 DEF FileAtStart, Versions
  <2>2. CASE kind = "current"
    BY <1>2, <1>3, <2>2 DEF FileAtStart, Versions
  <2>3. CASE kind = "older"
    BY <1>2, <1>3, <2>3 DEF FileAtStart, Versions
  <2> QED BY <2>1, <2>2, <2>3
<1> QED BY <1>1, <1>4, BoundsAssumption DEF FileOK, Tables

(* What the statement of a thread writes to the file. *)
Writes(t) ==
  LET T == TableOrder[scan[t].pos] IN
  \/ /\ pc[t] \in {"create", "recreate"}
     /\ file' = [file EXCEPT !.tables = CreateTable(@, T)]
  \/ /\ pc[t] = "drop"
     /\ file' = [file EXCEPT !.tables = DropTable(@, T)]
  \/ /\ pc[t] \in {"stamp", "restamp"}
     /\ pc[t] = "stamp" => file.version = "none"
     /\ file' = [file EXCEPT !.version = "current"]
  \/ /\ pc[t] = "expire"
     /\ Exists(file.tables, T)
     /\ file' = [file EXCEPT !.tables = DeleteOlder(@, T, scan[t].cutoff)]
  \/ /\ pc[t] = "trim"
     /\ Exists(file.tables, SizedOrder[scan[t].pos])
     /\ \E i : file' = [file EXCEPT !.tables = DeleteRow(@, SizedOrder[scan[t].pos], i)]
  \/ /\ pc[t] = "bump"
     /\ \/ file' = [file EXCEPT !.hits = Count(@, job[t].table)]
        \/ file' = [file EXCEPT !.misses = Count(@, job[t].table)]
  \/ /\ pc[t] = "body" /\ job[t].op = "put"
     /\ Exists(file.tables, job[t].table)
     /\ file' = [file EXCEPT !.tables =
                   PutRow(@, job[t].table, job[t].item, job[t].payload, now)]
  \/ /\ pc[t] = "body" /\ job[t].op = "clear" /\ T \in job[t].tables
     /\ Exists(file.tables, T)
     /\ file' = [file EXCEPT !.tables = EmptyOut(@, T)]

(* Every change of the file is one statement of one thread. *)
LEMMA FileShape ==
  ASSUME [Next]_vars
  PROVE  UNCHANGED file \/ \E t \in Thread : Writes(t) /\ UNCHANGED now
<1>1. ASSUME NEW t \in Thread, OpenStep(t)
      PROVE  UNCHANGED file \/ (Writes(t) /\ UNCHANGED now)
  <2>1. CASE CreateNext(t)
    BY <2>1 DEF CreateNext, Writes
  <2>2. CASE ReadVersion(t) \/ MeasureNext(t) \/ Collect(t)
    BY <2>2 DEF ReadVersion, MeasureNext, Collect, OpenFails
  <2>3. CASE Stamp(t) \/ Restamp(t)
    BY <2>3 DEF Stamp, Restamp, OpenFails, Writes
  <2>4. CASE DropNext(t)
    BY <2>4 DEF DropNext, Writes
  <2>5. CASE ExpireNext(t)
    BY <2>5 DEF ExpireNext, OpenFails, Writes
  <2>6. CASE Trim(t)
    BY <2>6 DEF Trim, OpenFails, Writes
  <2> QED BY <1>1, <2>1, <2>2, <2>3, <2>4, <2>5, <2>6 DEF OpenStep
<1>2. ASSUME NEW t \in Thread, OperationStep(t)
      PROVE  UNCHANGED file \/ (Writes(t) /\ UNCHANGED now)
  <2>1. CASE GetBump(t)
    BY <2>1 DEF GetBump, Writes
  <2>2. CASE Put(t)
    BY <2>2 DEF Put, Writes
  <2>3. CASE ClearNext(t)
    BY <2>3 DEF ClearNext, Writes
  <2>4. CASE \/ WarmUp(t) \/ Acquire(t) \/ GetSelect(t)
             \/ ExportKeys(t) \/ ExportMetadata(t) \/ ExportPayload(t) \/ ExportDone(t)
    BY <2>4 DEF WarmUp, Acquire, GetSelect, ExportKeys, ExportMetadata, ExportPayload, ExportDone
  <2> QED BY <1>2, <2>1, <2>2, <2>3, <2>4 DEF OperationStep
<1>3. ASSUME NEW t \in Thread,
             \/ Begin(t) \/ Lookup(t) \/ Construct(t) \/ Register(t)
             \/ RemoveEntry(t) \/ TakeConnection(t) \/ StatementFails(t)
      PROVE  UNCHANGED file
  BY <1>3 DEF Begin, Lookup, Construct, Register, RemoveEntry, TakeConnection,
     StatementFails, OpenFails
<1> QED
  BY <1>1, <1>2, <1>3, Cases DEF Exit, Tick, vars

(* The clock only goes forward. *)
LEMMA ClockShape ==
  ASSUME [Next]_vars
  PROVE  UNCHANGED now \/ Tick
<1>1. ASSUME NEW t \in Thread, OpenStep(t) PROVE UNCHANGED now
  BY <1>1 DEF OpenStep, CreateNext, ReadVersion, Stamp, DropNext, Restamp, ExpireNext,
     MeasureNext, Collect, Trim, OpenFails
<1>2. ASSUME NEW t \in Thread, OperationStep(t) PROVE UNCHANGED now
  BY <1>2 DEF OperationStep, WarmUp, Acquire, GetSelect, GetBump, Put, ClearNext,
     ExportKeys, ExportMetadata, ExportPayload, ExportDone
<1>3. ASSUME NEW t \in Thread,
             \/ Begin(t) \/ Lookup(t) \/ Construct(t) \/ Register(t)
             \/ RemoveEntry(t) \/ TakeConnection(t) \/ StatementFails(t)
      PROVE  UNCHANGED now
  BY <1>3 DEF Begin, Lookup, Construct, Register, RemoveEntry, TakeConnection,
     StatementFails, OpenFails
<1> QED
  BY <1>1, <1>2, <1>3, Cases DEF Exit, vars

LEMMA CountType ==
  ASSUME NEW counters \in [Table -> 0..MaxCount], NEW T
  PROVE  Count(counters, T) \in [Table -> 0..MaxCount]
<1>1. CASE T \in Table
  <2>1. (IF counters[T] < MaxCount THEN counters[T] + 1 ELSE counters[T]) \in 0..MaxCount
    BY <1>1, BoundsAssumption
  <2> QED BY <2>1 DEF Count
<1>2. CASE T \notin Table
  BY <1>2 DEF Count
<1> QED BY <1>1, <1>2

LEMMA FileStep == Hands /\ FileOK /\ [Next]_vars => FileOK'
<1> SUFFICES ASSUME Hands, FileOK, [Next]_vars PROVE FileOK'
  OBVIOUS
<1>1. now' \in 0..MaxNow
  BY ClockShape, BoundsAssumption DEF FileOK, Tick
<1>2. ASSUME NEW tables \in Tables, file' = [file EXCEPT !.tables = tables] PROVE FileOK'
  BY <1>1, <1>2 DEF FileOK
<1>3. ASSUME NEW t \in Thread, Writes(t) PROVE FileOK'
  <2> DEFINE T == TableOrder[scan[t].pos]
  <2>0. file.tables \in Tables /\ now \in Nat
    BY BoundsAssumption DEF FileOK
  <2>1. CASE pc[t] \in {"create", "recreate"} /\ file' = [file EXCEPT !.tables = CreateTable(@, T)]
    BY <2>0, <2>1, <1>2, StatementTypes
  <2>2. CASE pc[t] = "drop" /\ file' = [file EXCEPT !.tables = DropTable(@, T)]
    BY <2>0, <2>2, <1>2, StatementTypes
  <2>3. CASE file' = [file EXCEPT !.version = "current"]
    BY <1>1, <2>3 DEF FileOK, Versions
  <2>4. CASE /\ Exists(file.tables, T)
             /\ \/ file' = [file EXCEPT !.tables = DeleteOlder(@, T, scan[t].cutoff)]
                \/ file' = [file EXCEPT !.tables = EmptyOut(@, T)]
    BY <2>0, <2>4, <1>2, StatementTypes
  <2>5. CASE /\ Exists(file.tables, SizedOrder[scan[t].pos])
             /\ \E i : file' = [file EXCEPT !.tables = DeleteRow(@, SizedOrder[scan[t].pos], i)]
    BY <2>0, <2>5, <1>2, StatementTypes
  <2>6. CASE \/ file' = [file EXCEPT !.hits = Count(@, job[t].table)]
             \/ file' = [file EXCEPT !.misses = Count(@, job[t].table)]
    BY <1>1, <2>6, CountType DEF FileOK
  <2>7. CASE /\ pc[t] = "body" /\ job[t].op = "put"
             /\ Exists(file.tables, job[t].table)
             /\ file' = [file EXCEPT !.tables =
                           PutRow(@, job[t].table, job[t].item, job[t].payload, now)]
    <3>1. job[t].payload \in Value
      BY <2>7, JobFacts DEF Hands
    <3> QED BY <2>0, <2>7, <3>1, <1>2, StatementTypes
  <2> QED BY <1>3, <2>1, <2>2, <2>3, <2>4, <2>5, <2>6, <2>7 DEF Writes
<1> QED BY <1>1, <1>3, FileShape DEF FileOK

(* Where the loops are. *)
Loops ==
  \A t \in Thread :
    /\ scan[t].pos \in 1..Len(LoopOver(pc[t]))
    /\ pc[t] \notin {"trim", "between", "payload"} => scan[t].queue = <<>>

LEMMA OrderLengths ==
  /\ Len(TableOrder) \in Nat /\ Len(TableOrder) >= 1
  /\ Len(SizedOrder) \in Nat /\ Len(SizedOrder) >= 1
  /\ \A l : Len(LoopOver(l)) \in Nat /\ Len(LoopOver(l)) >= 1
<1>1. \A order \in Seq(Table) : order # <<>> => Len(order) \in Nat /\ Len(order) >= 1
  OBVIOUS
<1> QED BY <1>1, TableAssumption DEF LoopOver

LEMMA LoopsKept ==
  ASSUME Hands, Loops, NEW t \in Thread, NEW l, NEW locals,
         pc' = [pc EXCEPT ![t] = l], scan' = [scan EXCEPT ![t] = locals],
         locals.pos \in 1..Len(LoopOver(l)),
         l \notin {"trim", "between", "payload"} => locals.queue = <<>>
  PROVE  Loops'
  BY DEF Hands, Loops

LEMMA LoopsReset ==
  ASSUME Hands, Loops, NEW t \in Thread, NEW l,
         pc' = [pc EXCEPT ![t] = l], scan' = [scan EXCEPT ![t] = NoScan]
  PROVE  Loops'
<1>1. NoScan.pos \in 1..Len(LoopOver(l)) /\ NoScan.queue = <<>>
  BY OrderLengths DEF NoScan
<1> QED BY <1>1, LoopsKept

LEMMA LoopsReturn ==
  ASSUME Hands, Loops, NEW t \in Thread, NEW result, Finish(t, result)
  PROVE  Loops'
  BY LoopsReset DEF Finish, Goto

LEMMA LoopsNextTable ==
  ASSUME Hands, Loops, NEW t \in Thread, NEW again, NEW after,
         pc[t] = again, LoopOver(again) = TableOrder,
         again \notin {"trim", "between", "payload"},
         NextTable(t, TableOrder, again, after)
  PROVE  Loops'
<1>1. scan[t].pos \in 1..Len(TableOrder) /\ scan[t].queue = <<>>
  BY DEF Loops
<1>2. DOMAIN scan[t] = DOMAIN NoScan
  BY DEF Hands
<1>3. CASE scan[t].pos < Len(TableOrder)
  <2> DEFINE locals == [scan[t] EXCEPT !.pos = @ + 1]
  <2>1. locals.pos = scan[t].pos + 1 /\ locals.queue = scan[t].queue
    BY <1>2 DEF NoScan
  <2>2. locals.pos \in 1..Len(LoopOver(again))
    BY <1>1, <1>3, <2>1, OrderLengths
  <2> QED BY <1>1, <1>3, <2>1, <2>2, LoopsKept DEF NextTable, Continue, Goto
<1>4. CASE ~(scan[t].pos < Len(TableOrder))
  <2> DEFINE locals == [scan[t] EXCEPT !.pos = 1]
  <2>1. locals.pos = 1 /\ locals.queue = scan[t].queue
    BY <1>2 DEF NoScan
  <2>2. locals.pos \in 1..Len(LoopOver(after))
    BY <2>1, OrderLengths
  <2> QED BY <1>1, <1>4, <2>1, <2>2, LoopsKept DEF NextTable, Continue, Goto
<1> QED BY <1>3, <1>4

LEMMA LoopsOpen ==
  ASSUME Hands, FileOK, Loops, NEW t \in Thread, OpenStep(t)
  PROVE  Loops'
<1>0. /\ DOMAIN scan[t] = DOMAIN NoScan
      /\ scan[t].pos \in 1..Len(LoopOver(pc[t]))
      /\ pc[t] # "trim" /\ pc[t] \in OpenLabels => scan[t].queue = <<>>
  BY DEF Hands, Loops, OpenLabels
<1>1. CASE CreateNext(t)
  BY <1>1, LoopsNextTable DEF CreateNext, LoopOver
<1>2. CASE ReadVersion(t)
  <2> DEFINE locals == [scan[t] EXCEPT !.cutoff = now - Ttl[job[t].key]]
  <2>1. locals.pos = scan[t].pos /\ locals.queue = scan[t].queue
    BY <1>0 DEF NoScan
  <2>2. \E l \in {"stamp", "drop", "expire"} : Continue(t, l, locals)
    BY <1>2 DEF ReadVersion, FileOK, Versions
  <2>3. locals.pos \in 1..Len(TableOrder) /\ locals.queue = <<>>
    BY <1>0, <1>2, <2>1 DEF ReadVersion, LoopOver, OpenLabels
  <2>4. PICK l \in {"stamp", "drop", "expire"} : Continue(t, l, locals)
    BY <2>2
  <2> HIDE DEF locals
  <2> QED BY <2>3, <2>4, LoopsKept DEF LoopOver, Continue, Goto
<1>3. CASE Stamp(t) \/ Restamp(t)
  <2> DEFINE locals == [NoScan EXCEPT !.cutoff = now - Ttl[job[t].key]]
  <2>1. locals.pos \in 1..Len(LoopOver("expire")) /\ locals.queue = <<>>
    BY OrderLengths DEF NoScan
  <2>2. Continue(t, "expire", locals) \/ Finish(t, "open_error")
    BY <1>3 DEF Stamp, Restamp, OpenFails
  <2> HIDE DEF locals
  <2> QED BY <2>1, <2>2, LoopsKept, LoopsReturn DEF Continue, Goto
<1>4. CASE DropNext(t)
  BY <1>4, LoopsNextTable DEF DropNext, LoopOver
<1>5. CASE ExpireNext(t)
  BY <1>5, LoopsNextTable, LoopsReturn DEF ExpireNext, OpenFails, LoopOver
<1>6. CASE MeasureNext(t)
  <2> DEFINE total == scan[t].total + SumBytes(file.tables[SizedOrder[scan[t].pos]])
             last == scan[t].pos = Len(SizedOrder)
             locals == [scan[t] EXCEPT !.total = total, !.pos = IF last THEN 1 ELSE @ + 1]
  <2>1. locals.pos = (IF last THEN 1 ELSE scan[t].pos + 1) /\ locals.queue = scan[t].queue
    BY <1>0 DEF NoScan
  <2>2. scan[t].pos \in 1..Len(SizedOrder) /\ scan[t].queue = <<>>
    BY <1>0, <1>6 DEF MeasureNext, LoopOver, OpenLabels
  <2>3. \/ OpenFails(t)
        \/ ~last /\ Continue(t, "measure", locals)
        \/ last /\ \E l \in {"collect", "construct"} : Continue(t, l, locals)
    BY <1>6 DEF MeasureNext
  <2>4. CASE OpenFails(t)
    BY <2>4, LoopsReturn DEF OpenFails
  <2>5. CASE ~last /\ Continue(t, "measure", locals)
    <3>1. locals.pos \in 1..Len(LoopOver("measure")) /\ locals.queue = <<>>
      BY <2>1, <2>2, <2>5, OrderLengths DEF LoopOver
    <3> HIDE DEF locals
    <3> QED BY <2>5, <3>1, LoopsKept DEF Continue, Goto
  <2>6. ASSUME NEW l \in {"collect", "construct"}, last, Continue(t, l, locals) PROVE Loops'
    <3>1. locals.pos \in 1..Len(LoopOver(l)) /\ locals.queue = <<>>
      BY <2>1, <2>2, <2>6, OrderLengths
    <3> HIDE DEF locals
    <3> QED BY <2>6, <3>1, LoopsKept DEF Continue, Goto
  <2> QED BY <2>3, <2>4, <2>5, <2>6
<1>7. CASE Collect(t)
  <2> DEFINE after(q) == [scan[t] EXCEPT !.queue = q, !.removed = 0]
  <2>1. \A q : after(q).pos = scan[t].pos
    BY <1>0 DEF NoScan
  <2>2. scan[t].pos \in 1..Len(LoopOver("trim"))
    BY <1>0, <1>7 DEF Collect, LoopOver
  <2>3. OpenFails(t) \/ \E q : Continue(t, "trim", after(q))
    BY <1>7 DEF Collect
  <2> HIDE DEF after
  <2> QED BY <2>1, <2>2, <2>3, LoopsKept, LoopsReturn DEF OpenFails, Continue, Goto
<1>8. CASE Trim(t)
  <2> DEFINE next == [scan[t] EXCEPT !.pos = @ + 1, !.queue = <<>>]
             same == [scan[t] EXCEPT !.queue = Tail(scan[t].queue),
                                     !.removed = @ + Head(scan[t].queue).bytes]
  <2>1. next.pos = scan[t].pos + 1 /\ next.queue = <<>> /\ same.pos = scan[t].pos
    BY <1>0 DEF NoScan
  <2>2. scan[t].pos \in 1..Len(SizedOrder)
    BY <1>0, <1>8 DEF Trim, LoopOver
  <2>3. \/ scan[t].pos < Len(SizedOrder) /\ Continue(t, "collect", next)
        \/ Continue(t, "construct", NoScan)
        \/ OpenFails(t)
        \/ Continue(t, "trim", same)
    BY <1>8 DEF Trim
  <2>4. CASE scan[t].pos < Len(SizedOrder) /\ Continue(t, "collect", next)
    <3>1. next.pos \in 1..Len(LoopOver("collect"))
      BY <2>1, <2>2, <2>4, OrderLengths DEF LoopOver
    <3> HIDE DEF next
    <3> QED BY <2>1, <2>4, <3>1, LoopsKept DEF Continue, Goto
  <2>5. CASE Continue(t, "construct", NoScan)
    BY <2>5, LoopsReset DEF Continue, Goto
  <2>6. CASE OpenFails(t)
    BY <2>6, LoopsReturn DEF OpenFails
  <2>7. CASE Continue(t, "trim", same)
    <3>1. same.pos \in 1..Len(LoopOver("trim"))
      BY <2>1, <2>2 DEF LoopOver
    <3> HIDE DEF same
    <3> QED BY <2>7, <3>1, LoopsKept DEF Continue, Goto
  <2> QED BY <2>3, <2>4, <2>5, <2>6, <2>7
<1> QED
  BY <1>1, <1>2, <1>3, <1>4, <1>5, <1>6, <1>7, <1>8 DEF OpenStep

LEMMA LoopsOperation ==
  ASSUME Hands, Loops, NEW t \in Thread, OperationStep(t)
  PROVE  Loops'
<1>0. /\ DOMAIN scan[t] = DOMAIN NoScan
      /\ scan[t].pos \in 1..Len(LoopOver(pc[t]))
      /\ pc[t] \in LockedLabels => scan[t].queue = <<>>
  BY DEF Hands, Loops, LockedLabels
<1>1. CASE WarmUp(t) \/ GetBump(t) \/ Put(t) \/ ExportDone(t)
  BY <1>1, LoopsReturn DEF WarmUp, GetBump, Put, ExportDone
<1>2. CASE Acquire(t)
  BY <1>2, LoopsReset, LoopsReturn DEF Acquire, Continue, Goto
<1>3. CASE GetSelect(t)
  <2> PICK row \in Answers(t) : Continue(t, "bump", [NoScan EXCEPT !.hit = row])
    BY <1>3 DEF GetSelect
  <2> DEFINE locals == [NoScan EXCEPT !.hit = row]
  <2>1. locals.pos = 1 /\ locals.queue = <<>>
    BY DEF NoScan
  <2>2. locals.pos \in 1..Len(LoopOver("bump"))
    BY <2>1, OrderLengths
  <2>3. Continue(t, "bump", locals)
    OBVIOUS
  <2> HIDE DEF locals
  <2> QED BY <2>1, <2>2, <2>3, LoopsKept DEF Continue, Goto
<1>4. CASE ClearNext(t)
  <2> DEFINE next == [scan[t] EXCEPT !.pos = @ + 1]
  <2>1. next.pos = scan[t].pos + 1 /\ next.queue = scan[t].queue
    BY <1>0 DEF NoScan
  <2>2. scan[t].pos \in 1..Len(TableOrder) /\ scan[t].queue = <<>>
    BY <1>0, <1>4 DEF ClearNext, LoopOver, LockedLabels
  <2>3. \/ \E result : Finish(t, result)
        \/ scan[t].pos # Len(TableOrder) /\ Continue(t, "body", next)
    BY <1>4 DEF ClearNext
  <2>4. CASE scan[t].pos # Len(TableOrder) /\ Continue(t, "body", next)
    <3>1. next.pos \in 1..Len(LoopOver("body")) /\ next.queue = <<>>
      BY <2>1, <2>2, <2>4, OrderLengths DEF LoopOver
    <3> HIDE DEF next
    <3> QED BY <2>4, <3>1, LoopsKept DEF Continue, Goto
  <2> QED BY <2>3, <2>4, LoopsReturn
<1>5. CASE ExportKeys(t)
  <2> DEFINE after(q) == [NoScan EXCEPT !.queue = q]
  <2>1. \A q : after(q).pos \in 1..Len(LoopOver("between"))
    BY OrderLengths DEF NoScan
  <2>2. Finish(t, "db_error") \/ \E q : Continue(t, "between", after(q))
    BY <1>5 DEF ExportKeys
  <2> HIDE DEF after
  <2> QED BY <2>1, <2>2, LoopsKept, LoopsReturn DEF Continue, Goto
<1>6. CASE ExportMetadata(t)
  <2> DEFINE after(row) == [scan[t] EXCEPT !.meta = row]
  <2>1. \A row : after(row).pos \in 1..Len(LoopOver("payload"))
    BY <1>0, <1>6 DEF ExportMetadata, NoScan, LoopOver
  <2>2. (\E result : Finish(t, result)) \/ \E row : Continue(t, "payload", after(row))
    BY <1>6 DEF ExportMetadata
  <2> HIDE DEF after
  <2> QED BY <2>1, <2>2, LoopsKept, LoopsReturn DEF Continue, Goto
<1>7. CASE ExportPayload(t)
  <2> DEFINE after(rows) ==
        [scan[t] EXCEPT !.out = rows, !.meta = NoRow, !.queue = Tail(scan[t].queue)]
  <2>1. \A rows : after(rows).pos \in 1..Len(LoopOver("between"))
    BY <1>0, <1>7 DEF ExportPayload, NoScan, LoopOver
  <2>2. Finish(t, "closed") \/ \E rows : Continue(t, "between", after(rows))
    BY <1>7 DEF ExportPayload
  <2> HIDE DEF after
  <2> QED BY <2>1, <2>2, LoopsKept, LoopsReturn DEF Continue, Goto
<1> QED
  BY <1>1, <1>2, <1>3, <1>4, <1>5, <1>6, <1>7 DEF OperationStep

LEMMA LoopsStep == Hands /\ FileOK /\ Loops /\ [Next]_vars => Loops'
<1> SUFFICES ASSUME Hands, FileOK, Loops, [Next]_vars PROVE Loops'
  OBVIOUS
<1>1. ASSUME NEW t \in Thread, Begin(t) PROVE Loops'
  BY <1>1 DEF Begin, Goto, Hands, Loops, LoopOver
<1>2. ASSUME NEW t \in Thread,
             Lookup(t) \/ Construct(t) \/ Register(t) \/ RemoveEntry(t) \/ TakeConnection(t)
      PROVE  Loops'
  BY <1>2, LoopsReset, LoopsReturn
  DEF Lookup, Construct, Register, RemoveEntry, TakeConnection, Continue, Goto
<1>3. ASSUME NEW t \in Thread, StatementFails(t) PROVE Loops'
  BY <1>3, LoopsReturn DEF StatementFails, OpenFails
<1>4. CASE Exit
  BY <1>4, OrderLengths DEF Exit, Loops, NoScan
<1>5. CASE Tick \/ UNCHANGED vars
  BY <1>5 DEF Tick, vars, Loops
<1> QED
  BY <1>1, <1>2, <1>3, <1>4, <1>5, LoopsOpen, LoopsOperation, Cases

LEMMA LoopsInit == Init => Loops
  BY OrderLengths DEF Init, Loops, NoScan

-----------------------------------------------------------------------------
(* The types of everything, with the places of the loops.                   *)
Types == Hands /\ FileOK /\ Loops

LEMMA TypesInvariant == Spec => []Types
<1>1. Init => Types
  BY HandsInit, FileInit, LoopsInit DEF Types
<1>2. Types /\ [Next]_vars => Types'
  BY HandsStep, FileStep, LoopsStep DEF Types
<1> QED BY <1>1, <1>2, PTL DEF Spec

(* Every loop of an operation stays on the tables it goes through, and only *)
(* the loops that have rows to visit keep any.                              *)
THEOREM TypeCorrectness == Spec => []TypeOK
<1>1. Types => TypeOK
  BY DEF Types, Hands, FileOK, Tables, Loops, TypeOK
<1> QED BY <1>1, TypesInvariant, PTL

-----------------------------------------------------------------------------
(****************************************************************************)
(* The refinement, step by step.                                            *)
(****************************************************************************)
LEMMA RefinesInit == Init => Registry!Init
  BY DEF Init, Registry!Init, NoJob, OpenLabels, LockedLabels, UnlockedLabels

(* Where the registry sees a thread that is at label l. *)
Seen(l) ==
  IF l \in OpenLabels THEN "opening"
  ELSE IF l \in OperationLabels THEN "use" ELSE l

LEMMA RefinesGoto ==
  ASSUME Hands, NEW t \in Thread, NEW l \in Labels, Goto(t, l)
  PROVE  Registry!Goto(t, Seen(l))
  BY DEF Hands, Seen, Labels, OperationLabels, OpenLabels, LockedLabels, UnlockedLabels,
     Goto, Registry!Goto

LEMMA RefinesFinish ==
  ASSUME Hands, NEW t \in Thread, NEW result \in Outcomes, Finish(t, result)
  PROVE  Registry!Finish(t, IF result = "db_error" THEN "done" ELSE result)
<1>1. Registry!Goto(t, "idle")
  BY RefinesGoto DEF Finish, Labels, Seen, OperationLabels, OpenLabels, LockedLabels, UnlockedLabels
<1> QED
  BY <1>1 DEF Hands, Finish, NoJob, Registry!Finish

LEMMA RefinesStep == Hands /\ FileOK /\ [Next]_vars => [Registry!Next]_(Registry!vars)
<1> SUFFICES ASSUME Hands, FileOK, [Next]_vars PROVE [Registry!Next]_(Registry!vars)
  OBVIOUS
<1> DEFINE Stutter == UNCHANGED Registry!vars
<1>0. ASSUME NEW t \in Thread, NEW l, GoesOn(t, l),
             (pc[t] \in OpenLabels /\ l \in OpenLabels)
               \/ (pc[t] \in OperationLabels /\ l \in OperationLabels)
      PROVE  Stutter
  BY <1>0
  DEF Hands, GoesOn, Local, Continue, Goto, registry, Registry!vars,
      OperationLabels, OpenLabels, LockedLabels, UnlockedLabels
<1>1. ASSUME NEW t \in Thread, Begin(t)
      PROVE  \E k \in Key : Registry!Call(t, k) \/ Registry!CallClose(t, k)
  <2>1. PICK j \in Jobs :
          /\ job' = [job EXCEPT ![t] = j]
          /\ Goto(t, IF j.op = "close" THEN "remove" ELSE "lookup")
    BY <1>1 DEF Begin
  <2>2. j.key \in Key
    BY JobFacts
  <2>3. CASE j.op = "close"
    <3>1. Registry!Goto(t, "remove")
      BY <2>1, <2>3, RefinesGoto
      DEF Labels, Seen, OperationLabels, OpenLabels, LockedLabels, UnlockedLabels
    <3>2. Registry!CallClose(t, j.key)
      BY <1>1, <2>1, <3>1
      DEF Hands, Begin, registry, Registry!CallClose, OpenLabels, LockedLabels, UnlockedLabels
    <3> QED BY <2>2, <3>2
  <2>4. CASE j.op # "close"
    <3>1. Registry!Goto(t, "lookup")
      BY <2>1, <2>4, RefinesGoto
      DEF Labels, Seen, OperationLabels, OpenLabels, LockedLabels, UnlockedLabels
    <3>2. Registry!Call(t, j.key)
      BY <1>1, <2>1, <3>1
      DEF Hands, Begin, registry, Registry!Call, OpenLabels, LockedLabels, UnlockedLabels
    <3> QED BY <2>2, <3>2
  <2> QED BY <2>3, <2>4
<1> USE DEF Labels, Seen, OperationLabels, OpenLabels, LockedLabels, UnlockedLabels
<1>2. ASSUME NEW t \in Thread, Lookup(t)
      PROVE  Registry!LookupHit(t) \/ Registry!LookupMiss(t)
  <2>1. CASE reg[job[t].key] # NoStore
    BY <1>2, <2>1, RefinesGoto DEF Hands, Lookup, Continue, registry, Registry!LookupHit
  <2>2. CASE reg[job[t].key] = NoStore
    BY <1>2, <2>2, RefinesGoto DEF Hands, Lookup, Continue, registry, Registry!LookupMiss
  <2> QED BY <2>1, <2>2
<1>3. ASSUME NEW t \in Thread, OpenStep(t) PROVE Registry!OpenFails(t) \/ Stutter
  <2>1. pc[t] \in OpenLabels
    BY <1>3, OpenShape
  <2>2. ASSUME Returns(t, "open_error") PROVE Registry!OpenFails(t)
    BY <2>1, <2>2, RefinesFinish DEF Hands, Returns, Outcomes, registry, Registry!OpenFails
  <2> QED BY <1>0, <1>3, <2>1, <2>2, OpenShape
<1>4. ASSUME NEW t \in Thread, Construct(t) PROVE Registry!Open(t)
  BY <1>4, RefinesGoto
  DEF Hands, Construct, Continue, Unreachable, Registry!Open, Registry!Unreachable
<1>5. ASSUME NEW t \in Thread, Register(t)
      PROVE  Registry!RegisterFirst(t) \/ Registry!RegisterLoser(t)
  <2>1. CASE reg[job[t].key] = NoStore
    BY <1>5, <2>1, RefinesGoto DEF Hands, Register, Continue, Registry!RegisterFirst
  <2>2. CASE reg[job[t].key] # NoStore
    BY <1>5, <2>2, RefinesGoto DEF Hands, Register, Continue, Registry!RegisterLoser
  <2> QED BY <2>1, <2>2
<1>6. ASSUME NEW t \in Thread, OperationStep(t)
      PROVE  Registry!Use(t) \/ Registry!WarmUp(t) \/ Stutter
  <2>1. pc[t] \in OperationLabels
    BY <1>6, OperationShape
  <2>2. ASSUME Returns(t, "done") \/ Returns(t, "db_error") PROVE Registry!WarmUp(t)
    BY <2>1, <2>2, RefinesFinish DEF Hands, Returns, Outcomes, registry, Registry!WarmUp
  <2>3. ASSUME Returns(t, "closed"), held[t] \notin opened PROVE Registry!Use(t)
    <3>1. Registry!Finish(t, "closed")
      BY <2>3, RefinesFinish DEF Returns, Outcomes
    <3>2. Registry!Finish(t, IF held[t] \in opened THEN "done" ELSE "closed")
      BY <2>3, <3>1 DEF Registry!Finish
    <3>3. UNCHANGED <<reg, opened, owner>>
      BY <2>3 DEF Returns, registry
    <3> QED BY <2>1, <3>2, <3>3 DEF Hands, Registry!Use
  <2> QED BY <1>0, <1>6, <2>1, <2>2, <2>3, OperationShape
<1>7. ASSUME NEW t \in Thread, RemoveEntry(t)
      PROVE  Registry!RemoveEntry(t) \/ Registry!RemoveNothing(t)
  <2>1. CASE reg[job[t].key] # NoStore
    BY <1>7, <2>1, RefinesGoto DEF Hands, RemoveEntry, Continue, Registry!RemoveEntry
  <2>2. CASE reg[job[t].key] = NoStore
    BY <1>7, <2>2, RefinesFinish DEF Hands, RemoveEntry, Outcomes, Registry!RemoveNothing
  <2> QED BY <2>1, <2>2
<1>8. ASSUME NEW t \in Thread, TakeConnection(t) PROVE Registry!TakeConnection(t)
  BY <1>8, RefinesFinish DEF Hands, TakeConnection, Outcomes, Registry!TakeConnection
<1>9. ASSUME NEW t \in Thread, StatementFails(t)
      PROVE  Registry!OpenFails(t) \/ Registry!WarmUp(t)
  <2>1. CASE pc[t] \in OpenLabels /\ Returns(t, "open_error")
    BY <2>1, RefinesFinish DEF Hands, Returns, Outcomes, registry, Registry!OpenFails
  <2>2. CASE pc[t] \in LockedLabels /\ Returns(t, "db_error")
    BY <2>2, RefinesFinish DEF Hands, Returns, Outcomes, registry, Registry!WarmUp
  <2> QED BY <1>9, <2>1, <2>2, FailureShape
<1>10. CASE Exit
  BY <1>10 DEF Exit, NoJob, Registry!Next, Registry!Exit
<1>11. CASE Tick \/ UNCHANGED vars
  BY <1>11 DEF Tick, vars, registry, Registry!vars
<1> QED
  BY <1>1, <1>2, <1>3, <1>4, <1>5, <1>6, <1>7, <1>8, <1>9, <1>10, <1>11, Cases
  DEF Registry!Next, Registry!Step

(* To its callers the disk cache is the registry, statement by statement:   *)
(* the first winner is kept, the loser's connection goes, and "cache store  *)
(* is closed" is said only of a store a close took after it was looked up,  *)
(* for any number of threads, identities and stores.                        *)
THEOREM Refinement == Spec => ImplementsRegistry
<1>1. Types => Hands /\ FileOK
  BY DEF Types
<1> QED
  BY <1>1, RefinesInit, RefinesStep, TypesInvariant, PTL
  DEF Spec, ImplementsRegistry, Registry!Spec

-----------------------------------------------------------------------------
(****************************************************************************)
(* Connections.  A store that is still to be registered is known to its     *)
(* opener alone, so that the loser of a race takes no connection from under *)
(* an operation; and an operation runs on its connection by itself.         *)
(****************************************************************************)
OneOperationPerConnection ==
  \A t, u \in Thread : pc[t] \in LockedLabels /\ pc[u] \in LockedLabels /\ held[t] = held[u]
                       => t = u

Connections ==
  /\ \A t \in Thread : pc[t] = "register" =>
       /\ \A u \in Thread \ {t} : held[u] # held[t]
       /\ \A k \in Key : reg[k] # held[t]
  /\ OperatesOnLiveConnection
  /\ OneOperationPerConnection

LEMMA ConnectionsInit == Init => Connections
  BY DEF Init, Connections, OperatesOnLiveConnection, OneOperationPerConnection, LockedLabels

LEMMA ReturnsKeepsConnections ==
  ASSUME Hands, Connections, NEW t \in Thread, NEW result, Returns(t, result)
  PROVE  Connections'
  BY NoStoreAssumption
  DEF Hands, Connections, OperatesOnLiveConnection, OneOperationPerConnection,
      Returns, Finish, Goto, registry, LockedLabels

LEMMA ConnectionsStep == Hands /\ FileOK /\ Connections /\ [Next]_vars => Connections'
<1> SUFFICES ASSUME Hands, FileOK, Connections, [Next]_vars PROVE Connections'
  OBVIOUS
<1> USE NoStoreAssumption
    DEF Connections, OperatesOnLiveConnection, OneOperationPerConnection,
        OperationLabels, OpenLabels, LockedLabels, UnlockedLabels
<1>1. ASSUME NEW t \in Thread, Begin(t) PROVE Connections'
  BY <1>1 DEF Hands, Begin, Goto, registry
<1>2. ASSUME NEW t \in Thread, Lookup(t) PROVE Connections'
  BY <1>2, JobFacts DEF Hands, Lookup, Continue, Goto, registry
<1>3. ASSUME NEW t \in Thread, OpenStep(t) PROVE Connections'
  <2>1. ASSUME NEW l \in OpenLabels, GoesOn(t, l) PROVE Connections'
    BY <2>1 DEF Hands, GoesOn, Local, Continue, Goto, registry
  <2> QED BY <1>3, <2>1, OpenShape, ReturnsKeepsConnections
<1>4. ASSUME NEW t \in Thread, Construct(t) PROVE Connections'
  BY <1>4 DEF Hands, Construct, Continue, Goto, Unreachable
<1>5. ASSUME NEW t \in Thread, Register(t) PROVE Connections'
  BY <1>5, JobFacts DEF Hands, Register, Continue, Goto
<1>6. ASSUME NEW t \in Thread, OperationStep(t) PROVE Connections'
  <2>1. ASSUME NEW l \in OperationLabels, GoesOn(t, l), pc[t] \in OperationLabels,
               l \in LockedLabels =>
                 pc[t] \in LockedLabels \/ (held[t] \in opened /\ MutexFree(held[t]))
        PROVE  Connections'
    BY <2>1 DEF Hands, MutexFree, GoesOn, Local, Continue, Goto, registry
  <2> QED BY <1>6, <2>1, OperationShape, ReturnsKeepsConnections
<1>7. ASSUME NEW t \in Thread, RemoveEntry(t) PROVE Connections'
  BY <1>7, JobFacts DEF Hands, RemoveEntry, Continue, Goto, Finish
<1>8. ASSUME NEW t \in Thread, TakeConnection(t) PROVE Connections'
  BY <1>8 DEF Hands, TakeConnection, MutexFree, Finish, Goto
<1>9. ASSUME NEW t \in Thread, StatementFails(t) PROVE Connections'
  BY <1>9, FailureShape, ReturnsKeepsConnections
<1>10. CASE Exit
  BY <1>10 DEF Exit
<1>11. CASE Tick \/ UNCHANGED vars
  BY <1>11 DEF Tick, vars, registry
<1> QED
  BY <1>1, <1>2, <1>3, <1>4, <1>5, <1>6, <1>7, <1>8, <1>9, <1>10, <1>11, Cases

LEMMA ConnectionsInvariant == Spec => []Connections
<1>1. Types => Hands /\ FileOK
  BY DEF Types
<1> QED BY <1>1, ConnectionsInit, ConnectionsStep, TypesInvariant, PTL DEF Spec

(* close waits for the operation that is running: no statement is left      *)
(* without its connection, however many threads close, lose the race to     *)
(* register, or look the store up meanwhile.                                *)
THEOREM LiveConnections == Spec => []OperatesOnLiveConnection
  BY ConnectionsInvariant, PTL DEF Connections

(* Two operations never run on one connection at the same time: with_conn's *)
(* mutex, handed to every operation and to close, serialises them.          *)
THEOREM SerialConnections == Spec => []OneOperationPerConnection
  BY ConnectionsInvariant, PTL DEF Connections

-----------------------------------------------------------------------------
(****************************************************************************)
(* Schema versions.  No statement writes a payload of an older version, so  *)
(* a table once clean stays clean; the version is recorded as current only  *)
(* when every table is, and stays current; and whoever has got past the     *)
(* version check, or holds a store, has seen it so.                         *)
(****************************************************************************)
CleanRows(tables, T) ==
  \A i \in Item : SelectRow(tables, T, i) # NoRow => SelectRow(tables, T, i).payload \in Value

Clean(T) == CleanRows(file.tables, T)

LateLabels == {"expire", "measure", "collect", "trim", "construct", "register", "closing"}
                \cup OperationLabels

FileSchema == file.version # "older" => \A T \in Table : Clean(T)

(* A rebuild has dropped the tables before the one at pos, then all.        *)
ThreadSchema(t) ==
  /\ pc[t] = "version" => scan[t].pos = 1
  /\ pc[t] = "drop" => \A n \in DOMAIN TableOrder : n < scan[t].pos => Clean(TableOrder[n])
  /\ pc[t] \in {"recreate", "restamp"} => \A T \in Table : Clean(T)
  /\ pc[t] \in LateLabels => file.version = "current"
  /\ scan[t].hit # NoRow => scan[t].hit.payload \in Value

Schema ==
  /\ FileSchema
  /\ \A k \in Key : reg[k] # NoStore => file.version = "current"
  /\ \A t \in Thread : ThreadSchema(t)

(* No statement makes a clean table unclean. *)
LEMMA StatementsKeepClean ==
  ASSUME NEW tables \in Tables, NEW T \in Table, CleanRows(tables, T), NEW U
  PROVE  /\ CleanRows(CreateTable(tables, U), T)
         /\ CleanRows(DropTable(tables, U), T)
         /\ CleanRows(EmptyOut(tables, U), T)
         /\ \A cutoff : Exists(tables, U) => CleanRows(DeleteOlder(tables, U, cutoff), T)
         /\ \A i : Exists(tables, U) => CleanRows(DeleteRow(tables, U, i), T)
         /\ \A i, v, n : Exists(tables, U) /\ v \in Value => CleanRows(PutRow(tables, U, i, v, n), T)
<1> USE DEF Tables, CleanRows, SelectRow, Exists
<1>1. /\ CleanRows(CreateTable(tables, U), T)
      /\ CleanRows(DropTable(tables, U), T)
      /\ CleanRows(EmptyOut(tables, U), T)
  BY DEF CreateTable, DropTable, EmptyOut, EmptyTable
<1>2. ASSUME NEW cutoff, Exists(tables, U) PROVE CleanRows(DeleteOlder(tables, U, cutoff), T)
  <2> DEFINE kept == DeleteOlder(tables, U, cutoff)
  <2>1. \A j \in Item : SelectRow(kept, T, j) \in {NoRow, SelectRow(tables, T, j)}
    BY <1>2 DEF DeleteOlder, Rows
  <2> QED BY <2>1
<1>3. ASSUME NEW i, Exists(tables, U) PROVE CleanRows(DeleteRow(tables, U, i), T)
  BY <1>3 DEF DeleteRow, Rows
<1>4. ASSUME NEW i, NEW v \in Value, NEW n, Exists(tables, U)
      PROVE  CleanRows(PutRow(tables, U, i, v, n), T)
  <2> DEFINE put == PutRow(tables, U, i, v, n)
  <2>1. ASSUME NEW j \in Item, SelectRow(put, T, j) # NoRow
        PROVE  SelectRow(put, T, j).payload \in Value
    <3>1. CASE T = U /\ j = i
      <4>1. put[T][j] = [payload |-> v, created_at |-> n]
        BY <1>4, <3>1 DEF PutRow, Rows
      <4> QED BY <2>1, <4>1
    <3>2. CASE ~(T = U /\ j = i)
      <4>1. SelectRow(put, T, j) \in {NoRow, SelectRow(tables, T, j)}
        BY <1>4, <3>2 DEF PutRow, Rows
      <4> HIDE DEF put
      <4> QED BY <2>1, <4>1
    <3> QED BY <3>1, <3>2
  <2> QED BY <2>1
<1> QED BY <1>1, <1>2, <1>3, <1>4

LEMMA CleanKept ==
  ASSUME Types, [Next]_vars
  PROVE  \A T \in Table : Clean(T) => Clean(T)'
<1> SUFFICES ASSUME NEW T \in Table, Clean(T) PROVE Clean(T)'
  OBVIOUS
<1>0. file.tables \in Tables /\ CleanRows(file.tables, T)
  BY DEF Types, FileOK, Clean
<1>1. CASE UNCHANGED file
  BY <1>1 DEF Clean
<1>2. ASSUME NEW t \in Thread, Writes(t) PROVE CleanRows(file'.tables, T)
  <2>0. pc[t] = "body" /\ job[t].op = "put" => job[t].payload \in Value
    BY JobFacts DEF Types, Hands
  <2>1. CASE file'.tables = file.tables
    BY <1>0, <2>1
  <2>2. CASE file'.tables # file.tables
    <3>1. PICK U :
            \/ file'.tables = CreateTable(file.tables, U)
            \/ file'.tables = DropTable(file.tables, U)
            \/ file'.tables = EmptyOut(file.tables, U)
            \/ /\ Exists(file.tables, U)
               /\ \E cutoff : file'.tables = DeleteOlder(file.tables, U, cutoff)
            \/ /\ Exists(file.tables, U)
               /\ \E i : file'.tables = DeleteRow(file.tables, U, i)
            \/ /\ Exists(file.tables, U)
               /\ \E i, n : \E v \in Value : file'.tables = PutRow(file.tables, U, i, v, n)
      BY <1>2, <2>0, <2>2 DEF Writes, Types, FileOK
    <3> QED BY <1>0, <3>1, StatementsKeepClean
  <2> QED BY <2>1, <2>2
<1> QED BY <1>1, <1>2, FileShape DEF Clean
LEMMA SchemaInit == Init => Schema
<1> SUFFICES ASSUME Init PROVE Schema
  OBVIOUS
<1>1. FileSchema
  <2>1. PICK kind \in {"fresh", "older", "current"} : file \in FileAtStart(kind)
    BY FilesAssumption DEF Init
  <2>2. CASE kind = "fresh"
    BY <2>1, <2>2 DEF FileAtStart, FileSchema, Clean, CleanRows, SelectRow, Exists
  <2>3. CASE kind = "current"
    <3>1. \A T \in Table : \E v \in Value : file.tables[T] \in LeftBy(v)
      BY <2>1, <2>3 DEF FileAtStart
    <3> QED BY <3>1 DEF FileSchema, Clean, CleanRows, SelectRow, Exists, LeftBy, EmptyTable
  <2>4. CASE kind = "older"
    BY <2>1, <2>4 DEF FileAtStart, FileSchema
  <2> QED BY <2>1, <2>2, <2>3, <2>4
<1>2. \A t \in Thread : ThreadSchema(t)
  BY DEF Init, ThreadSchema, LateLabels, OperationLabels, LockedLabels, UnlockedLabels, NoScan
<1> QED BY <1>1, <1>2 DEF Init, Schema

LEMMA CurrentKept ==
  ASSUME Types, [Next]_vars, file.version = "current"
  PROVE  file'.version = "current"
  BY FileShape DEF Writes, Types, FileOK

LEMMA FileSchemaKept ==
  ASSUME Types, Schema, [Next]_vars
  PROVE  FileSchema'
<1> SUFFICES ASSUME file'.version # "older" PROVE \A T \in Table : Clean(T)'
  BY DEF FileSchema
<1>1. file.version # "older" \/ \E t \in Thread : pc[t] = "restamp"
  BY FileShape DEF Writes, Types, FileOK
<1>2. \A T \in Table : Clean(T)
  BY <1>1 DEF Schema, FileSchema, ThreadSchema
<1> QED BY <1>2, CleanKept

(* Threads that do not move, and those that go on or return. *)
LEMMA OthersKeepSchema ==
  ASSUME Types, Schema, [Next]_vars, NEW u \in Thread, pc'[u] = pc[u], scan'[u] = scan[u]
  PROVE  ThreadSchema(u)'
<1>1. \A n \in DOMAIN TableOrder : TableOrder[n] \in Table
  BY DEF Table
<1> QED BY <1>1, CleanKept, CurrentKept DEF Schema, ThreadSchema

LEMMA ReturnsKeepsSchema ==
  ASSUME Types, NEW t \in Thread, NEW result, Finish(t, result)
  PROVE  ThreadSchema(t)'
  BY DEF Types, Hands, Finish, Goto, ThreadSchema, NoScan,
     LateLabels, OperationLabels, LockedLabels, UnlockedLabels

LEMMA LateKeepsSchema ==
  ASSUME Types, NEW t \in Thread, NEW l \in LateLabels, NEW locals,
         Continue(t, l, locals), file'.version = "current",
         locals.hit # NoRow => locals.hit.payload \in Value
  PROVE  ThreadSchema(t)'
  BY DEF Types, Hands, Continue, Goto, ThreadSchema,
     LateLabels, OperationLabels, LockedLabels, UnlockedLabels

(* Which labels follow each other in open, with what the schema needs.      *)
LEMMA OpenGraph ==
  ASSUME Types, NEW t \in Thread, OpenStep(t)
  PROVE  \/ pc'[t] = "idle" /\ pc[t] \notin {"create", "drop", "recreate"}
         \/ /\ pc[t] = "create" /\ pc'[t] = "create" /\ scan'[t].pos = scan[t].pos + 1
            /\ file'.tables = CreateTable(file.tables, TableOrder[scan[t].pos])
         \/ /\ pc[t] = "create" /\ pc'[t] = "version" /\ scan'[t].pos = 1
            /\ scan[t].pos = Len(TableOrder)
            /\ file'.tables = CreateTable(file.tables, TableOrder[scan[t].pos])
         \/ pc[t] = "version" /\ pc'[t] = "stamp"
         \/ pc[t] = "version" /\ pc'[t] = "drop" /\ scan'[t].pos = scan[t].pos
         \/ pc[t] = "version" /\ pc'[t] = "expire" /\ file.version = "current"
         \/ pc[t] \in {"stamp", "restamp"} /\ pc'[t] = "expire"
         \/ /\ pc[t] = "drop" /\ pc'[t] = "drop" /\ scan'[t].pos = scan[t].pos + 1
            /\ file'.tables = DropTable(file.tables, TableOrder[scan[t].pos])
         \/ /\ pc[t] = "drop" /\ pc'[t] = "recreate" /\ scan'[t].pos = 1
            /\ scan[t].pos = Len(TableOrder)
            /\ file'.tables = DropTable(file.tables, TableOrder[scan[t].pos])
         \/ /\ pc[t] = "recreate" /\ pc'[t] = "recreate" /\ scan'[t].pos = scan[t].pos + 1
            /\ file'.tables = CreateTable(file.tables, TableOrder[scan[t].pos])
         \/ /\ pc[t] = "recreate" /\ pc'[t] = "restamp" /\ scan[t].pos = Len(TableOrder)
            /\ file'.tables = CreateTable(file.tables, TableOrder[scan[t].pos])
         \/ /\ pc[t] \in {"expire", "measure", "collect", "trim"}
            /\ pc'[t] \in {"expire", "measure", "collect", "trim", "construct"}
<1>0. /\ pc \in [Thread -> Labels] /\ DOMAIN scan = Thread
      /\ DOMAIN scan[t] = DOMAIN NoScan
      /\ scan[t].pos \in 1..Len(LoopOver(pc[t]))
      /\ file.version \in Versions
  BY DEF Types, Hands, FileOK, Loops
<1>1. ASSUME OpenFails(t) PROVE pc'[t] = "idle"
  BY <1>0, <1>1 DEF OpenFails, Finish, Goto
<1>2. CASE CreateNext(t)
  <2>1. scan[t].pos \in 1..Len(TableOrder) /\ pc[t] \in {"create", "recreate"}
    BY <1>0, <1>2 DEF CreateNext, LoopOver
  <2>2. file'.tables = CreateTable(file.tables, TableOrder[scan[t].pos])
    BY <1>2 DEF CreateNext, Types, FileOK
  <2>3. \/ pc'[t] = pc[t] /\ scan'[t].pos = scan[t].pos + 1
        \/ /\ pc'[t] = (IF pc[t] = "create" THEN "version" ELSE "restamp")
           /\ scan'[t].pos = 1 /\ scan[t].pos = Len(TableOrder)
    BY <1>0, <1>2, <2>1, OrderLengths DEF CreateNext, NextTable, Continue, Goto, NoScan
  <2> QED BY <2>1, <2>2, <2>3
<1>3. CASE ReadVersion(t)
  <2> DEFINE locals == [scan[t] EXCEPT !.cutoff = now - Ttl[job[t].key]]
  <2>1. locals.pos = scan[t].pos
    BY <1>0 DEF NoScan
  <2>2. \E l \in {"stamp", "drop", "expire"} :
          Continue(t, l, locals) /\ (l = "expire" => file.version = "current")
    <3>1. CASE file.version = "none"
      BY <1>3, <3>1 DEF ReadVersion
    <3>2. CASE file.version = "older"
      BY <1>3, <3>2 DEF ReadVersion
    <3>3. CASE file.version = "current"
      BY <1>3, <3>3 DEF ReadVersion
    <3>4. file.version = "none" \/ file.version = "older" \/ file.version = "current"
      BY <1>0 DEF Versions
    <3> QED BY <3>1, <3>2, <3>3, <3>4, Zenon
  <2>3. pc[t] = "version"
    BY <1>3 DEF ReadVersion
  <2> HIDE DEF locals
  <2> QED BY <1>0, <2>1, <2>2, <2>3 DEF Continue, Goto
<1>4. CASE Stamp(t) \/ Restamp(t)
  BY <1>0, <1>1, <1>4 DEF Stamp, Restamp, Continue, Goto
<1>5. CASE DropNext(t)
  <2>1. scan[t].pos \in 1..Len(TableOrder)
    BY <1>0, <1>5 DEF DropNext, LoopOver
  <2>2. file'.tables = DropTable(file.tables, TableOrder[scan[t].pos])
    BY <1>5 DEF DropNext, Types, FileOK
  <2> QED BY <1>0, <1>5, <2>1, <2>2, OrderLengths DEF DropNext, NextTable, Continue, Goto, NoScan
<1>6. CASE ExpireNext(t)
  BY <1>0, <1>1, <1>6 DEF ExpireNext, NextTable, Continue, Goto
<1>7. CASE MeasureNext(t)
  BY <1>0, <1>1, <1>7 DEF MeasureNext, Continue, Goto
<1>8. CASE Collect(t)
  BY <1>0, <1>1, <1>8 DEF Collect, Continue, Goto
<1>9. CASE Trim(t)
  BY <1>0, <1>1, <1>9 DEF Trim, Continue, Goto
<1> QED
  BY <1>2, <1>3, <1>4, <1>5, <1>6, <1>7, <1>8, <1>9 DEF OpenStep

LEMMA OpenKeepsSchema ==
  ASSUME Types, Schema, [Next]_vars, NEW t \in Thread, OpenStep(t)
  PROVE  ThreadSchema(t)'
<1>0. ThreadSchema(t)
  BY DEF Schema
<1>1. scan'[t].hit # NoRow => scan'[t].hit.payload \in Value
  <2>1. PICK l \in OpenLabels : GoesOn(t, l) \/ Returns(t, "open_error")
    BY OpenShape DEF Types, OpenLabels
  <2>2. scan'[t].hit \in {scan[t].hit, NoRow}
    BY <2>1 DEF Types, Hands, GoesOn, Local, Returns, Finish, Continue, OpenLabels, NoScan
  <2> QED BY <1>0, <2>2 DEF ThreadSchema
<1>2. pc'[t] \in {"expire", "measure", "collect", "trim", "construct"} => file'.version = "current"
  <2>1. pc[t] \in {"stamp", "restamp"} /\ pc'[t] = "expire" => file'.version = "current"
    BY DEF OpenStep, CreateNext, ReadVersion, Stamp, DropNext, Restamp, ExpireNext,
       MeasureNext, Collect, Trim, OpenFails, Finish, Goto, Types, Hands, FileOK
  <2> QED BY <1>0, <2>1, OpenGraph, CurrentKept DEF ThreadSchema, LateLabels
<1>3. DOMAIN TableOrder = 1..Len(TableOrder) /\ scan[t].pos \in 1..Len(LoopOver(pc[t]))
  BY TableAssumption DEF Types, Loops
<1>4. ASSUME pc[t] = "drop", pc'[t] \in {"drop", "recreate"},
             NEW n \in DOMAIN TableOrder, n < scan[t].pos \/ n = scan[t].pos
      PROVE  Clean(TableOrder[n])'
  <2>1. TableOrder[n] \in Table
    BY DEF Table
  <2>2. CASE n < scan[t].pos
    BY <1>0, <1>4, <2>1, <2>2, CleanKept DEF ThreadSchema
  <2>3. CASE n = scan[t].pos
    <3>1. file'.tables = DropTable(file.tables, TableOrder[n])
      BY <1>4, <2>3, OpenGraph
    <3> QED
      BY <2>1, <3>1 DEF Types, FileOK, Tables, DropTable, Clean, CleanRows, SelectRow, Exists
  <2> QED BY <1>4, <2>2, <2>3
<1>5. pc'[t] \in {"recreate", "restamp"} => \A T \in Table : Clean(T)'
  <2>1. CASE pc[t] = "recreate"
    BY <1>0, <2>1, CleanKept DEF ThreadSchema
  <2>2. CASE pc[t] = "drop" /\ pc'[t] = "recreate"
    <3>1. \A n \in DOMAIN TableOrder : Clean(TableOrder[n])'
      BY <1>0, <1>3, <1>4, <2>2, OpenGraph, OrderLengths DEF ThreadSchema
    <3> QED BY <3>1 DEF Table
  <2> QED BY <2>1, <2>2, OpenGraph
<1>6. pc'[t] = "drop" => \A n \in DOMAIN TableOrder : n < scan'[t].pos => Clean(TableOrder[n])'
  BY <1>0, <1>3, <1>4, OpenGraph, OrderLengths DEF ThreadSchema
<1> QED
  BY <1>1, <1>2, <1>5, <1>6, OpenGraph
  DEF ThreadSchema, LateLabels, OperationLabels, LockedLabels, UnlockedLabels

LEMMA OperationKeepsSchema ==
  ASSUME Types, Schema, [Next]_vars, NEW t \in Thread, OperationStep(t)
  PROVE  ThreadSchema(t)'
<1>0. /\ pc[t] \in OperationLabels
      /\ file.version = "current" /\ file'.version = "current"
  BY OperationShape, CurrentKept DEF Types, Schema, ThreadSchema, LateLabels
<1>1. CASE GetSelect(t)
  <2> PICK row \in Answers(t) : Continue(t, "bump", [NoScan EXCEPT !.hit = row])
    BY <1>1 DEF GetSelect
  <2> DEFINE locals == [NoScan EXCEPT !.hit = row]
  <2>1. locals.hit = row
    BY DEF NoScan
  <2>2. job[t].table \in Table /\ job[t].item \in Item
    BY <1>1, JobFacts DEF GetSelect, Types, Hands
  <2>3. row # NoRow => row.payload \in Value
    BY <1>0, <2>2 DEF Schema, FileSchema, Clean, CleanRows, Answers
  <2>4. Continue(t, "bump", locals)
    OBVIOUS
  <2> HIDE DEF locals
  <2> QED
    BY <1>0, <2>1, <2>3, <2>4, LateKeepsSchema DEF LateLabels, OperationLabels, LockedLabels
<1>2. CASE ~GetSelect(t)
  <2>1. \/ \E l \in OperationLabels : \E locals :
             Continue(t, l, locals) /\ (locals.hit \in {scan[t].hit, NoRow})
        \/ \E result : Finish(t, result)
    <3>1. pc'[t] # "bump"
      BY <1>2 DEF OperationStep, WarmUp, Acquire, GetBump, Put, ClearNext, ExportKeys,
         ExportMetadata, ExportPayload, ExportDone, Continue, Finish, Goto, Types, Hands
    <3>2. PICK l \in OperationLabels : GoesOn(t, l) \/ \E result : Returns(t, result)
      BY OperationShape DEF Types, OperationLabels, LockedLabels
    <3>3. ASSUME GoesOn(t, l) PROVE l # "bump"
      BY <3>1, <3>3 DEF GoesOn, Continue, Goto, Types, Hands
    <3> QED BY <3>2, <3>3 DEF GoesOn, Local, Returns
  <2> QED
    BY <1>0, <2>1, LateKeepsSchema, ReturnsKeepsSchema DEF Schema, ThreadSchema, LateLabels
<1> QED BY <1>1, <1>2

LEMMA SchemaStep == Types /\ Schema /\ [Next]_vars => Schema'
<1> SUFFICES ASSUME Types, Schema, [Next]_vars PROVE Schema'
  OBVIOUS
<1>0. /\ Hands
      /\ \A k \in Key : reg[k] # NoStore => file.version = "current"
      /\ \A t \in Thread : ThreadSchema(t)
  BY DEF Types, Schema
<1>1. ASSUME NEW t \in Thread,
             \A u \in Thread \ {t} : pc'[u] = pc[u] /\ scan'[u] = scan[u],
             \A k \in Key : reg'[k] \in {reg[k], NoStore} \/ pc[t] = "register",
             ThreadSchema(t)'
      PROVE  Schema'
  <2>1. \A u \in Thread : ThreadSchema(u)'
    BY <1>1, OthersKeepSchema
  <2>2. ASSUME NEW k \in Key, reg'[k] # NoStore PROVE file'.version = "current"
    BY <1>0, <1>1, <2>2, CurrentKept DEF ThreadSchema, LateLabels
  <2> QED BY <2>1, <2>2, FileSchemaKept DEF Schema
<1>2. ASSUME NEW t \in Thread, Begin(t) PROVE Schema'
  <2>1. ThreadSchema(t)'
    BY <1>0, <1>2
    DEF Begin, Goto, Hands, ThreadSchema, LateLabels, OperationLabels, LockedLabels, UnlockedLabels
  <2> QED BY <1>0, <1>1, <1>2, <2>1 DEF Begin, Goto, Hands, registry
<1>3. ASSUME NEW t \in Thread, Lookup(t) PROVE Schema'
  <2>1. ThreadSchema(t)'
    <3>1. CASE reg[job[t].key] # NoStore
      <4>1. job[t].key \in Key
        BY <1>0, <1>3, JobFacts DEF Lookup, Hands
      <4>2. file'.version = "current"
        BY <1>0, <3>1, <4>1, CurrentKept
      <4> QED
        BY <1>3, <3>1, <4>2, LateKeepsSchema
        DEF Lookup, LateLabels, OperationLabels, UnlockedLabels, NoScan
    <3>2. CASE reg[job[t].key] = NoStore
      BY <1>0, <1>3, <3>2
      DEF Lookup, Continue, Goto, Hands, ThreadSchema, LateLabels, OperationLabels,
          LockedLabels, UnlockedLabels, NoScan
    <3> QED BY <3>1, <3>2
  <2> QED BY <1>0, <1>1, <1>3, <2>1 DEF Lookup, Continue, Goto, Hands, registry
<1>4. ASSUME NEW t \in Thread, Construct(t) \/ Register(t) PROVE Schema'
  <2>1. file'.version = "current"
    BY <1>0, <1>4, CurrentKept DEF Construct, Register, ThreadSchema, LateLabels
  <2>2. ThreadSchema(t)'
    BY <1>4, <2>1, LateKeepsSchema
    DEF Construct, Register, LateLabels, OperationLabels, UnlockedLabels, NoScan
  <2> QED BY <1>0, <1>1, <1>4, <2>2 DEF Construct, Register, Continue, Goto, Hands
<1>5. ASSUME NEW t \in Thread, OpenStep(t) \/ OperationStep(t) PROVE Schema'
  <2>1. (\E l : GoesOn(t, l)) \/ (\E result : Returns(t, result))
    BY <1>5, OpenShape, OperationShape DEF Types
  <2> QED
    BY <1>0, <1>1, <1>5, <2>1, OpenKeepsSchema, OperationKeepsSchema
    DEF GoesOn, Returns, Continue, Finish, Goto, Hands, registry
<1>6. ASSUME NEW t \in Thread, RemoveEntry(t) PROVE Schema'
  <2>1. ThreadSchema(t)'
    <3>1. CASE reg[job[t].key] # NoStore
      <4>1. job[t].key \in Key
        BY <1>0, <1>6, JobFacts DEF RemoveEntry, Hands
      <4>2. file'.version = "current"
        BY <1>0, <3>1, <4>1, CurrentKept
      <4> QED BY <1>6, <3>1, <4>2, LateKeepsSchema DEF RemoveEntry, LateLabels, NoScan
    <3>2. CASE reg[job[t].key] = NoStore
      BY <1>6, <3>2, ReturnsKeepsSchema DEF RemoveEntry
    <3> QED BY <3>1, <3>2
  <2> QED BY <1>0, <1>1, <1>6, <2>1 DEF RemoveEntry, Continue, Finish, Goto, Hands
<1>7. ASSUME NEW t \in Thread, TakeConnection(t) \/ StatementFails(t) PROVE Schema'
  <2>1. UNCHANGED reg /\ \E result : Finish(t, result)
    BY <1>7 DEF TakeConnection, StatementFails, OpenFails, registry
  <2>2. ThreadSchema(t)'
    BY <2>1, ReturnsKeepsSchema
  <2>3. \A u \in Thread \ {t} : pc'[u] = pc[u] /\ scan'[u] = scan[u]
    BY <1>0, <2>1 DEF Finish, Goto, Hands
  <2> QED BY <1>1, <2>1, <2>2, <2>3
<1>8. CASE Exit
  BY <1>8, FileSchemaKept
  DEF Exit, Schema, ThreadSchema, LateLabels, OperationLabels, LockedLabels, UnlockedLabels, NoScan
<1>9. CASE Tick \/ UNCHANGED vars
  BY <1>0, <1>9, FileSchemaKept, OthersKeepSchema, CurrentKept DEF Tick, vars, registry, Schema
<1> QED
  BY <1>2, <1>3, <1>4, <1>5, <1>6, <1>7, <1>8, <1>9, Cases

LEMMA SchemaInvariant == Spec => []Schema
  BY SchemaInit, SchemaStep, TypesInvariant, PTL DEF Spec

(* Payloads of another schema version never reach a caller, whatever the    *)
(* statement an upgrade stopped at and whoever opened the file meanwhile.   *)
THEOREM CurrentSchemaServed == Spec => []ServesCurrentSchema
<1>1. Types /\ Schema => ServesCurrentSchema
  BY ValueAssumption
  DEF Schema, FileSchema, ThreadSchema, Clean, CleanRows, SelectRow, Items, ServesCurrentSchema
<1> QED BY <1>1, TypesInvariant, SchemaInvariant, PTL

-----------------------------------------------------------------------------
(****************************************************************************)
(* Rebuilds.  A table that is missing while somebody may be served is one   *)
(* a rebuild still has in front of it: the rebuild has yet to create it.    *)
(* A thread whose statement failed would leave it missing for good, so this *)
(* needs that none does.                                                    *)
(****************************************************************************)
Covered(n) ==
  \/ Exists(file.tables, TableOrder[n])
  \/ \E u \in Thread : \/ pc[u] = "drop"
                       \/ pc[u] = "recreate" /\ scan[u].pos <= n

AllCovered == \A n \in DOMAIN TableOrder : Covered(n)

(* Only a DROP takes a table away. *)
LEMMA StatementsKeepTables ==
  ASSUME NEW tables \in Tables, NEW T \in Table, Exists(tables, T), NEW U
  PROVE  /\ Exists(CreateTable(tables, U), T)
         /\ Exists(EmptyOut(tables, U), T)
         /\ T # U => Exists(DropTable(tables, U), T)
         /\ \A cutoff : Exists(tables, U) => Exists(DeleteOlder(tables, U, cutoff), T)
         /\ \A i : Exists(tables, U) => Exists(DeleteRow(tables, U, i), T)
         /\ \A i, v, n : Exists(tables, U) /\ v \in Value /\ n \in Nat
                           => Exists(PutRow(tables, U, i, v, n), T)
<1>0. tables[T] \in Rows
  BY DEF Tables, Exists
<1>1. /\ Exists(CreateTable(tables, U), T)
      /\ Exists(EmptyOut(tables, U), T)
      /\ T # U => Exists(DropTable(tables, U), T)
  BY EmptyTableType, NoTableAssumption DEF Tables, Exists, CreateTable, EmptyOut, DropTable
<1>2. ASSUME NEW cutoff, Exists(tables, U) PROVE Exists(DeleteOlder(tables, U, cutoff), T)
  BY <1>0, <1>2, NoTableAssumption DEF Tables, Exists, DeleteOlder, Rows
<1>3. ASSUME NEW i, Exists(tables, U) PROVE Exists(DeleteRow(tables, U, i), T)
  BY <1>0, <1>3, NoTableAssumption DEF Tables, Exists, DeleteRow, Rows
<1>4. ASSUME NEW i, NEW v \in Value, NEW n \in Nat, Exists(tables, U)
      PROVE  Exists(PutRow(tables, U, i, v, n), T)
  <2>1. [payload |-> v, created_at |-> n] \in Row
    BY DEF Row
  <2> QED BY <1>0, <1>4, <2>1, NoTableAssumption DEF Tables, Exists, PutRow, Rows
<1> QED BY <1>1, <1>2, <1>3, <1>4
LEMMA CoveredKept ==
  ASSUME ~DiskErrors, Types, [Next]_vars, ~Exit, NEW n \in DOMAIN TableOrder, Covered(n)
  PROVE  Covered(n)'
<1>0. /\ TableOrder[n] \in Table /\ n \in Nat
      /\ DOMAIN TableOrder = 1..Len(TableOrder)
      /\ file.tables \in Tables
      /\ Hands /\ FileOK
  BY TableAssumption DEF Table, Types, FileOK
<1>1. ASSUME NEW t \in Thread, OpenStep(t),
             pc[t] = "drop" \/ (pc[t] = "recreate" /\ scan[t].pos <= n)
      PROVE  Covered(n)'
  <2>1. scan[t].pos \in 1..Len(LoopOver(pc[t]))
    BY DEF Types, Loops
  <2>2. CASE pc[t] = "drop"
    BY <1>0, <1>1, <2>2, OpenGraph DEF Covered
  <2>3. CASE pc[t] = "recreate" /\ n = scan[t].pos
    <3>1. file'.tables = CreateTable(file.tables, TableOrder[n])
      BY <1>1, <2>3, OpenGraph
    <3> QED
      BY <1>0, <3>1, EmptyTableType, NoTableAssumption DEF Covered, CreateTable, Exists, Tables
  <2>4. CASE pc[t] = "recreate" /\ scan[t].pos < n
    BY <1>0, <1>1, <2>1, <2>4, OpenGraph, OrderLengths DEF Covered, LoopOver
  <2> QED BY <1>0, <1>1, <2>1, <2>2, <2>3, <2>4 DEF LoopOver
<1>2. ASSUME NEW u \in Thread, pc[u] = "drop" \/ (pc[u] = "recreate" /\ scan[u].pos <= n)
      PROVE  Covered(n)'
  <2>1. CASE OpenStep(u)
    BY <1>1, <1>2, <2>1
  <2>2. CASE ~OpenStep(u)
    <3>1. pc'[u] = pc[u] /\ scan'[u] = scan[u]
      <4>1. ASSUME \/ Begin(u) \/ Lookup(u) \/ Construct(u) \/ Register(u)
                   \/ OperationStep(u) \/ RemoveEntry(u) \/ TakeConnection(u) \/ StatementFails(u)
            PROVE  FALSE
        BY <1>0, <1>2, <4>1, OperationShape
        DEF Begin, Lookup, Construct, Register, RemoveEntry, TakeConnection, StatementFails,
            OperationLabels, LockedLabels, UnlockedLabels
      <4>2. ASSUME NEW t \in Thread \ {u},
                   \/ Begin(t) \/ Lookup(t) \/ OpenStep(t) \/ Construct(t) \/ Register(t)
                   \/ OperationStep(t) \/ RemoveEntry(t) \/ TakeConnection(t) \/ StatementFails(t)
            PROVE  pc'[u] = pc[u] /\ scan'[u] = scan[u]
        BY <1>0, <4>2, Movers
      <4>3. CASE Tick \/ UNCHANGED vars
        BY <4>3 DEF Tick, vars
      <4> QED BY <2>2, <4>1, <4>2, <4>3, Cases
    <3> QED BY <1>2, <3>1 DEF Covered
  <2> QED BY <2>1, <2>2
<1>3. ASSUME Exists(file.tables, TableOrder[n]) PROVE Covered(n)'
  <2>1. CASE UNCHANGED file
    BY <1>3, <2>1 DEF Covered
  <2>2. ASSUME NEW t \in Thread, Writes(t), pc[t] # "drop" PROVE Exists(file'.tables, TableOrder[n])
    <3>1. CASE file'.tables = file.tables
      BY <1>3, <3>1
    <3>2. CASE file'.tables # file.tables
      <4>0. job[t].op = "put" /\ pc[t] = "body" => job[t].payload \in Value
        BY <1>0, JobFacts DEF Hands
      <4>1. PICK U :
              \/ file'.tables = CreateTable(file.tables, U)
              \/ file'.tables = EmptyOut(file.tables, U)
              \/ /\ Exists(file.tables, U)
                 /\ \/ \E cutoff : file'.tables = DeleteOlder(file.tables, U, cutoff)
                    \/ \E i : file'.tables = DeleteRow(file.tables, U, i)
                    \/ \E i : \E v \in Value, m \in Nat :
                         file'.tables = PutRow(file.tables, U, i, v, m)
        BY <1>0, <2>2, <3>2, <4>0, BoundsAssumption DEF Writes, FileOK
      <4> QED BY <1>0, <1>3, <4>1, StatementsKeepTables
    <3> QED BY <3>1, <3>2
  <2>3. ASSUME NEW t \in Thread, pc[t] = "drop" PROVE Covered(n)'
    BY <1>2, <2>3
  <2> QED BY <2>1, <2>2, <2>3, FileShape DEF Covered
<1> QED BY <1>2, <1>3 DEF Covered

(* What a thread owes to the tables at its label. *)
ThreadRebuilds(t) ==
  /\ pc[t] = "create" => \A n \in DOMAIN TableOrder : n < scan[t].pos => Covered(n)
  /\ pc[t] \in (OpenLabels \ {"create"}) \cup {"register"} => AllCovered

Rebuilds ==
  /\ \A k \in Key : reg[k] # NoStore => AllCovered
  /\ \A t \in Thread : ThreadRebuilds(t)

LEMMA RebuildsInit == Init => Rebuilds
  BY DEF Init, Rebuilds, ThreadRebuilds, OpenLabels

LEMMA OpenKeepsRebuilds ==
  ASSUME ~DiskErrors, Types, Rebuilds, [Next]_vars, ~Exit, NEW t \in Thread, OpenStep(t)
  PROVE  ThreadRebuilds(t)'
<1>0. /\ ThreadRebuilds(t)
      /\ DOMAIN TableOrder = 1..Len(TableOrder)
      /\ scan[t].pos \in 1..Len(LoopOver(pc[t]))
      /\ file.tables \in Tables
  BY TableAssumption DEF Rebuilds, Types, Loops, FileOK
<1>1. ASSUME pc[t] = "create", file'.tables = CreateTable(file.tables, TableOrder[scan[t].pos]),
             NEW n \in DOMAIN TableOrder, n < scan[t].pos \/ n = scan[t].pos
      PROVE  Covered(n)'
  <2>1. CASE n < scan[t].pos
    BY <1>0, <1>1, <2>1, CoveredKept DEF ThreadRebuilds
  <2>2. CASE n = scan[t].pos
    <3>1. TableOrder[n] \in Table
      BY DEF Table
    <3> QED
      BY <1>0, <1>1, <2>2, <3>1, EmptyTableType, NoTableAssumption
      DEF Covered, CreateTable, Exists, Tables
  <2> QED BY <1>1, <2>1, <2>2
<1>2. CASE pc[t] = "create"
  <2>1. scan[t].pos \in 1..Len(TableOrder)
    BY <1>0, <1>2 DEF LoopOver
  <2>2. \/ pc'[t] = "create" /\ scan'[t].pos = scan[t].pos + 1
        \/ pc'[t] = "version" /\ scan[t].pos = Len(TableOrder)
    BY <1>2, OpenGraph
  <2>3. file'.tables = CreateTable(file.tables, TableOrder[scan[t].pos])
    BY <1>2, OpenGraph
  <2>4. CASE pc'[t] = "create" /\ scan'[t].pos = scan[t].pos + 1
    BY <1>0, <1>1, <1>2, <2>1, <2>3, <2>4 DEF ThreadRebuilds, OpenLabels
  <2>5. CASE pc'[t] = "version" /\ scan[t].pos = Len(TableOrder)
    BY <1>0, <1>1, <1>2, <2>1, <2>3, <2>5, OrderLengths DEF ThreadRebuilds, AllCovered
  <2> QED BY <2>2, <2>4, <2>5
<1>3. CASE pc[t] # "create"
  <2>1. pc[t] \in OpenLabels /\ pc'[t] # "create"
    BY <1>3, OpenShape, OpenGraph DEF Types, OpenLabels
  <2>2. AllCovered'
    BY <1>0, <1>3, <2>1, CoveredKept DEF ThreadRebuilds, AllCovered
  <2> QED BY <2>1, <2>2 DEF ThreadRebuilds
<1> QED BY <1>2, <1>3

LEMMA RebuildsStep == ~DiskErrors /\ Types /\ Rebuilds /\ [Next]_vars => Rebuilds'
<1> SUFFICES ASSUME ~DiskErrors, Types, Rebuilds, [Next]_vars PROVE Rebuilds'
  OBVIOUS
<1>0. /\ Hands /\ FileOK
      /\ \A k \in Key : reg[k] # NoStore => AllCovered
      /\ \A t \in Thread : ThreadRebuilds(t)
  BY DEF Types, Rebuilds
<1>1. CASE Exit
  BY <1>1 DEF Exit, Rebuilds, ThreadRebuilds, OpenLabels
<1>2. CASE ~Exit
  <2>0. AllCovered => AllCovered'
    BY <1>2, CoveredKept DEF AllCovered
  <2>1. ASSUME NEW u \in Thread, pc'[u] = pc[u], scan'[u] = scan[u] PROVE ThreadRebuilds(u)'
    BY <1>0, <1>2, <2>0, <2>1, CoveredKept DEF ThreadRebuilds
  <2>2. ASSUME NEW t \in Thread,
               \A u \in Thread \ {t} : pc'[u] = pc[u] /\ scan'[u] = scan[u],
               \A k \in Key : reg'[k] \in {reg[k], NoStore} \/ pc[t] = "register",
               ThreadRebuilds(t)'
        PROVE  Rebuilds'
    <3>1. \A u \in Thread : ThreadRebuilds(u)'
      BY <2>1, <2>2
    <3>2. ASSUME NEW k \in Key, reg'[k] # NoStore PROVE AllCovered'
      BY <1>0, <2>0, <2>2, <3>2 DEF ThreadRebuilds
    <3> QED BY <3>1, <3>2 DEF Rebuilds
  <2>3. ASSUME NEW t \in Thread, pc'[t] \notin OpenLabels \cup {"register"}
        PROVE  ThreadRebuilds(t)'
    BY <2>3 DEF ThreadRebuilds, OpenLabels
  <2>4. ASSUME NEW t \in Thread, OpenStep(t) PROVE Rebuilds'
    <3>1. UNCHANGED reg
      BY <1>0, <2>4, OpenShape DEF GoesOn, Returns, registry
    <3> QED BY <1>0, <1>2, <2>2, <2>4, <3>1, OpenKeepsRebuilds, Movers
  <2>5. ASSUME NEW t \in Thread, Lookup(t) PROVE Rebuilds'
    <3>1. ThreadRebuilds(t)'
      <4>1. pc'[t] = "use" \/ (pc'[t] = "create" /\ scan'[t].pos = 1)
        BY <1>0, <2>5 DEF Lookup, Continue, Goto, Hands, NoScan
      <4>2. \A n \in DOMAIN TableOrder : ~(n < 1)
        BY TableAssumption
      <4> QED BY <4>1, <4>2 DEF ThreadRebuilds, OpenLabels
    <3> QED BY <1>0, <2>2, <2>5, <3>1, Movers DEF Lookup, registry
  <2>6. ASSUME NEW t \in Thread, Construct(t) PROVE Rebuilds'
    <3>1. ThreadRebuilds(t)'
      BY <1>0, <2>0, <2>6
      DEF Construct, Continue, Goto, Hands, ThreadRebuilds, OpenLabels
    <3> QED BY <1>0, <2>2, <2>6, <3>1, Movers DEF Construct
  <2>7. ASSUME NEW t \in Thread,
               \/ Begin(t) \/ Register(t) \/ OperationStep(t)
               \/ RemoveEntry(t) \/ TakeConnection(t) \/ StatementFails(t)
        PROVE  Rebuilds'
    <3>1. pc'[t] \in {"lookup", "remove", "use", "closing", "idle"} \cup OperationLabels
      <4>1. CASE OperationStep(t)
        BY <1>0, <4>1, OperationShape
        DEF GoesOn, Returns, Continue, Finish, Goto, Hands
      <4>2. CASE ~OperationStep(t)
        BY <1>0, <2>7, <4>2
        DEF Begin, Register, RemoveEntry, TakeConnection, StatementFails, OpenFails,
            Continue, Finish, Goto, Hands
      <4> QED BY <4>1, <4>2
    <3>2. \A k \in Key : reg'[k] \in {reg[k], NoStore} \/ pc[t] = "register"
      <4>1. CASE OperationStep(t)
        BY <1>0, <4>1, OperationShape DEF GoesOn, Returns, registry
      <4>2. CASE ~OperationStep(t)
        BY <1>0, <2>7, <4>2
        DEF Begin, Register, RemoveEntry, TakeConnection, StatementFails, OpenFails,
            Hands, registry
      <4> QED BY <4>1, <4>2
    <3>3. ThreadRebuilds(t)'
      BY <2>3, <3>1 DEF OpenLabels, OperationLabels, LockedLabels, UnlockedLabels
    <3> QED BY <1>0, <2>2, <2>7, <3>2, <3>3, Movers
  <2>8. CASE Tick \/ UNCHANGED vars
    BY <1>0, <2>0, <2>1, <2>8 DEF Tick, vars, registry, Rebuilds
  <2> QED BY <1>2, <2>4, <2>5, <2>6, <2>7, <2>8, Cases
<1> QED BY <1>1, <1>2

(* While no statement fails, a served file lacks a table only as long as    *)
(* another opener, that read the old version too, is rebuilding it.         *)
THEOREM TablesReturn == ~DiskErrors => (Spec => []TablesMissOnlyInRebuild)
<1> SUFFICES ASSUME ~DiskErrors PROVE Spec => []TablesMissOnlyInRebuild
  OBVIOUS
<1>1. Rebuilds => TablesMissOnlyInRebuild
  BY DEF Rebuilds, AllCovered, Covered, TablesMissOnlyInRebuild, Table
<1>2. Types /\ Rebuilds /\ [Next]_vars => Rebuilds'
  BY RebuildsStep
<1> QED BY <1>1, <1>2, RebuildsInit, TypesInvariant, PTL DEF Spec

-----------------------------------------------------------------------------
(****************************************************************************)
(* Retention.  The cutoff of an eviction is read before its statements run, *)
(* and so is the total that exceeded the cap: by the time a row goes both   *)
(* still are a reason.                                                      *)
(****************************************************************************)
ThreadRetention(t) ==
  /\ pc[t] = "expire" => scan[t].cutoff \in Int /\ scan[t].cutoff <= now - Ttl[job[t].key]
  /\ pc[t] \in {"collect", "trim"} => scan[t].total > Cap[job[t].key]

Retention == \A t \in Thread : ThreadRetention(t)

LEMMA OpenKeepsRetention ==
  ASSUME Types, Retention, NEW t \in Thread, OpenStep(t)
  PROVE  ThreadRetention(t)'
<1>0. /\ ThreadRetention(t)
      /\ DOMAIN scan[t] = DOMAIN NoScan
      /\ DOMAIN scan = Thread /\ pc \in [Thread -> Labels]
      /\ now \in Nat
  BY BoundsAssumption DEF Types, Hands, FileOK, Retention
<1>1. pc[t] \in OpenLabels => job[t].key \in Key /\ Ttl[job[t].key] \in Nat
  BY JobFacts, RetentionAssumption DEF Types, Hands, OpenLabels
<1>2. ASSUME NEW l, NEW locals, Continue(t, l, locals)
      PROVE  pc'[t] = l /\ scan'[t] = locals /\ job' = job
  BY <1>0, <1>2 DEF Continue, Goto
<1>3. ASSUME OpenFails(t) PROVE ThreadRetention(t)'
  BY <1>0, <1>3 DEF OpenFails, Finish, Goto, ThreadRetention
<1>4. CASE CreateNext(t) \/ DropNext(t)
  <2>1. pc'[t] \notin {"expire", "collect", "trim"}
    BY <1>4, OpenGraph DEF CreateNext, DropNext
  <2> QED BY <2>1 DEF ThreadRetention
<1>5. CASE ReadVersion(t)
  <2> DEFINE locals == [scan[t] EXCEPT !.cutoff = now - Ttl[job[t].key]]
  <2>1. locals.cutoff = now - Ttl[job[t].key]
    BY <1>0 DEF NoScan
  <2>2. now' = now /\ pc[t] = "version" /\ pc'[t] \notin {"collect", "trim"}
    BY <1>5, OpenGraph DEF ReadVersion
  <2>3. scan'[t] = locals /\ job' = job
    BY <1>2, <1>5 DEF ReadVersion
  <2> HIDE DEF locals
  <2> QED BY <1>0, <1>1, <2>1, <2>2, <2>3 DEF ThreadRetention, OpenLabels
<1>6. CASE Stamp(t) \/ Restamp(t)
  <2> DEFINE locals == [NoScan EXCEPT !.cutoff = now - Ttl[job[t].key]]
  <2>1. locals.cutoff = now - Ttl[job[t].key]
    BY DEF NoScan
  <2>2. OpenFails(t) \/ (Continue(t, "expire", locals) /\ now' = now)
    BY <1>6 DEF Stamp, Restamp
  <2>3. pc[t] \in {"stamp", "restamp"}
    BY <1>6 DEF Stamp, Restamp
  <2> HIDE DEF locals
  <2> QED BY <1>0, <1>1, <1>2, <1>3, <2>1, <2>2, <2>3 DEF ThreadRetention, OpenLabels
<1>7. CASE ExpireNext(t)
  <2> DEFINE after(n) == [scan[t] EXCEPT !.pos = n]
  <2>1. \A n : after(n).cutoff = scan[t].cutoff
    BY <1>0 DEF NoScan
  <2>2. \/ OpenFails(t)
        \/ /\ now' = now
           /\ \E n : Continue(t, "expire", after(n)) \/ Continue(t, "measure", after(n))
    BY <1>7 DEF ExpireNext, NextTable
  <2>3. pc[t] = "expire"
    BY <1>7 DEF ExpireNext
  <2> HIDE DEF after
  <2> QED BY <1>0, <1>2, <1>3, <2>1, <2>2, <2>3 DEF ThreadRetention
<1>8. CASE MeasureNext(t)
  <2> DEFINE total == scan[t].total + SumBytes(file.tables[SizedOrder[scan[t].pos]])
             after(n) == [scan[t] EXCEPT !.total = total, !.pos = n]
  <2>1. \A n : after(n).total = total
    BY <1>0 DEF NoScan
  <2>2. \/ OpenFails(t)
        \/ \E n : \/ Continue(t, "measure", after(n)) \/ Continue(t, "construct", after(n))
                  \/ Continue(t, "collect", after(n)) /\ total > Cap[job[t].key]
    BY <1>8 DEF MeasureNext
  <2> HIDE DEF after, total
  <2> QED BY <1>2, <1>3, <2>1, <2>2 DEF ThreadRetention
<1>9. CASE Collect(t)
  <2> DEFINE after(q) == [scan[t] EXCEPT !.queue = q, !.removed = 0]
  <2>1. \A q : after(q).total = scan[t].total
    BY <1>0 DEF NoScan
  <2>2. OpenFails(t) \/ \E q : Continue(t, "trim", after(q))
    BY <1>9 DEF Collect
  <2>3. pc[t] = "collect"
    BY <1>9 DEF Collect
  <2> HIDE DEF after
  <2> QED BY <1>0, <1>2, <1>3, <2>1, <2>2, <2>3 DEF ThreadRetention
<1>10. CASE Trim(t)
  <2> DEFINE next == [scan[t] EXCEPT !.pos = @ + 1, !.queue = <<>>]
             same == [scan[t] EXCEPT !.queue = Tail(scan[t].queue),
                                     !.removed = @ + Head(scan[t].queue).bytes]
  <2>1. next.total = scan[t].total /\ same.total = scan[t].total
    BY <1>0 DEF NoScan
  <2>2. \/ Continue(t, "collect", next) \/ Continue(t, "trim", same)
        \/ Continue(t, "construct", NoScan) \/ OpenFails(t)
    BY <1>10 DEF Trim
  <2>3. pc[t] = "trim"
    BY <1>10 DEF Trim
  <2> HIDE DEF next, same
  <2> QED BY <1>0, <1>2, <1>3, <2>1, <2>2, <2>3 DEF ThreadRetention
<1> QED
  BY <1>4, <1>5, <1>6, <1>7, <1>8, <1>9, <1>10 DEF OpenStep

LEMMA RetentionStep == Types /\ Retention /\ [Next]_vars => Retention'
<1> SUFFICES ASSUME Types, Retention, [Next]_vars, NEW u \in Thread PROVE ThreadRetention(u)'
  BY DEF Retention
<1>0. /\ Hands /\ FileOK /\ now \in Nat
      /\ ThreadRetention(u)
      /\ pc[u] \in OpenLabels => Ttl[job[u].key] \in Nat
  BY BoundsAssumption, JobFacts, RetentionAssumption
  DEF Types, Hands, FileOK, Retention, OpenLabels
<1>1. now' \in Nat /\ now' >= now
  BY <1>0, ClockShape DEF Tick
<1>2. ASSUME pc'[u] = pc[u], scan'[u] = scan[u], job'[u] = job[u] PROVE ThreadRetention(u)'
  BY <1>0, <1>1, <1>2 DEF ThreadRetention, OpenLabels
<1>3. ASSUME pc'[u] \notin {"expire", "collect", "trim"} PROVE ThreadRetention(u)'
  BY <1>3 DEF ThreadRetention
<1>4. CASE OpenStep(u)
  BY <1>4, OpenKeepsRetention
<1>5. CASE OperationStep(u)
  <2>1. pc'[u] \in OperationLabels \cup {"idle"}
    BY <1>0, <1>5, OperationShape DEF GoesOn, Returns, Continue, Finish, Goto, Hands
  <2> QED BY <1>3, <2>1 DEF OperationLabels, LockedLabels, UnlockedLabels
<1>6. CASE \/ Begin(u) \/ Lookup(u) \/ Construct(u) \/ Register(u)
           \/ RemoveEntry(u) \/ TakeConnection(u) \/ StatementFails(u)
  <2>1. pc'[u] \in {"idle", "lookup", "remove", "create", "use", "register", "closing"}
    BY <1>0, <1>6
    DEF Begin, Lookup, Construct, Register, RemoveEntry, TakeConnection, StatementFails,
        OpenFails, Continue, Finish, Goto, Hands
  <2> QED BY <1>3, <2>1
<1>7. ASSUME NEW t \in Thread \ {u},
             \/ Begin(t) \/ Lookup(t) \/ OpenStep(t) \/ Construct(t) \/ Register(t)
             \/ OperationStep(t) \/ RemoveEntry(t) \/ TakeConnection(t) \/ StatementFails(t)
      PROVE  ThreadRetention(u)'
  BY <1>0, <1>2, <1>7, Movers
<1>8. CASE Exit
  BY <1>3, <1>8 DEF Exit
<1>9. CASE Tick \/ UNCHANGED vars
  BY <1>2, <1>9 DEF Tick, vars
<1> QED BY <1>4, <1>5, <1>6, <1>7, <1>8, <1>9, Cases

LEMMA RetentionInvariant == Spec => []Retention
<1>1. Init => Retention
  BY DEF Init, Retention, ThreadRetention
<1> QED BY <1>1, RetentionStep, TypesInvariant, PTL DEF Spec

(* What a row that goes was taken by. *)
Reason(t, T, row) ==
  \/ pc[t] = "expire" /\ now - row.created_at > Ttl[job[t].key]
  \/ pc[t] = "trim" /\ T \in Sized /\ scan[t].total > Cap[job[t].key]
  \/ pc[t] = "body" /\ job[t].op = "clear" /\ T \in job[t].tables

LEMMA WritesForAReason ==
  ASSUME Types, Retention, NEW t \in Thread, Writes(t), NEW T \in Table, NEW i \in Item,
         SelectRow(file.tables, T, i) # NoRow, Exists(file.tables', T), file.tables'[T][i] = NoRow
  PROVE  Reason(t, T, SelectRow(file.tables, T, i))
<1> DEFINE row == SelectRow(file.tables, T, i)
           U == TableOrder[scan[t].pos]
           S == SizedOrder[scan[t].pos]
<1>0. /\ file.tables \in Tables /\ DOMAIN file = {"version", "tables", "hits", "misses"}
      /\ ThreadRetention(t)
      /\ Exists(file.tables, T) /\ file.tables[T] \in Rows /\ row = file.tables[T][i] /\ row \in Row
  BY DEF Types, FileOK, Retention, Tables, SelectRow, Exists, Rows
<1>1. ASSUME pc[t] \in {"create", "recreate"}, file' = [file EXCEPT !.tables = CreateTable(@, U)]
      PROVE  FALSE
  BY <1>0, <1>1 DEF CreateTable, Tables, Exists
<1>2. ASSUME file' = [file EXCEPT !.tables = DropTable(@, U)] PROVE FALSE
  BY <1>0, <1>2 DEF DropTable, Tables, Exists
<1>3. ASSUME file' = [file EXCEPT !.version = "current"] PROVE FALSE
  BY <1>0, <1>3
<1>4. CASE /\ pc[t] = "expire" /\ Exists(file.tables, U)
           /\ file' = [file EXCEPT !.tables = DeleteOlder(@, U, scan[t].cutoff)]
  <2> DEFINE left == [k \in Item |-> IF file.tables[U][k] # NoRow
                                        /\ file.tables[U][k].created_at < scan[t].cutoff
                                     THEN NoRow ELSE file.tables[U][k]]
  <2>1. file'.tables = [file.tables EXCEPT ![U] = left]
    <3>1. file'.tables = DeleteOlder(file.tables, U, scan[t].cutoff)
      BY <1>0, <1>4
    <3> QED BY <3>1, Zenon DEF DeleteOlder
  <2>2. left[i] = IF file.tables[U][i] # NoRow /\ file.tables[U][i].created_at < scan[t].cutoff
                  THEN NoRow ELSE file.tables[U][i]
    OBVIOUS
  <2>3. T = U /\ left[i] = NoRow
    <3> HIDE DEF left, U
    <3> QED BY <1>0, <2>1, <2>2 DEF Tables
  <2>4. row.created_at < scan[t].cutoff
    <3> HIDE DEF U
    <3> QED BY <1>0, <2>2, <2>3
  <2>5. row.created_at \in Nat /\ now \in Nat /\ Ttl[job[t].key] \in Nat
    BY <1>0, <1>4, JobFacts, BoundsAssumption, RetentionAssumption DEF Row, Types, Hands, FileOK
  <2> QED BY <1>0, <1>4, <2>4, <2>5 DEF ThreadRetention, Reason
<1>5. CASE /\ pc[t] = "trim" /\ Exists(file.tables, S)
           /\ \E j : file' = [file EXCEPT !.tables = DeleteRow(@, S, j)]
  <2>1. T = S
    BY <1>0, <1>5 DEF DeleteRow, Tables
  <2>2. scan[t].pos \in DOMAIN SizedOrder
    BY <1>5, TableAssumption DEF Types, Loops, LoopOver
  <2> QED BY <1>0, <1>5, <2>1, <2>2 DEF ThreadRetention, Reason, Sized
<1>6. ASSUME \/ file' = [file EXCEPT !.hits = Count(@, job[t].table)]
             \/ file' = [file EXCEPT !.misses = Count(@, job[t].table)]
      PROVE  FALSE
  BY <1>0, <1>6
<1>7. ASSUME /\ pc[t] = "body" /\ job[t].op = "put"
             /\ Exists(file.tables, job[t].table)
             /\ file' = [file EXCEPT !.tables =
                           PutRow(@, job[t].table, job[t].item, job[t].payload, now)]
      PROVE  FALSE
  <2>1. job[t].payload \in Value /\ now \in Nat
    BY <1>7, JobFacts, BoundsAssumption DEF Types, Hands, FileOK
  <2>2. [payload |-> job[t].payload, created_at |-> now] # NoRow
    BY <2>1, NoRowAssumption DEF Row
  <2> QED BY <1>0, <1>7, <2>2 DEF PutRow, Tables, Rows
<1>8. CASE /\ pc[t] = "body" /\ job[t].op = "clear" /\ U \in job[t].tables
           /\ file' = [file EXCEPT !.tables = EmptyOut(@, U)]
  <2>1. T = U
    BY <1>0, <1>8 DEF EmptyOut, Tables
  <2> QED BY <1>8, <2>1 DEF Reason
<1> QED
  BY <1>1, <1>2, <1>3, <1>4, <1>5, <1>6, <1>7, <1>8 DEF Writes

(* A row goes from a table that stays only when it has outlived the         *)
(* retention of an identity being opened, or the cap of that identity was   *)
(* exceeded and the table counts towards it, or a caller clears the table.  *)
THEOREM RowsKept == Spec => RowsGoForAReason
<1>1. Types /\ Retention /\ [Next]_vars =>
        [\A T \in Table, i \in Item :
           LET row == SelectRow(file.tables, T, i) IN
           row # NoRow /\ Exists(file.tables', T) /\ file.tables'[T][i] = NoRow =>
             \E t \in Thread :
               \/ pc[t] = "expire" /\ now - row.created_at > Ttl[job[t].key]
               \/ pc[t] = "trim" /\ T \in Sized /\ scan[t].total > Cap[job[t].key]
               \/ pc[t] = "body" /\ job[t].op = "clear" /\ T \in job[t].tables]_vars
  <2> SUFFICES ASSUME Types, Retention, [Next]_vars, NEW T \in Table, NEW i \in Item,
                      SelectRow(file.tables, T, i) # NoRow, Exists(file.tables', T),
                      file.tables'[T][i] = NoRow
               PROVE  \E t \in Thread : Reason(t, T, SelectRow(file.tables, T, i))
    BY DEF Reason
  <2>1. ~UNCHANGED file
    BY DEF SelectRow
  <2> QED BY <2>1, FileShape, WritesForAReason
<1> QED BY <1>1, TypesInvariant, RetentionInvariant, PTL DEF Spec, RowsGoForAReason

=============================================================================
