------------------------ MODULE AnalyticsStoreProofs ------------------------
(****************************************************************************)
(* Proofs about AnalyticsStore, for any number of threads, paths, runs and  *)
(* calls, and any batches: it implements StoreRegistry, a store runs the    *)
(* engine of its file, the rows of a recording stay joined whatever stops   *)
(* it, and a run that was acknowledged is whole.                            *)
(*                                                                          *)
(* The rows need an inductive invariant of their own.  A row still to be    *)
(* inserted must find what it refers to in the file or before it in what    *)
(* its thread still has to insert: Founded says so of every such row.       *)
(****************************************************************************)
EXTENDS AnalyticsStore, SequenceTheorems, InductionLemmas

(* What a thread has in its hands. *)
Hands ==
  /\ reg \in [Path -> Store \cup {NoStore}]
  /\ open \subseteq Store
  /\ owner \in [Store -> Path \cup {NoKey}]
  /\ engine \in [Store -> {"none", "sqlite", "duckdb"}]
  /\ kind \in [Path -> {"none", "sqlite", "duckdb"}]
  /\ pc \in [Thread -> Labels]
  /\ key \in [Thread -> Path \cup {NoKey}]
  /\ held \in [Thread -> Store \cup {NoStore}]
  /\ outcome \in [Thread -> {"none", "ok", "error", "open_error"}]
  /\ \A t \in Thread : held[t] # NoStore <=> pc[t] \in {"register", "use", "closing"}
  /\ \A t \in Thread : key[t] = NoKey <=> pc[t] = "idle"

-----------------------------------------------------------------------------
(* Every step, by name. *)
LEMMA Cases ==
  ASSUME [Next]_vars
  PROVE  \/ UNCHANGED vars
         \/ Exit
         \/ \E t \in Thread, p \in Path :
              \/ \E op \in {"open", "query"} : CallRead(t, p, op)
              \/ CallRecordDiff(t, p) \/ CallRecordRun(t, p) \/ CallClose(t, p)
         \/ \E t \in Thread :
              \/ LookupHit(t) \/ LookupMiss(t)
              \/ DuckDbOpens(t) \/ DuckDbUnavailable(t) \/ DuckDbSchemaFails(t)
              \/ DuckDbReady(t) \/ SqliteOpens(t) \/ OpenFails(t)
              \/ RegisterFirst(t) \/ RegisterLoser(t)
              \/ Return(t) \/ InsertNext(t) \/ StatementFails(t)
              \/ RemoveEntry(t) \/ RemoveNothing(t) \/ ClearOpen(t)
  BY Zenon DEF Next, Begins, Step

(* What the beginning of any call does to the thread. *)
LEMMA Begun ==
  ASSUME NEW t \in Thread, NEW p \in Path,
         \/ \E op \in {"open", "query"} : CallRead(t, p, op)
         \/ CallRecordDiff(t, p) \/ CallRecordRun(t, p) \/ CallClose(t, p)
  PROVE  \E label \in {"lookup", "remove"} :
           /\ pc[t] = "idle"
           /\ Goto(t, label)
           /\ key' = [key EXCEPT ![t] = p]
           /\ outcome' = [outcome EXCEPT ![t] = "none"]
           /\ UNCHANGED <<registryVars, held, db, acked>>
           /\ calls < MaxCalls
           /\ calls' = calls + 1
  BY DEF CallRead, CallRecordDiff, CallRecordRun, CallClose, Begin

LEMMA HandsInit == Init => Hands
  BY NoStoreAssumption, NoKeyAssumption DEF Init, Hands, Labels

LEMMA HandsStep == Hands /\ [Next]_vars => Hands'
<1> SUFFICES ASSUME Hands, [Next]_vars PROVE Hands'
  OBVIOUS
<1> USE NoStoreAssumption, NoKeyAssumption DEF Hands, Labels, Goto, Finish, registryVars
<1>1. ASSUME NEW t \in Thread, NEW p \in Path,
             \/ \E op \in {"open", "query"} : CallRead(t, p, op)
             \/ CallRecordDiff(t, p) \/ CallRecordRun(t, p) \/ CallClose(t, p)
      PROVE  Hands'
  BY <1>1, Begun
<1>2. ASSUME NEW t \in Thread, LookupHit(t) \/ LookupMiss(t) PROVE Hands'
  BY <1>2 DEF LookupHit, LookupMiss
<1>3. ASSUME NEW t \in Thread,
             DuckDbOpens(t) \/ DuckDbUnavailable(t) \/ DuckDbSchemaFails(t) PROVE Hands'
  BY <1>3 DEF DuckDbOpens, DuckDbUnavailable, DuckDbSchemaFails
<1>4. ASSUME NEW t \in Thread, DuckDbReady(t) PROVE Hands'
  BY <1>4 DEF DuckDbReady, NewStore
<1>5. ASSUME NEW t \in Thread, SqliteOpens(t) PROVE Hands'
  BY <1>5 DEF SqliteOpens, NewStore
<1>6. ASSUME NEW t \in Thread, OpenFails(t) \/ StatementFails(t) PROVE Hands'
  BY <1>6 DEF OpenFails, StatementFails
<1>7. ASSUME NEW t \in Thread, RegisterFirst(t) \/ RegisterLoser(t) PROVE Hands'
  BY <1>7 DEF RegisterFirst, RegisterLoser
<1>8. ASSUME NEW t \in Thread, Return(t) PROVE Hands'
  BY <1>8 DEF Return
<1>9. ASSUME NEW t \in Thread, InsertNext(t) PROVE Hands'
  <2>1. CASE DOMAIN Rest(t) = {}
    BY <1>9, <2>1 DEF InsertNext, Insert
  <2>2. CASE DOMAIN Rest(t) # {}
    BY <1>9, <2>2 DEF InsertNext, Insert
  <2> QED BY <2>1, <2>2
<1>10. ASSUME NEW t \in Thread, RemoveEntry(t) \/ RemoveNothing(t) PROVE Hands'
  BY <1>10 DEF RemoveEntry, RemoveNothing
<1>11. ASSUME NEW t \in Thread, ClearOpen(t) PROVE Hands'
  BY <1>11 DEF ClearOpen
<1>12. CASE Exit
  BY <1>12 DEF Exit
<1>13. CASE UNCHANGED vars
  BY <1>13 DEF vars
<1> QED
  BY <1>1, <1>2, <1>3, <1>4, <1>5, <1>6, <1>7, <1>8, <1>9, <1>10, <1>11, <1>12, <1>13, Cases

LEMMA HandsInvariant == Spec => []Hands
  BY HandsInit, HandsStep, PTL DEF Spec

-----------------------------------------------------------------------------
(****************************************************************************)
(* The refinement, step by step.                                            *)
(****************************************************************************)
LEMMA RefinesInit == Init => Registry!Init
  BY DEF Init, Registry!Init

(* A thread that goes to a label of the registry's goes there in its eyes,  *)
(* and one that finishes finishes.                                          *)
LEMMA RefinesGoto ==
  ASSUME Hands, NEW t \in Thread, NEW l \in Labels, Goto(t, l)
  PROVE  Registry!Goto(t, IF l \in {"schema", "sqlite"} THEN "opening" ELSE l)
  BY DEF Hands, Labels, Goto, Registry!Goto

LEMMA RefinesFinish ==
  ASSUME Hands, NEW t \in Thread, NEW result \in {"ok", "error", "open_error"},
         Finish(t, result)
  PROVE  Registry!Finish(t, IF result = "open_error" THEN "open_error" ELSE "done")
  BY DEF Hands, Labels, Goto, Finish, Registry!Goto, Registry!Finish

LEMMA RefinesStep == Hands /\ [Next]_vars => [Registry!Next]_(Registry!vars)
<1> SUFFICES ASSUME Hands, [Next]_vars PROVE [Registry!Next]_(Registry!vars)
  OBVIOUS
<1> DEFINE Stutter == UNCHANGED Registry!vars
<1>1. ASSUME NEW t \in Thread, NEW p \in Path,
             \/ \E op \in {"open", "query"} : CallRead(t, p, op)
             \/ CallRecordDiff(t, p) \/ CallRecordRun(t, p) \/ CallClose(t, p)
      PROVE  Registry!Call(t, p) \/ Registry!CallClose(t, p)
  <2>1. PICK label \in {"lookup", "remove"} :
          /\ pc[t] = "idle" /\ Goto(t, label)
          /\ key' = [key EXCEPT ![t] = p]
          /\ outcome' = [outcome EXCEPT ![t] = "none"]
          /\ UNCHANGED <<registryVars, held>>
    BY <1>1, Begun, Zenon
  <2>2. Registry!Goto(t, label)
    BY <2>1, RefinesGoto DEF Labels
  <2>3. CASE label = "lookup"
    BY <2>1, <2>2, <2>3 DEF Hands, Labels, registryVars, Registry!Call
  <2>4. CASE label = "remove"
    BY <2>1, <2>2, <2>4 DEF Hands, Labels, registryVars, Registry!CallClose
  <2> QED BY <2>3, <2>4
<1>2. ASSUME NEW t \in Thread, LookupHit(t) PROVE Registry!LookupHit(t)
  BY <1>2, RefinesGoto DEF Hands, Labels, LookupHit, Registry!LookupHit, registryVars
<1>3. ASSUME NEW t \in Thread, LookupMiss(t) PROVE Registry!LookupMiss(t)
  BY <1>3, RefinesGoto DEF Hands, Labels, LookupMiss, Registry!LookupMiss, registryVars
<1>4. ASSUME NEW t \in Thread,
             DuckDbOpens(t) \/ DuckDbUnavailable(t) \/ DuckDbSchemaFails(t)
      PROVE  Stutter
  BY <1>4 DEF Hands, Labels, DuckDbOpens, DuckDbUnavailable, DuckDbSchemaFails, Goto,
     registryVars, Registry!vars
<1>5. ASSUME NEW t \in Thread, NEW e, pc[t] \in {"schema", "sqlite"}, NewStore(t, e),
             UNCHANGED <<reg, key, outcome>>
      PROVE  Registry!Open(t)
  BY <1>5, RefinesGoto DEF Hands, Labels, NewStore, Unreachable, Registry!Open, Registry!Unreachable
<1>6. ASSUME NEW t \in Thread, DuckDbReady(t) \/ SqliteOpens(t) PROVE Registry!Open(t)
  BY <1>5, <1>6 DEF DuckDbReady, SqliteOpens
<1>7. ASSUME NEW t \in Thread, OpenFails(t) PROVE Registry!OpenFails(t)
  BY <1>7, RefinesFinish DEF Hands, Labels, OpenFails, Registry!OpenFails, registryVars
<1>8. ASSUME NEW t \in Thread, RegisterFirst(t) PROVE Registry!RegisterFirst(t)
  BY <1>8, RefinesGoto DEF Hands, Labels, RegisterFirst, Registry!RegisterFirst
<1>9. ASSUME NEW t \in Thread, RegisterLoser(t) PROVE Registry!RegisterLoser(t)
  BY <1>9, RefinesGoto DEF Hands, Labels, RegisterLoser, Registry!RegisterLoser
<1>10. ASSUME NEW t \in Thread, Return(t) \/ StatementFails(t) PROVE Registry!WarmUp(t)
  BY <1>10, RefinesFinish DEF Hands, Labels, Return, StatementFails, Registry!WarmUp, registryVars
<1>11. ASSUME NEW t \in Thread, InsertNext(t) PROVE Registry!WarmUp(t) \/ Stutter
  <2>1. CASE DOMAIN Rest(t) = {}
    BY <1>11, <2>1, RefinesFinish
    DEF Hands, Labels, InsertNext, Insert, Registry!WarmUp, registryVars
  <2>2. CASE DOMAIN Rest(t) # {}
    BY <1>11, <2>2 DEF InsertNext, Insert, registryVars, Registry!vars
  <2> QED BY <2>1, <2>2
<1>12. ASSUME NEW t \in Thread, RemoveEntry(t) PROVE Registry!RemoveEntry(t)
  BY <1>12, RefinesGoto DEF Hands, Labels, RemoveEntry, Registry!RemoveEntry
<1>13. ASSUME NEW t \in Thread, RemoveNothing(t) PROVE Registry!RemoveNothing(t)
  BY <1>13, RefinesFinish DEF Hands, Labels, RemoveNothing, Registry!RemoveNothing, registryVars
<1>14. ASSUME NEW t \in Thread, ClearOpen(t) PROVE Registry!TakeConnection(t)
  BY <1>14, RefinesFinish DEF Hands, Labels, ClearOpen, Registry!TakeConnection
<1>15. CASE Exit
  BY <1>15 DEF Exit, Registry!Next, Registry!Exit
<1>16. CASE UNCHANGED vars
  BY <1>16 DEF vars, Registry!vars
<1> QED
  BY <1>1, <1>2, <1>3, <1>4, <1>6, <1>7, <1>8, <1>9, <1>10, <1>11, <1>12, <1>13, <1>14,
     <1>15, <1>16, Cases DEF Registry!Next, Registry!Step

(* To a caller the analytics store is the registry's, for any number of     *)
(* threads, paths and stores.                                               *)
THEOREM Refinement == Spec => ImplementsRegistry
  BY RefinesInit, RefinesStep, HandsInvariant, PTL
  DEF Spec, ImplementsRegistry, Registry!Spec

-----------------------------------------------------------------------------
(****************************************************************************)
(* A store runs the engine of its file.                                     *)
(****************************************************************************)
Reachable(s) == (\E p \in Path : reg[p] = s) \/ (\E t \in Thread : held[t] = s)

(* The file of a reachable store has its engine for good, and so has the    *)
(* file DuckDB has just taken.                                              *)
Engines ==
  /\ \A s \in Store :
       Reachable(s) => owner[s] \in Path /\ engine[s] # "none" /\ engine[s] = kind[owner[s]]
  /\ \A t \in Thread : pc[t] = "schema" => kind[key[t]] = "duckdb"

LEMMA EnginesInit == Init => Engines
  BY NoStoreAssumption DEF Init, Engines, Reachable

(* A step that opens no store reaches no new one, and leaves the engines.   *)
LEMMA EnginesKept ==
  ASSUME Hands, Engines,
         UNCHANGED <<owner, engine, kind>>,
         \A s \in Store : Reachable(s)' => Reachable(s),
         \A t \in Thread : pc'[t] = "schema" => pc[t] = "schema" /\ key'[t] = key[t]
  PROVE  Engines'
<1>1. ASSUME NEW s \in Store, Reachable(s)'
      PROVE  (owner[s] \in Path /\ engine[s] # "none" /\ engine[s] = kind[owner[s]])'
  BY <1>1 DEF Engines
<1>2. ASSUME NEW t \in Thread, pc'[t] = "schema" PROVE kind'[key'[t]] = "duckdb"
  BY <1>2 DEF Engines
<1> QED BY <1>1, <1>2 DEF Engines

LEMMA EnginesStep == Hands /\ Engines /\ [Next]_vars => Engines'
<1> SUFFICES ASSUME Hands, Engines, [Next]_vars PROVE Engines'
  OBVIOUS
<1> USE NoStoreAssumption, NoKeyAssumption
<1>1. ASSUME NEW t \in Thread, NEW p \in Path,
             \/ \E op \in {"open", "query"} : CallRead(t, p, op)
             \/ CallRecordDiff(t, p) \/ CallRecordRun(t, p) \/ CallClose(t, p)
      PROVE  Engines'
  <2>1. PICK label \in {"lookup", "remove"} :
          /\ pc[t] = "idle" /\ Goto(t, label)
          /\ key' = [key EXCEPT ![t] = p]
          /\ UNCHANGED <<registryVars, held>>
    BY <1>1, Begun, Zenon
  <2> QED BY <2>1, EnginesKept DEF Hands, Goto, Reachable, registryVars
<1>2. ASSUME NEW t \in Thread, LookupHit(t) \/ LookupMiss(t) PROVE Engines'
  BY <1>2, EnginesKept DEF Hands, Goto, Reachable, registryVars, LookupHit, LookupMiss
<1>3. ASSUME NEW t \in Thread, DuckDbOpens(t) PROVE Engines'
  BY <1>3 DEF Hands, Engines, Goto, Reachable, DuckDbOpens
<1>4. ASSUME NEW t \in Thread, DuckDbUnavailable(t) \/ DuckDbSchemaFails(t) PROVE Engines'
  BY <1>4, EnginesKept
  DEF Hands, Goto, Reachable, registryVars, DuckDbUnavailable, DuckDbSchemaFails
<1>5. ASSUME NEW t \in Thread, DuckDbReady(t) PROVE Engines'
  BY <1>5 DEF Hands, Engines, Goto, Reachable, DuckDbReady, NewStore, Unreachable
<1>6. ASSUME NEW t \in Thread, SqliteOpens(t) PROVE Engines'
  BY <1>6 DEF Hands, Engines, Goto, Reachable, SqliteOpens, NewStore, Unreachable
<1>7. ASSUME NEW t \in Thread,
             OpenFails(t) \/ StatementFails(t) \/ Return(t) \/ RemoveNothing(t) PROVE Engines'
  <2>1. /\ UNCHANGED registryVars
        /\ \E result : Finish(t, result)
    BY <1>7 DEF OpenFails, StatementFails, Return, RemoveNothing
  <2> QED BY <2>1, EnginesKept DEF Hands, Goto, Finish, Reachable, registryVars
<1>8. ASSUME NEW t \in Thread, RegisterFirst(t) \/ RegisterLoser(t) PROVE Engines'
  BY <1>8, EnginesKept DEF Hands, Labels, Goto, Reachable, RegisterFirst, RegisterLoser
<1>9. ASSUME NEW t \in Thread, InsertNext(t) PROVE Engines'
  <2>1. CASE DOMAIN Rest(t) = {}
    BY <1>9, <2>1, EnginesKept
    DEF Hands, InsertNext, Insert, Finish, Goto, Reachable, registryVars
  <2>2. CASE DOMAIN Rest(t) # {}
    BY <1>9, <2>2, EnginesKept DEF InsertNext, Insert, Reachable, registryVars
  <2> QED BY <2>1, <2>2
<1>10. ASSUME NEW t \in Thread, RemoveEntry(t) PROVE Engines'
  BY <1>10, EnginesKept DEF Hands, Labels, Goto, Reachable, RemoveEntry
<1>11. ASSUME NEW t \in Thread, ClearOpen(t) PROVE Engines'
  BY <1>11, EnginesKept DEF Hands, Goto, Finish, Reachable, ClearOpen
<1>12. CASE Exit
  BY <1>12, EnginesKept DEF Exit, Reachable
<1>13. CASE UNCHANGED vars
  BY <1>13, EnginesKept DEF vars, Reachable
<1> QED
  BY <1>1, <1>2, <1>3, <1>4, <1>5, <1>6, <1>7, <1>8, <1>9, <1>10, <1>11, <1>12, <1>13, Cases

(* Whichever library was there when a file was made, or comes and goes      *)
(* afterwards, the stores of the file run its engine.                       *)
THEOREM EnginesMatchFiles == Spec => []EngineMatchesFile
<1>1. Engines => EngineMatchesFile
  BY DEF Engines, EngineMatchesFile, Reachable
<1> QED BY <1>1, EnginesInit, EnginesStep, HandsInvariant, PTL DEF Spec

-----------------------------------------------------------------------------
(****************************************************************************)
(* What a call has still to insert, and what is in its file already.        *)
(****************************************************************************)
Details == {"parser_calls", "hotspots", "events"}

(* A plan: sequences of rows, none of them empty, by position. *)
Shaped(f) ==
  /\ DOMAIN f \in SUBSET Nat
  /\ \A g \in DOMAIN f : f[g] \in Seq(Range(f[g])) /\ Len(f[g]) > 0

RowOK(r, n) == r.table \in Tables /\ r.run \in RowIds /\ r.call \in 1..n

Typed(f, n) == \A g \in DOMAIN f : \A i \in 1..Len(f[g]) : RowOK(f[g][i], n)

(* The row r refers to, if any.  A file's history has its call and place.   *)
IsRunOf(q, r) == q.table = "runs" /\ q.run = r.run /\ q.call = r.call
IsFileOf(q, r) == q.table = "files" /\ q.run = r.run /\ q.call = r.call /\ q.pos = r.pos
IsHistoryOf(q, r) == q.table = "diff_history" /\ q.call = r.call /\ q.pos = r.pos

(* All that r refers to is among the rows. *)
Joined(r, rows) ==
  /\ r.table \notin {"runs", "diff_history"} => \E q \in rows : IsRunOf(q, r)
  /\ r.table \in Details => \E q \in rows : IsFileOf(q, r)
  /\ r.table = "files" => \E q \in rows : IsHistoryOf(q, r)

(* All that r, the i-th row of position g, refers to is among the rows or   *)
(* comes before it: the run at position 0, the rest at its own.             *)
FoundedAt(f, g, i, rows) ==
  LET r == f[g][i]
      Earlier == {f[g][j] : j \in 1..(i - 1)}
  IN  /\ r.table \notin {"runs", "diff_history"} =>
           \/ \E q \in rows : IsRunOf(q, r)
           \/ g # 0 /\ 0 \in DOMAIN f /\ IsRunOf(f[0][1], r)
      /\ r.table \in Details => \E q \in rows \cup Earlier : IsFileOf(q, r)
      /\ r.table = "files" => \E q \in rows \cup Earlier : IsHistoryOf(q, r)

Founded(f, rows) ==
  \A g \in DOMAIN f : \A i \in 1..Len(f[g]) : FoundedAt(f, g, i, rows)

LEMMA FoundedMore ==
  ASSUME NEW f, NEW rows, NEW more, Founded(f, rows), rows \subseteq more
  PROVE  Founded(f, more)
<1> SUFFICES ASSUME NEW g \in DOMAIN f, NEW i \in 1..Len(f[g]) PROVE FoundedAt(f, g, i, more)
  BY Zenon DEF Founded
<1>1. FoundedAt(f, g, i, rows)
  BY Zenon DEF Founded
<1> QED BY <1>1, Zenon DEF FoundedAt

LEMMA NothingIsAPlan ==
  ASSUME NEW rows, NEW n
  PROVE  /\ DOMAIN <<>> = {}
         /\ Shaped(<<>>) /\ Typed(<<>>, n) /\ Founded(<<>>, rows)
BY DEF Shaped, Typed, Founded

-----------------------------------------------------------------------------
(****************************************************************************)
(* The rows of a file: its history, the file, and its details.              *)
(****************************************************************************)
Diff == [form : {"garbage", "value", "object"},
         calls : Seq([fuel : Nat, total : Nat]),
         hotspots : Nat, events : Nat]

FileShape(s, h, file, details) ==
  /\ s \in Seq({h, file} \cup details)
  /\ Len(s) >= 2
  /\ s[1] = h
  /\ s[2] = file
  /\ \A i \in 3..Len(s) : s[i] \in details

LEMMA MoreDetails ==
  ASSUME NEW h, NEW file, NEW details, NEW s, FileShape(s, h, file, details),
         NEW q \in Seq(details)
  PROVE  FileShape(s \o q, h, file, details)
<1> DEFINE V == {h, file} \cup details
<1>1. s \in Seq(V) /\ q \in Seq(V) /\ Len(s) >= 2 /\ Len(s) \in Nat /\ Len(q) \in Nat
  BY SeqMonotonic DEF FileShape
<1>2. /\ s \o q \in Seq(V)
      /\ Len(s \o q) = Len(s) + Len(q)
      /\ \A i \in 1..Len(s) + Len(q) :
           (s \o q)[i] = IF i <= Len(s) THEN s[i] ELSE q[i - Len(s)]
  BY <1>1, ConcatProperties
<1>3. (s \o q)[1] = h /\ (s \o q)[2] = file
  BY <1>1, <1>2 DEF FileShape
<1>4. ASSUME NEW i \in 3..Len(s \o q) PROVE (s \o q)[i] \in details
  <2>1. CASE i <= Len(s)
    BY <1>1, <1>2, <2>1 DEF FileShape
  <2>2. CASE ~ (i <= Len(s))
    <3>1. i - Len(s) \in 1..Len(q)
      BY <1>1, <1>2, <2>2
    <3>2. q[i - Len(s)] \in details
      BY <3>1, ElementOfSeq
    <3> QED BY <1>1, <1>2, <2>2, <3>2
  <2> QED BY <2>1, <2>2
<1> QED BY <1>1, <1>2, <1>3, <1>4 DEF FileShape

LEMMA FileRowsShape ==
  ASSUME NEW run, NEW call, NEW pos,
         NEW d \in Diff
  PROVE  \E details :
           /\ FileShape(FileRows(run, call, pos, d),
                        HistoryRow(call, pos), FileRow(run, call, pos, d), details)
           /\ \A r \in details :
                /\ r.table \in Details
                /\ r.run = run /\ r.call = call /\ r.pos = pos
<1> DEFINE P == ParserCallRows(run, call, pos, d)
           S == HotspotRows(run, call, pos, d)
           E == EventRows(run, call, pos, d)
           H == HistoryRow(call, pos)
           F == FileRow(run, call, pos, d)
           details == {P[n] : n \in DOMAIN P} \cup {S[n] : n \in DOMAIN S} \cup {E[n] : n \in DOMAIN E}
<1>1. d.calls \in Seq([fuel : Nat, total : Nat]) /\ d.hotspots \in Nat /\ d.events \in Nat
  BY DEF Diff
<1>2. DOMAIN d.calls = 1..Len(d.calls) /\ Len(d.calls) \in Nat
  BY <1>1, LenProperties
<1>3. /\ DOMAIN P = 1..Len(d.calls)
      /\ DOMAIN S = 1..d.hotspots
      /\ DOMAIN E = 1..d.events
  BY <1>2 DEF ParserCallRows, HotspotRows, EventRows
<1>4. \A r \in details : r.table \in Details /\ r.run = run /\ r.call = call /\ r.pos = pos
  <2> DEFINE IsDetail(r) == r.table \in Details /\ r.run = run /\ r.call = call /\ r.pos = pos
  <2>1. \A n \in DOMAIN P : IsDetail(P[n])
    BY DEF ParserCallRows, Row, Details
  <2>2. \A n \in DOMAIN S : IsDetail(S[n])
    BY DEF HotspotRows, Row, Details
  <2>3. \A n \in DOMAIN E : IsDetail(E[n])
    BY DEF EventRows, Row, Details
  <2> HIDE DEF P, S, E, IsDetail
  <2>4. \A r \in details : IsDetail(r)
    BY <2>1, <2>2, <2>3
  <2> QED BY <2>4 DEF IsDetail
<1>5. /\ P \in [1..Len(d.calls) -> details]
      /\ S \in [1..d.hotspots -> details]
      /\ E \in [1..d.events -> details]
  <2>1. P = [n \in DOMAIN P |-> P[n]] /\ S = [n \in DOMAIN S |-> S[n]] /\ E = [n \in DOMAIN E |-> E[n]]
    BY DEF ParserCallRows, HotspotRows, EventRows
  <2> HIDE DEF P, S, E
  <2> QED BY <1>3, <2>1
<1>6. P \in Seq(details) /\ S \in Seq(details) /\ E \in Seq(details)
  <2> HIDE DEF P, S, E, details
  <2>1. \A n \in Nat : [1..n -> details] \subseteq Seq(details)
    <3>1. Seq(details) = UNION {[1..n -> details] : n \in Nat}
      BY SeqDef, Zenon
    <3> QED BY <3>1
  <2> QED BY <1>1, <1>2, <1>5, <2>1, Zenon
<1> HIDE DEF P, S, E, H, F, details
<1>7. FileShape(<<H, F>>, H, F, details)
  BY DEF FileShape
<1>8. FileShape(<<H, F>> \o P, H, F, details)
  BY <1>6, <1>7, MoreDetails
<1>9. FileShape((<<H, F>> \o P) \o S, H, F, details)
  BY <1>6, <1>8, MoreDetails
<1>10. FileShape(((<<H, F>> \o P) \o S) \o E, H, F, details)
  BY <1>6, <1>9, MoreDetails
<1>11. FileRows(run, call, pos, d) = ((<<H, F>> \o P) \o S) \o E
  BY Zenon DEF FileRows, P, S, E, H, F
<1> QED BY <1>4, <1>10, <1>11, Zenon DEF H, F

-----------------------------------------------------------------------------
(****************************************************************************)
(* What a call sets out to insert is a plan, founded in itself.             *)
(****************************************************************************)
FileRowsPlanned(s, run, call, pos) ==
  /\ s \in Seq(Range(s))
  /\ Len(s) >= 2
  /\ \A i \in 1..Len(s) :
       /\ s[i].table \in Details \cup {"diff_history", "files"}
       /\ s[i].run \in {run, NoRun} /\ s[i].call = call /\ s[i].pos = pos
       /\ s[i].table # "diff_history" => i > 1 /\ s[i].run = run
       /\ s[i].table \in Details => i > 2
  /\ s[1].table = "diff_history"
  /\ s[2].table = "files" /\ s[2].run = run

LEMMA FileRowsAreAPlan ==
  ASSUME NEW run, NEW call, NEW pos,
         NEW d \in Diff
  PROVE  FileRowsPlanned(FileRows(run, call, pos, d), run, call, pos)
<1> DEFINE s == FileRows(run, call, pos, d)
           h == HistoryRow(call, pos)
           file == FileRow(run, call, pos, d)
<1>1. PICK details :
        /\ FileShape(s, h, file, details)
        /\ \A r \in details :
             /\ r.table \in Details /\ r.run = run /\ r.call = call /\ r.pos = pos
  <2>1. \E details :
          /\ FileShape(FileRows(run, call, pos, d),
                       HistoryRow(call, pos), FileRow(run, call, pos, d), details)
          /\ \A r \in details :
               /\ r.table \in Details
               /\ r.run = run /\ r.call = call /\ r.pos = pos
    BY FileRowsShape
  <2> QED BY <2>1 DEF s, h, file
<1>2. /\ h.table = "diff_history" /\ h.run = NoRun /\ h.call = call /\ h.pos = pos
      /\ file.table = "files" /\ file.run = run /\ file.call = call /\ file.pos = pos
  BY DEF HistoryRow, FileRow, Row
<1> HIDE DEF s, h, file
<1>3. s \in Seq(Range(s))
  BY <1>1, SeqOfRange, Zenon DEF FileShape
<1>4. Len(s) \in Nat /\ Len(s) >= 2
  BY <1>1, LenProperties DEF FileShape
<1>5. ASSUME NEW i \in 1..Len(s)
      PROVE  /\ s[i].table \in Details \cup {"diff_history", "files"}
             /\ s[i].run \in {run, NoRun} /\ s[i].call = call /\ s[i].pos = pos
             /\ s[i].table # "diff_history" => i > 1 /\ s[i].run = run
             /\ s[i].table \in Details => i > 2
  <2>1. CASE i = 1
    <3>1. s[i] = h
      BY <1>1, <2>1 DEF FileShape
    <3> QED BY <1>2, <2>1, <3>1 DEF Details
  <2>2. CASE i = 2
    <3>1. s[i] = file
      BY <1>1, <2>2 DEF FileShape
    <3> QED BY <1>2, <2>2, <3>1 DEF Details
  <2>3. CASE i > 2
    <3>1. s[i] \in details
      BY <1>1, <1>4, <2>3 DEF FileShape
    <3> QED BY <1>1, <2>3, <3>1
  <2> QED BY <1>4, <2>1, <2>2, <2>3
<1>6. s[1].table = "diff_history" /\ s[2].table = "files" /\ s[2].run = run
  BY <1>1, <1>2 DEF FileShape
<1> QED BY <1>3, <1>4, <1>5, <1>6 DEF FileRowsPlanned, s

(* A single row is a sequence of one. *)
LEMMA Single ==
  ASSUME NEW r
  PROVE  <<r>> \in Seq(Range(<<r>>)) /\ Len(<<r>>) = 1 /\ <<r>>[1] = r
<1>1. <<r>> \in Seq({r}) /\ Len(<<r>>) = 1 /\ <<r>>[1] = r
  OBVIOUS
<1> QED BY <1>1, SeqOfRange, Zenon

LEMMA RunIsAPlan ==
  ASSUME NEW diffs \in Batch, NEW n \in Nat, n < MaxCalls,
         NEW run \in RunId \cup {n + 1},
         NEW f, f = RunRows(run, n + 1, Parsed(diffs))
  PROVE  Shaped(f) /\ Typed(f, n + 1) /\ Founded(f, {})
<1> DEFINE call == n + 1
           parsed == Parsed(diffs)
           r0 == RunRow(run, call, parsed)
<1>1. diffs \in Seq(Diff)
  BY BatchAssumption DEF Diff
<1>2. DOMAIN diffs = 1..Len(diffs) /\ Len(diffs) \in Nat /\ \A i \in DOMAIN diffs : diffs[i] \in Diff
  BY <1>1, LenProperties, ElementOfSeq
<1>3. DOMAIN parsed \subseteq DOMAIN diffs /\ \A i \in DOMAIN parsed : parsed[i] = diffs[i]
  BY DEF Parsed, RestrictValues, Restrict
<1> HIDE DEF parsed
<1>4. ASSUME NEW g \in DOMAIN parsed
      PROVE  g \in Nat /\ g # 0 /\ parsed[g] \in Diff
  BY <1>2, <1>3
<1>5. DOMAIN f = {0} \cup DOMAIN parsed /\ f[0] = <<r0>>
  BY DEF RunRows, parsed
<1>6. ASSUME NEW g \in DOMAIN f, g # 0
      PROVE  g \in Nat /\ FileRowsPlanned(f[g], run, call, g)
  <2>1. g \in DOMAIN parsed
    BY <1>5, <1>6
  <2>2. f[g] = FileRows(run, call, g, parsed[g])
    BY <1>6, <2>1 DEF RunRows, parsed
  <2>3. parsed[g] \in Diff
    BY <1>4, <2>1
  <2>4. FileRowsPlanned(FileRows(run, call, g, parsed[g]), run, call, g)
    BY <2>3, FileRowsAreAPlan
  <2> QED BY <1>4, <2>1, <2>2, <2>4
<1>7. /\ r0.table = "runs" /\ r0.run = run /\ r0.call = call
      /\ f[0] \in Seq(Range(f[0])) /\ Len(f[0]) = 1 /\ f[0][1] = r0
  <2>1. r0.table = "runs" /\ r0.run = run /\ r0.call = call
    BY DEF RunRow, Row
  <2> QED BY <1>5, <2>1, Single, Zenon
<1>8. call \in 1..MaxCalls /\ call \in 1..call /\ run \in RowIds /\ NoRun \in RowIds
  BY BoundAssumption DEF RowIds
<1> HIDE DEF r0, call
<1>9. Shaped(f)
  <2>1. ASSUME NEW g \in DOMAIN f PROVE g \in Nat /\ f[g] \in Seq(Range(f[g])) /\ Len(f[g]) > 0
    <3>1. CASE g = 0
      BY <1>7, <3>1
    <3>2. CASE g # 0
      BY <1>6, <3>2, LenProperties DEF FileRowsPlanned
    <3> QED BY <3>1, <3>2
  <2> QED BY <2>1 DEF Shaped
<1>10. Typed(f, call)
  <2>1. ASSUME NEW g \in DOMAIN f, NEW i \in 1..Len(f[g]) PROVE RowOK(f[g][i], call)
    <3>1. CASE g = 0
      BY <1>7, <1>8, <3>1 DEF RowOK, Tables
    <3>2. CASE g # 0
      <4>1. FileRowsPlanned(f[g], run, call, g)
        BY <1>6, <3>2
      <4> QED BY <1>8, <4>1 DEF FileRowsPlanned, RowOK, Tables, Details
    <3> QED BY <3>1, <3>2
  <2> QED BY <2>1 DEF Typed
<1>11. Founded(f, {})
  <2>1. ASSUME NEW g \in DOMAIN f, NEW i \in 1..Len(f[g]) PROVE FoundedAt(f, g, i, {})
    <3>1. CASE g = 0
      BY <1>7, <3>1 DEF FoundedAt, Details
    <3>2. CASE g # 0
      <4>1. FileRowsPlanned(f[g], run, call, g)
        BY <1>6, <3>2
      <4>2. 1 \in 1..Len(f[g]) /\ 2 \in 1..Len(f[g]) /\ 0 \in DOMAIN f
        BY <1>5, <4>1, LenProperties DEF FileRowsPlanned
      <4>3. ASSUME f[g][i].table \notin {"runs", "diff_history"}
            PROVE  g # 0 /\ 0 \in DOMAIN f /\ IsRunOf(f[0][1], f[g][i])
        BY <1>7, <3>2, <4>1, <4>2, <4>3 DEF FileRowsPlanned, IsRunOf
      <4>4. ASSUME f[g][i].table \in Details
            PROVE  \E q \in {f[g][j] : j \in 1..(i - 1)} : IsFileOf(q, f[g][i])
        <5>1. 2 \in 1..(i - 1)
          BY <4>1, <4>4 DEF FileRowsPlanned
        <5>2. IsFileOf(f[g][2], f[g][i])
          BY <4>1, <4>2, <4>4 DEF FileRowsPlanned, IsFileOf, Details
        <5> QED BY <5>1, <5>2
      <4>5. ASSUME f[g][i].table = "files"
            PROVE  \E q \in {f[g][j] : j \in 1..(i - 1)} : IsHistoryOf(q, f[g][i])
        <5>1. 1 \in 1..(i - 1)
          BY <4>1, <4>5 DEF FileRowsPlanned
        <5>2. IsHistoryOf(f[g][1], f[g][i])
          BY <4>1, <4>2 DEF FileRowsPlanned, IsHistoryOf
        <5> QED BY <5>1, <5>2
      <4> QED BY <4>3, <4>4, <4>5, Zenon DEF FoundedAt
    <3> QED BY <3>1, <3>2
  <2> QED BY <2>1, Zenon DEF Founded
<1> QED BY <1>9, <1>10, <1>11 DEF call

-----------------------------------------------------------------------------
(****************************************************************************)
(* The next row of a plan finds what it refers to, and leaves a plan.       *)
(****************************************************************************)
LEMMA FirstPosition ==
  ASSUME NEW t \in Thread, Shaped(todo[t]), DOMAIN todo[t] # {}
  PROVE  /\ Position(t) \in DOMAIN todo[t]
         /\ \A j \in DOMAIN todo[t] : Position(t) <= j
<1>1. DOMAIN todo[t] \in SUBSET Nat
  BY DEF Shaped
<1>2. \E i \in DOMAIN todo[t] : \A j \in DOMAIN todo[t] : i <= j
  BY <1>1, Least
<1> QED BY <1>2, Zenon DEF Position

LEMMA NextIsFounded ==
  ASSUME NEW t \in Thread, Shaped(todo[t]), DOMAIN todo[t] # {},
         NEW rows, Founded(todo[t], rows)
  PROVE  Joined(NextRow(t), rows)
<1> DEFINE f == todo[t]
           g == Position(t)
<1>1. g \in DOMAIN f /\ g \in Nat /\ (0 \in DOMAIN f => g = 0)
  BY FirstPosition DEF Shaped
<1>2. f[g] \in Seq(Range(f[g])) /\ Len(f[g]) > 0 /\ Len(f[g]) \in Nat
  BY <1>1, LenProperties DEF Shaped
<1>3. NextRow(t) = f[g][1]
  BY <1>2 DEF NextRow
<1>4. FoundedAt(f, g, 1, rows)
  BY <1>1, <1>2 DEF Founded
<1>5. {f[g][j] : j \in 1..(1 - 1)} = {}
  OBVIOUS
<1> HIDE DEF f, g
<1> QED BY <1>1, <1>3, <1>4, <1>5 DEF FoundedAt, Joined

LEMMA TailShape ==
  ASSUME NEW S, NEW s \in Seq(S), Len(s) > 1
  PROVE  /\ Tail(s) \in Seq(Range(Tail(s)))
         /\ Len(Tail(s)) = Len(s) - 1
         /\ \A i \in 1..Len(Tail(s)) : Tail(s)[i] = s[i + 1]
<1>1. s # <<>>
  OBVIOUS
<1>2. Tail(s) \in Seq(S)
  BY <1>1, HeadTailProperties
<1>3. Tail(s) \in Seq(Range(Tail(s)))
  BY <1>2, SeqOfRange, Zenon
<1> QED BY <1>1, <1>3, HeadTailProperties

LEMMA RestIsAPlan ==
  ASSUME NEW t \in Thread, Shaped(todo[t]), DOMAIN todo[t] # {},
         NEW rows, Founded(todo[t], rows), NEW n, Typed(todo[t], n)
  PROVE  /\ Shaped(Rest(t))
         /\ Typed(Rest(t), n)
         /\ Founded(Rest(t), rows \cup {NextRow(t)})
         /\ RowOK(NextRow(t), n)
<1> DEFINE f == todo[t]
           g == Position(t)
           q == Rest(t)
           more == rows \cup {NextRow(t)}
<1>1. g \in DOMAIN f /\ g \in Nat /\ (0 \in DOMAIN f => g = 0)
  BY FirstPosition DEF Shaped
<1>2. f[g] \in Seq(Range(f[g])) /\ Len(f[g]) > 0 /\ Len(f[g]) \in Nat
  BY <1>1, LenProperties DEF Shaped
<1>3. NextRow(t) = f[g][1]
  BY <1>2 DEF NextRow
<1>4. RowOK(NextRow(t), n)
  BY <1>1, <1>2, <1>3 DEF Typed
<1>5. CASE Len(f[g]) = 1
  <2>1. q = Restrict(f, DOMAIN f \ {g})
    BY <1>5, Zenon DEF Rest
  <2>2. DOMAIN q = DOMAIN f \ {g} /\ \A h \in DOMAIN q : q[h] = f[h]
    BY <2>1 DEF Restrict
  <2> HIDE DEF q, f, g
  <2>3. Shaped(q)
    BY <2>2 DEF Shaped, f
  <2>4. Typed(q, n)
    BY <2>2 DEF Typed, f
  <2>5. ASSUME NEW h \in DOMAIN q, NEW i \in 1..Len(q[h]) PROVE FoundedAt(q, h, i, more)
    <3>1. h \in DOMAIN f /\ q[h] = f[h] /\ i \in 1..Len(f[h])
      BY <2>2
    <3>2. FoundedAt(f, h, i, rows)
      BY <3>1 DEF Founded, f
    <3>3. ASSUME h # 0, 0 \in DOMAIN f, IsRunOf(f[0][1], f[h][i])
          PROVE  IsRunOf(NextRow(t), q[h][i])
      BY <1>1, <1>3, <3>1, <3>3
    <3> QED BY <3>1, <3>2, <3>3 DEF FoundedAt
  <2> QED BY <1>4, <2>3, <2>4, <2>5 DEF Founded, q
<1>6. CASE Len(f[g]) # 1
  <2>0. Len(f[g]) > 1
    <3> DEFINE l == Len(f[g])
    <3>1. l \in Nat /\ l > 0 /\ l # 1
      BY <1>2, <1>6, Zenon
    <3> HIDE DEF l
    <3>2. l > 1
      BY <3>1
    <3> QED BY <3>2 DEF l
  <2>1. q = [f EXCEPT ![g] = Tail(f[g])]
    BY <1>6, Zenon DEF Rest
  <2>2. /\ DOMAIN q = DOMAIN f /\ q[g] = Tail(f[g])
        /\ \A h \in DOMAIN q : h # g => q[h] = f[h]
    BY <1>1, <2>1
  <2>3. /\ Tail(f[g]) \in Seq(Range(Tail(f[g])))
        /\ Len(Tail(f[g])) = Len(f[g]) - 1
        /\ \A i \in 1..Len(Tail(f[g])) : Tail(f[g])[i] = f[g][i + 1]
    <3> DEFINE s == f[g]
    <3>1. s \in Seq(Range(s)) /\ Len(s) > 1
      BY <1>2, <2>0, Zenon
    <3> HIDE DEF s
    <3>2. /\ Tail(s) \in Seq(Range(Tail(s)))
          /\ Len(Tail(s)) = Len(s) - 1
          /\ \A i \in 1..Len(Tail(s)) : Tail(s)[i] = s[i + 1]
      <4> DEFINE S == Range(s)
      <4>1. s \in Seq(S) /\ Len(s) > 1
        BY <3>1
      <4> HIDE DEF S
      <4> QED BY <4>1, TailShape
    <3> QED BY <3>2 DEF s
  <2> HIDE DEF q, f, g
  <2>4. /\ Len(q[g]) = Len(f[g]) - 1
        /\ \A i \in 1..Len(q[g]) : q[g][i] = f[g][i + 1]
    BY <2>2, <2>3
  <2>5. q[g] \in Seq(Range(q[g])) /\ Len(q[g]) > 0
    <3>1. q[g] \in Seq(Range(q[g]))
      BY <2>2, <2>3, Zenon
    <3>2. Len(q[g]) > 0
      BY <1>2, <2>0, <2>4
    <3> QED BY <3>1, <3>2
  <2>6. Shaped(q)
    <3>1. DOMAIN q \in SUBSET Nat
      BY <2>2 DEF Shaped, f
    <3>2. ASSUME NEW h \in DOMAIN q PROVE q[h] \in Seq(Range(q[h])) /\ Len(q[h]) > 0
      <4>1. CASE h = g BY <2>5, <4>1
      <4>2. CASE h # g
        <5>1. h \in DOMAIN f /\ q[h] = f[h]
          BY <2>2, <4>2
        <5>2. f[h] \in Seq(Range(f[h])) /\ Len(f[h]) > 0
          BY <5>1 DEF Shaped, f
        <5> QED BY <5>1, <5>2
      <4> QED BY <4>1, <4>2
    <3> QED BY <3>1, <3>2, Zenon DEF Shaped
  <2>7. ASSUME NEW h \in DOMAIN q, NEW i \in 1..Len(q[h])
        PROVE  RowOK(q[h][i], n) /\ FoundedAt(q, h, i, more)
    <3>1. CASE h # g
      <4>1. h \in DOMAIN f /\ q[h] = f[h] /\ i \in 1..Len(f[h])
        BY <2>2, <3>1
      <4>2. FoundedAt(f, h, i, rows) /\ RowOK(f[h][i], n)
        BY <4>1 DEF Founded, Typed, f
      <4>3. ASSUME h # 0, 0 \in DOMAIN f, IsRunOf(f[0][1], f[h][i])
            PROVE  IsRunOf(NextRow(t), q[h][i])
        BY <1>1, <1>3, <4>1, <4>3
      <4> QED BY <4>1, <4>2, <4>3 DEF FoundedAt
    <3>2. CASE h = g
      <4>1. i \in Nat /\ i + 1 \in 1..Len(f[g]) /\ q[g][i] = f[g][i + 1]
        BY <1>2, <2>4, <3>2
      <4>2. FoundedAt(f, g, i + 1, rows) /\ RowOK(f[g][i + 1], n)
        BY <1>1, <4>1 DEF Founded, Typed, f
      <4>3. {f[g][j] : j \in 1..((i + 1) - 1)}
              \subseteq {NextRow(t)} \cup {q[g][j] : j \in 1..(i - 1)}
        <5>1. ASSUME NEW j \in 1..((i + 1) - 1), j # 1
              PROVE  f[g][j] \in {q[g][k] : k \in 1..(i - 1)}
          <6>1. j - 1 \in 1..(i - 1) /\ j - 1 \in 1..Len(q[g])
            BY <2>4, <3>2, <4>1, <5>1
          <6>2. q[g][j - 1] = f[g][(j - 1) + 1] /\ (j - 1) + 1 = j
            BY <2>4, <6>1
          <6> QED BY <6>1, <6>2
        <5> QED BY <1>3, <5>1
      <4>4. ASSUME g # 0, 0 \in DOMAIN f, IsRunOf(f[0][1], f[g][i + 1]) PROVE FALSE
        BY <1>1, <4>4
      <4> QED BY <3>2, <4>1, <4>2, <4>3, <4>4 DEF FoundedAt
    <3> QED BY <3>1, <3>2
  <2> QED BY <1>4, <2>6, <2>7 DEF Founded, Typed, q
<1> QED BY <1>5, <1>6

-----------------------------------------------------------------------------
(****************************************************************************)
(* The recordings.                                                          *)
(****************************************************************************)
(* Where the calls stand: their numbers, and what they are about.           *)
Working ==
  /\ db = [p \in Path |-> db[p]]
  /\ job = [t \in Thread |-> job[t]]
  /\ todo = [t \in Thread |-> todo[t]]
  /\ calls \in 0..MaxCalls
  /\ acked \subseteq 1..calls
  /\ \A t \in Thread : pc[t] = "idle" => job[t] = NoJob /\ todo[t] = <<>>
  /\ \A t \in Thread : pc[t] # "idle" => job[t].call \in 1..calls

(* What is recorded, and what is still to be. *)
Recording ==
  /\ \A p \in Path : \A r \in db[p] : RowOK(r, calls) /\ Joined(r, db[p])
  /\ \A t \in Thread :
       Shaped(todo[t]) /\ Typed(todo[t], calls) /\ Founded(todo[t], db[key[t]])

(* To the recordings, a step of a call is quiet, its beginning, its end, or *)
(* the insertion of a row.                                                  *)
Quiet ==
  /\ UNCHANGED <<db, key, job, todo, acked, calls>>
  /\ \A t \in Thread : pc'[t] = "idle" <=> pc[t] = "idle"

Ends(t) ==
  /\ pc[t] # "idle"
  /\ \E result : Finish(t, result)
  /\ UNCHANGED <<db, acked, calls>>

RunPlans(call) ==
  {RunRows(run, call, Parsed(diffs)) : diffs \in Batch, run \in RunId \cup {call}}

Plans(call) == {<<>>, <<<<HistoryRow(call, 1)>>>>} \cup RunPlans(call)

Starts(t) ==
  \E p \in Path, op \in {"open", "query", "close", "diff", "run"}, rows \in Plans(calls + 1) :
    /\ pc[t] = "idle"
    /\ calls < MaxCalls
    /\ calls' = calls + 1
    /\ key' = [key EXCEPT ![t] = p]
    /\ job' = [job EXCEPT ![t] = [op |-> op, call |-> calls + 1]]
    /\ todo' = [todo EXCEPT ![t] = rows]
    /\ op = "run" => rows \in RunPlans(calls + 1)
    /\ \E label \in {"lookup", "remove"} : Goto(t, label)
    /\ UNCHANGED <<db, acked>>

LEMMA BeginStarts ==
  ASSUME NEW t \in Thread, NEW p \in Path, NEW label \in {"lookup", "remove"},
         NEW op \in {"open", "query", "close", "diff", "run"}, NEW rows \in Plans(calls + 1),
         op = "run" => rows \in RunPlans(calls + 1),
         Begin(t, p, label, op, rows)
  PROVE  Starts(t)
BY DEF Begin, Starts

LEMMA StartCases ==
  ASSUME NEW t \in Thread, NEW p \in Path,
         \/ \E op \in {"open", "query"} : CallRead(t, p, op)
         \/ CallRecordDiff(t, p) \/ CallRecordRun(t, p) \/ CallClose(t, p)
  PROVE  Starts(t)
<1>0. <<>> \in Plans(calls + 1)
  BY DEF Plans
<1>1. CASE \E op \in {"open", "query"} : CallRead(t, p, op)
  BY <1>0, <1>1, BeginStarts DEF CallRead
<1>2. CASE CallRecordDiff(t, p)
  <2>1. PICK diffs \in Batch : Begin(t, p, "lookup", "diff", RowsOf("diff", NoRun, calls + 1, diffs))
    BY <1>2, Zenon DEF CallRecordDiff
  <2>2. RowsOf("diff", NoRun, calls + 1, diffs) \in {<<>>, <<<<HistoryRow(calls + 1, 1)>>>>}
    BY DEF RowsOf
  <2>3. RowsOf("diff", NoRun, calls + 1, diffs) \in Plans(calls + 1)
    <3> DEFINE r == RowsOf("diff", NoRun, calls + 1, diffs)
    <3> HIDE DEF r
    <3>1. r \in {<<>>, <<<<HistoryRow(calls + 1, 1)>>>>}
      BY <2>2 DEF r
    <3>2. r \in Plans(calls + 1)
      BY <3>1 DEF Plans
    <3> QED BY <3>2 DEF r
  <2> QED BY <2>1, <2>3, BeginStarts
<1>3. CASE CallRecordRun(t, p)
  <2>1. PICK diffs \in Batch, run \in RunId \cup {calls + 1} :
          Begin(t, p, "lookup", "run", RowsOf("run", run, calls + 1, diffs))
    BY <1>3, Zenon DEF CallRecordRun
  <2>2. RowsOf("run", run, calls + 1, diffs) = RunRows(run, calls + 1, Parsed(diffs))
    BY DEF RowsOf
  <2>3. /\ RowsOf("run", run, calls + 1, diffs) \in RunPlans(calls + 1)
        /\ RowsOf("run", run, calls + 1, diffs) \in Plans(calls + 1)
    <3>1. RunRows(run, calls + 1, Parsed(diffs)) \in RunPlans(calls + 1)
      BY DEF RunPlans
    <3> QED BY <2>2, <3>1 DEF Plans
  <2> QED BY <2>1, <2>3, BeginStarts
<1>4. CASE CallClose(t, p)
  BY <1>0, <1>4, BeginStarts DEF CallClose
<1> QED BY <1>1, <1>2, <1>3, <1>4

LEMMA StepCases ==
  ASSUME Hands, [Next]_vars
  PROVE  \/ Quiet \/ Exit
         \/ \E t \in Thread : Starts(t) \/ Ends(t) \/ InsertNext(t)
<1> USE DEF Hands, Labels, Goto, registryVars
<1>1. ASSUME NEW t \in Thread, LookupHit(t) \/ LookupMiss(t) PROVE Quiet
  BY <1>1 DEF LookupHit, LookupMiss, Quiet
<1>2. ASSUME NEW t \in Thread,
             DuckDbOpens(t) \/ DuckDbUnavailable(t) \/ DuckDbSchemaFails(t) PROVE Quiet
  BY <1>2 DEF DuckDbOpens, DuckDbUnavailable, DuckDbSchemaFails, Quiet
<1>3. ASSUME NEW t \in Thread, DuckDbReady(t) PROVE Quiet
  BY <1>3 DEF DuckDbReady, NewStore, Quiet
<1>4. ASSUME NEW t \in Thread, SqliteOpens(t) PROVE Quiet
  BY <1>4 DEF SqliteOpens, NewStore, Quiet
<1>5. ASSUME NEW t \in Thread,
             \/ OpenFails(t) \/ StatementFails(t) \/ Return(t)
             \/ RemoveNothing(t) \/ ClearOpen(t)
      PROVE  Ends(t)
  BY <1>5 DEF OpenFails, StatementFails, Return, RemoveNothing, ClearOpen, Ends
<1>6. ASSUME NEW t \in Thread, RegisterFirst(t) \/ RegisterLoser(t) PROVE Quiet
  BY <1>6 DEF RegisterFirst, RegisterLoser, Quiet
<1>7. ASSUME NEW t \in Thread, RemoveEntry(t) PROVE Quiet
  BY <1>7 DEF RemoveEntry, Quiet
<1>8. CASE UNCHANGED vars
  BY <1>8 DEF vars, Quiet
<1> QED
  BY <1>1, <1>2, <1>3, <1>4, <1>5, <1>6, <1>7, <1>8, StartCases, Cases

Inv == Hands /\ Working /\ Recording

LEMMA InvInit == Init => Inv
<1> SUFFICES ASSUME Init PROVE Inv
  OBVIOUS
<1>1. Working
  BY BoundAssumption DEF Init, Working
<1>2. Recording
  <2>1. \A t \in Thread : todo[t] = <<>>
    BY DEF Init
  <2>2. \A p \in Path : db[p] = {}
    BY DEF Init
  <2> QED BY <2>1, <2>2, NothingIsAPlan DEF Recording
<1> QED BY <1>1, <1>2, HandsInit DEF Inv

LEMMA WorkingStep == Inv /\ [Next]_vars => Working'
<1> SUFFICES ASSUME Inv, [Next]_vars PROVE Working'
  OBVIOUS
<1> USE BoundAssumption DEF Inv, Hands, Labels, Working, Goto
<1>1. CASE Quiet
  BY <1>1 DEF Quiet
<1>2. CASE Exit
  BY <1>2 DEF Exit
<1>3. ASSUME NEW t \in Thread, Starts(t) PROVE Working'
  <2>1. PICK p \in Path, op \in {"open", "query", "close", "diff", "run"},
             rows \in Plans(calls + 1) :
          /\ pc[t] = "idle"
          /\ calls < MaxCalls
          /\ calls' = calls + 1
          /\ job' = [job EXCEPT ![t] = [op |-> op, call |-> calls + 1]]
          /\ todo' = [todo EXCEPT ![t] = rows]
          /\ \E label \in {"lookup", "remove"} : pc' = [pc EXCEPT ![t] = label]
          /\ UNCHANGED <<db, acked>>
    BY <1>3, Zenon DEF Starts
  <2>2. /\ calls' \in 0..MaxCalls /\ calls' \in 1..calls' /\ acked \subseteq 1..calls'
        /\ 1..calls \subseteq 1..calls'
    BY <2>1
  <2>3. job' = [u \in Thread |-> job'[u]] /\ todo' = [u \in Thread |-> todo'[u]]
    BY <2>1
  <2>4. ASSUME NEW u \in Thread
        PROVE  /\ pc'[u] = "idle" => job'[u] = NoJob /\ todo'[u] = <<>>
               /\ pc'[u] # "idle" => job'[u].call \in 1..calls'
    <3>1. CASE u = t
      <4>1. pc'[u] # "idle" /\ job'[u] = [op |-> op, call |-> calls + 1]
        BY <2>1, <3>1
      <4> QED BY <2>1, <2>2, <4>1
    <3>2. CASE u # t
      BY <2>1, <2>2, <3>2
    <3> QED BY <3>1, <3>2
  <2> QED BY <2>1, <2>2, <2>3, <2>4
<1>4. ASSUME NEW t \in Thread, NEW result, Finish(t, result), UNCHANGED calls,
             db' = [p \in Path |-> db'[p]], acked' \subseteq 1..calls
      PROVE  Working'
  <2>1. /\ pc' = [pc EXCEPT ![t] = "idle"]
        /\ job' = [job EXCEPT ![t] = NoJob]
        /\ todo' = [todo EXCEPT ![t] = <<>>]
    BY <1>4 DEF Finish
  <2>2. job' = [u \in Thread |-> job'[u]] /\ todo' = [u \in Thread |-> todo'[u]]
    BY <2>1
  <2>3. ASSUME NEW u \in Thread
        PROVE  /\ pc'[u] = "idle" => job'[u] = NoJob /\ todo'[u] = <<>>
               /\ pc'[u] # "idle" => job'[u].call \in 1..calls'
    BY <1>4, <2>1
  <2> QED BY <1>4, <2>2, <2>3
<1>5. ASSUME NEW t \in Thread, Ends(t) PROVE Working'
  <2>1. PICK result : Finish(t, result)
    BY <1>5 DEF Ends
  <2> QED BY <1>4, <1>5, <2>1 DEF Ends
<1>6. ASSUME NEW t \in Thread, InsertNext(t) PROVE Working'
  <2>1. /\ db' = [p \in Path |-> db'[p]]
        /\ UNCHANGED calls
        /\ pc[t] # "idle"
    BY <1>6 DEF InsertNext, Insert
  <2>2. CASE DOMAIN Rest(t) = {}
    <3>1. Finish(t, "ok") /\ acked' \in {acked, acked \cup {job[t].call}}
      BY <1>6, <2>2 DEF InsertNext, Insert
    <3>2. acked' \subseteq 1..calls
      BY <2>1, <3>1
    <3> QED BY <1>4, <2>1, <3>1, <3>2
  <2>3. CASE DOMAIN Rest(t) # {}
    <3>1. UNCHANGED <<pc, job, acked>> /\ todo' = [todo EXCEPT ![t] = Rest(t)]
      BY <1>6, <2>3 DEF InsertNext, Insert
    <3>2. todo' = [u \in Thread |-> todo'[u]]
      BY <3>1
    <3>3. \A u \in Thread : pc[u] = "idle" => todo'[u] = <<>>
      BY <2>1, <3>1
    <3> QED BY <2>1, <3>1, <3>2, <3>3
  <2> QED BY <2>2, <2>3
<1> QED BY <1>1, <1>2, <1>3, <1>5, <1>6, StepCases

LEMMA RowOKMore ==
  ASSUME NEW r, NEW n \in Nat, RowOK(r, n)
  PROVE  RowOK(r, n + 1)
BY DEF RowOK

LEMMA RecordingStep == Inv /\ [Next]_vars => Recording'
<1> SUFFICES ASSUME Inv, [Next]_vars PROVE Recording'
  OBVIOUS
<1>0. Hands /\ Working /\ Recording
  BY DEF Inv
<1>1. CASE Quiet
  BY <1>0, <1>1 DEF Quiet, Recording
<1>2. CASE Exit
  <2>1. UNCHANGED <<db, calls>> /\ \A t \in Thread : todo'[t] = <<>>
    BY <1>2 DEF Exit
  <2> QED BY <1>0, <2>1, NothingIsAPlan DEF Recording
<1>3. ASSUME NEW t \in Thread, Starts(t) PROVE Recording'
  <2>1. PICK p \in Path, rows \in Plans(calls + 1) :
          /\ calls < MaxCalls
          /\ calls' = calls + 1
          /\ key' = [key EXCEPT ![t] = p]
          /\ todo' = [todo EXCEPT ![t] = rows]
          /\ UNCHANGED db
    BY <1>3, Zenon DEF Starts
  <2>2. calls \in Nat /\ calls + 1 \in 1..MaxCalls
    BY <1>0, <2>1, BoundAssumption DEF Working
  <2>3. Shaped(rows) /\ Typed(rows, calls + 1) /\ Founded(rows, {})
    <3>1. CASE rows = <<>>
      BY <3>1, NothingIsAPlan
    <3>2. CASE rows = <<<<HistoryRow(calls + 1, 1)>>>>
      <4> DEFINE h == HistoryRow(calls + 1, 1)
      <4>1. h.table = "diff_history" /\ h.run = NoRun /\ h.call = calls + 1
        BY DEF HistoryRow, Row
      <4>2. DOMAIN rows = {1} /\ rows[1] = <<h>>
        BY <3>2
      <4> HIDE DEF h
      <4>3. <<h>> \in Seq(Range(<<h>>)) /\ Len(<<h>>) = 1 /\ <<h>>[1] = h
        BY Single
      <4>4. Shaped(rows)
        <5>1. ASSUME NEW g \in DOMAIN rows
              PROVE  rows[g] \in Seq(Range(rows[g])) /\ Len(rows[g]) > 0
          <6>1. rows[g] = <<h>>
            BY <4>2
          <6>2. 1 > 0
            OBVIOUS
          <6> QED BY <4>3, <6>1, <6>2, Zenon
        <5>2. DOMAIN rows \in SUBSET Nat
          BY <4>2
        <5> QED BY <5>1, <5>2, Zenon DEF Shaped
      <4>5. RowOK(h, calls + 1)
        BY <2>2, <4>1 DEF RowOK, Tables, RowIds
      <4>6. \A g \in DOMAIN rows : \A i \in 1..Len(rows[g]) : rows[g][i] = h
        BY <4>2, <4>3
      <4>7. Typed(rows, calls + 1)
        BY <4>5, <4>6, Zenon DEF Typed
      <4>8. Founded(rows, {})
        BY <4>1, <4>6 DEF Founded, FoundedAt, Details
      <4> QED BY <4>4, <4>7, <4>8
    <3>3. CASE \E diffs \in Batch, run \in RunId \cup {calls + 1} :
                 rows = RunRows(run, calls + 1, Parsed(diffs))
      <4>1. PICK diffs \in Batch, run \in RunId \cup {calls + 1} :
              rows = RunRows(run, calls + 1, Parsed(diffs))
        BY <3>3
      <4> QED BY <2>1, <2>2, <4>1, RunIsAPlan
    <3> QED BY <3>1, <3>2, <3>3 DEF Plans, RunPlans
  <2>4. ASSUME NEW q \in Path, NEW r \in db'[q]
        PROVE  RowOK(r, calls') /\ Joined(r, db'[q])
    BY <1>0, <2>1, <2>2, <2>4, RowOKMore DEF Recording
  <2>5. ASSUME NEW u \in Thread
        PROVE  Shaped(todo'[u]) /\ Typed(todo'[u], calls') /\ Founded(todo'[u], db'[key'[u]])
    <3>1. CASE u = t
      <4>1. todo'[u] = rows
        BY <1>0, <2>1, <3>1 DEF Working
      <4>2. Founded(rows, db'[key'[u]])
        BY <2>3, FoundedMore
      <4> QED BY <2>1, <2>3, <4>1, <4>2
    <3>2. CASE u # t
      <4>1. todo'[u] = todo[u] /\ key'[u] = key[u]
        BY <1>0, <2>1, <3>2 DEF Working, Hands
      <4>2. Typed(todo[u], calls + 1)
        BY <1>0, <2>2, RowOKMore, Zenon DEF Recording, Typed
      <4> QED BY <1>0, <2>1, <4>1, <4>2 DEF Recording
    <3> QED BY <3>1, <3>2
  <2> QED BY <2>4, <2>5 DEF Recording
<1>4. ASSUME NEW t \in Thread, Ends(t) PROVE Recording'
  <2>1. /\ UNCHANGED <<db, calls>>
        /\ \A u \in Thread : todo'[u] = <<>> \/ (todo'[u] = todo[u] /\ key'[u] = key[u])
    BY <1>0, <1>4 DEF Ends, Finish, Working, Hands
  <2> QED BY <1>0, <2>1, NothingIsAPlan DEF Recording
<1>5. ASSUME NEW t \in Thread, InsertNext(t) PROVE Recording'
  <2> DEFINE p == key[t]
             new == NextRow(t)
  <2>1. /\ pc[t] = "use" /\ DOMAIN todo[t] # {}
        /\ db' = [db EXCEPT ![p] = @ \cup {new}]
        /\ UNCHANGED calls
    BY <1>5 DEF InsertNext, Insert, registryVars
  <2>2. p \in Path
    BY <1>0, <2>1 DEF Hands
  <2>3. \A q \in Path : db'[q] = IF q = p THEN db[p] \cup {new} ELSE db[q]
    BY <1>0, <2>1, <2>2 DEF Working
  <2>4. Shaped(todo[t]) /\ Typed(todo[t], calls) /\ Founded(todo[t], db[p])
    BY <1>0 DEF Recording
  <2>5. /\ Shaped(Rest(t)) /\ Typed(Rest(t), calls) /\ Founded(Rest(t), db[p] \cup {new})
        /\ RowOK(new, calls)
    BY <2>1, <2>4, RestIsAPlan
  <2>6. Joined(new, db[p])
    BY <2>1, <2>4, NextIsFounded
  <2>7. \A u \in Thread :
          \/ todo'[u] = <<>>
          \/ todo'[u] = todo[u] /\ key'[u] = key[u] /\ u # t
          \/ u = t /\ todo'[u] = Rest(t) /\ key'[u] = p
    <3>1. CASE DOMAIN Rest(t) = {}
      BY <1>0, <1>5, <3>1 DEF InsertNext, Insert, Finish, Working, Hands
    <3>2. CASE DOMAIN Rest(t) # {}
      BY <1>0, <1>5, <3>2 DEF InsertNext, Insert, Working, Hands
    <3> QED BY <3>1, <3>2
  <2> HIDE DEF p, new
  <2>8. ASSUME NEW q \in Path, NEW r \in db'[q]
        PROVE  RowOK(r, calls) /\ Joined(r, db'[q])
    <3>1. CASE q = p /\ r = new
      <4>1. db[p] \subseteq db'[q]
        BY <2>3, <3>1
      <4> QED BY <2>5, <2>6, <3>1, <4>1 DEF Joined
    <3>2. CASE r \in db[q]
      <4>1. db[q] \subseteq db'[q]
        BY <2>3
      <4>2. RowOK(r, calls) /\ Joined(r, db[q])
        BY <1>0, <3>2 DEF Recording
      <4> QED BY <4>1, <4>2 DEF Joined
    <3> QED BY <2>3, <2>8, <3>1, <3>2
  <2>9. ASSUME NEW u \in Thread
        PROVE  Shaped(todo'[u]) /\ Typed(todo'[u], calls) /\ Founded(todo'[u], db'[key'[u]])
    <3>1. CASE todo'[u] = <<>>
      BY <3>1, NothingIsAPlan
    <3>2. CASE todo'[u] = todo[u] /\ key'[u] = key[u] /\ u # t
      <4>1. Shaped(todo[u]) /\ Typed(todo[u], calls) /\ Founded(todo[u], db[key[u]])
        BY <1>0 DEF Recording
      <4>2. CASE todo[u] = <<>>
        BY <3>2, <4>2, NothingIsAPlan
      <4>3. CASE todo[u] # <<>>
        <5>1. key[u] \in Path
          BY <1>0, <4>3 DEF Hands, Working
        <5>2. db[key[u]] \subseteq db'[key[u]]
          BY <2>3, <5>1
        <5>3. Founded(todo[u], db'[key[u]])
          BY <4>1, <5>2, FoundedMore
        <5> QED BY <3>2, <4>1, <5>3
      <4> QED BY <4>2, <4>3
    <3>3. CASE u = t /\ todo'[u] = Rest(t) /\ key'[u] = p
      <4>1. db'[p] = db[p] \cup {new}
        BY <2>2, <2>3
      <4> QED BY <2>5, <3>3, <4>1
    <3> QED BY <2>7, <3>1, <3>2, <3>3
  <2> QED BY <2>1, <2>8, <2>9 DEF Recording
<1> QED BY <1>0, <1>1, <1>2, <1>3, <1>4, <1>5, StepCases

(* The inductive invariant, for any number of threads, paths and calls. *)
THEOREM Invariance == Spec => []Inv
<1>1. Inv /\ [Next]_vars => Inv'
  BY HandsStep, WorkingStep, RecordingStep DEF Inv
<1> QED BY <1>1, InvInit, PTL DEF Spec

(* Type correctness, and a thread has a job exactly while it is in a call   *)
(* and holds an Arc exactly between its lookup or opening and its return.   *)
THEOREM TypeCorrect == Spec => []TypeOK
<1>1. Inv => TypeOK
  <2> SUFFICES ASSUME Inv PROVE TypeOK
    OBVIOUS
  <2>1. \A t \in Thread : job[t] = NoJob <=> pc[t] = "idle"
    <3>1. NoJob.call = 0
      BY DEF NoJob
    <3>2. 0 \notin 1..calls
      BY DEF Inv, Working
    <3> QED BY <3>1, <3>2, Zenon DEF Inv, Working
  <2> QED BY <2>1, Zenon DEF Inv, Hands, Working, Recording, RowOK, TypeOK
<1> QED BY <1>1, Invariance, PTL

(* Whatever stops a recording and whoever records at the same time, each    *)
(* row finds the run, the file and the history it belongs to.               *)
THEOREM RowsAreJoined == Spec => []RowsBelongToTheirRun
<1>1. Inv => RowsBelongToTheirRun
  <2> SUFFICES ASSUME Inv, NEW p \in Path, NEW r \in db[p]
               PROVE  /\ r.table \notin {"runs", "diff_history"} =>
                           \E run \in RowsIn(p, "runs") : run.run = r.run /\ run.call = r.call
                      /\ r.table \in {"parser_calls", "hotspots", "events"} =>
                           \E file \in RowsIn(p, "files") :
                             file.run = r.run /\ file.call = r.call /\ file.pos = r.pos
                      /\ r.table = "files" =>
                           \E h \in RowsIn(p, "diff_history") : h.call = r.call /\ h.pos = r.pos
    BY Zenon DEF RowsBelongToTheirRun
  <2>1. Joined(r, db[p])
    BY DEF Inv, Recording
  <2> QED BY <2>1, Zenon DEF Joined, Details, RowsIn, IsRunOf, IsFileOf, IsHistoryOf
<1> QED BY <1>1, Invariance, PTL

-----------------------------------------------------------------------------
(****************************************************************************)
(* The rows of a plan, and of a run's.                                      *)
(****************************************************************************)
RowsLeft(f) == UNION {Range(f[g]) : g \in DOMAIN f}

LEMMA NothingLeft == RowsLeft(<<>>) = {}
  BY DEF RowsLeft

LEMMA RestLeaves ==
  ASSUME NEW t \in Thread, Shaped(todo[t]), DOMAIN todo[t] # {}
  PROVE  RowsLeft(todo[t]) = RowsLeft(Rest(t)) \cup {NextRow(t)}
<1> DEFINE f == todo[t]
           g == Position(t)
           q == Rest(t)
<1>1. g \in DOMAIN f
  BY FirstPosition
<1>2. f[g] \in Seq(Range(f[g])) /\ Len(f[g]) > 0 /\ Len(f[g]) \in Nat
  BY <1>1, LenProperties DEF Shaped
<1>3. NextRow(t) = f[g][1]
  BY <1>2 DEF NextRow
<1>4. Range(f[g]) = {f[g][i] : i \in 1..Len(f[g])}
  BY <1>2, RangeEquality, Zenon
<1>5. CASE Len(f[g]) = 1
  <2>1. q = Restrict(f, DOMAIN f \ {g})
    BY <1>5, Zenon DEF Rest
  <2>2. DOMAIN q = DOMAIN f \ {g} /\ \A h \in DOMAIN q : q[h] = f[h]
    BY <2>1 DEF Restrict
  <2>3. Range(f[g]) = {NextRow(t)}
    BY <1>3, <1>4, <1>5
  <2> HIDE DEF f, g, q
  <2>4. RowsLeft(f) = RowsLeft(q) \cup {NextRow(t)}
    BY <1>1, <2>2, <2>3 DEF RowsLeft
  <2> QED BY <2>4 DEF f, q
<1>6. CASE Len(f[g]) # 1
  <2>1. q = [f EXCEPT ![g] = Tail(f[g])]
    BY <1>6, Zenon DEF Rest
  <2>2. /\ DOMAIN q = DOMAIN f /\ q[g] = Tail(f[g])
        /\ \A h \in DOMAIN q : h # g => q[h] = f[h]
    BY <1>1, <2>1
  <2>3. Range(f[g]) = Range(Tail(f[g])) \cup {NextRow(t)}
    <3> DEFINE s == f[g]
               S == Range(f[g])
               n == Len(s)
    <3>0. n \in Nat /\ n > 0 /\ n # 1
      BY <1>2, <1>6, Zenon
    <3> HIDE DEF n
    <3>1. s \in Seq(S) /\ n > 1
      BY <1>2, <3>0
    <3> USE DEF n
    <3> HIDE DEF s, S
    <3>2. /\ Tail(s) \in Seq(Range(Tail(s)))
          /\ Len(Tail(s)) = Len(s) - 1
          /\ \A i \in 1..Len(Tail(s)) : Tail(s)[i] = s[i + 1]
      BY <3>1, TailShape
    <3>3. Range(Tail(s)) = {Tail(s)[i] : i \in 1..Len(Tail(s))}
      BY <3>2, RangeEquality, Zenon
    <3>4. \A i \in 1..Len(s) : i = 1 \/ (i - 1 \in 1..Len(Tail(s)) /\ Tail(s)[i - 1] = s[i])
      <4> SUFFICES ASSUME NEW i \in 1..Len(s), i # 1
                   PROVE  i - 1 \in 1..Len(Tail(s)) /\ Tail(s)[i - 1] = s[i]
        OBVIOUS
      <4>1. i - 1 \in 1..Len(Tail(s)) /\ (i - 1) + 1 = i
        BY <3>2
      <4> QED BY <3>2, <4>1
    <3>5. \A i \in 1..Len(Tail(s)) : i + 1 \in 1..Len(s)
      BY <3>1, <3>2
    <3>6. Range(s) = {s[i] : i \in 1..Len(s)} /\ NextRow(t) = s[1] /\ 1 \in 1..Len(s)
      BY <1>2, <1>3, <1>4 DEF s
    <3>7. Range(s) = Range(Tail(s)) \cup {NextRow(t)}
      BY <3>2, <3>3, <3>4, <3>5, <3>6
    <3> QED BY <3>7 DEF s
  <2> HIDE DEF f, g, q
  <2>4. RowsLeft(f) = RowsLeft(q) \cup {NextRow(t)}
    BY <1>1, <2>2, <2>3 DEF RowsLeft
  <2> QED BY <2>4 DEF f, q
<1> QED BY <1>5, <1>6

(* The rows of a file, whatever their order. *)
LEMMA FileRowsRange ==
  ASSUME NEW run, NEW call, NEW pos, NEW d \in Diff
  PROVE  Range(FileRows(run, call, pos, d))
           = {HistoryRow(call, pos), FileRow(run, call, pos, d)}
               \cup Range(ParserCallRows(run, call, pos, d))
               \cup Range(HotspotRows(run, call, pos, d))
               \cup Range(EventRows(run, call, pos, d))
<1> DEFINE P == ParserCallRows(run, call, pos, d)
           S == HotspotRows(run, call, pos, d)
           E == EventRows(run, call, pos, d)
           H == HistoryRow(call, pos)
           F == FileRow(run, call, pos, d)
           V == {H, F} \cup Range(P) \cup Range(S) \cup Range(E)
<1>1. d.calls \in Seq([fuel : Nat, total : Nat]) /\ d.hotspots \in Nat /\ d.events \in Nat
  BY DEF Diff
<1>2. DOMAIN d.calls = 1..Len(d.calls) /\ Len(d.calls) \in Nat
  BY <1>1, LenProperties
<1>3. /\ P = [n \in 1..Len(d.calls) |-> P[n]]
      /\ S = [n \in 1..d.hotspots |-> S[n]]
      /\ E = [n \in 1..d.events |-> E[n]]
  BY <1>2 DEF ParserCallRows, HotspotRows, EventRows
<1> HIDE DEF P, S, E, H, F
<1>4. ASSUME NEW n \in Nat, NEW s, s = [i \in 1..n |-> s[i]], Range(s) \subseteq V
      PROVE  s \in Seq(V)
  <2> HIDE DEF V
  <2>1. s \in [1..n -> V]
    BY <1>4 DEF Range
  <2>2. Seq(V) = UNION {[1..m -> V] : m \in Nat}
    BY SeqDef, Zenon
  <2> QED BY <2>1, <2>2
<1>5. P \in Seq(V) /\ S \in Seq(V) /\ E \in Seq(V)
  BY <1>1, <1>2, <1>3, <1>4
<1>6. <<H, F>> \in Seq(V) /\ Range(<<H, F>>) = {H, F}
  <2>1. H \in V /\ F \in V
    OBVIOUS
  <2> HIDE DEF V
  <2>2. <<H, F>> \in Seq(V) /\ Len(<<H, F>>) = 2 /\ <<H, F>>[1] = H /\ <<H, F>>[2] = F
    BY <2>1
  <2>3. Range(<<H, F>>) = {<<H, F>>[i] : i \in 1..2}
    BY <2>2, RangeEquality
  <2>4. 1..2 = {1, 2}
    OBVIOUS
  <2> QED BY <2>2, <2>3, <2>4
<1>7. FileRows(run, call, pos, d) = ((<<H, F>> \o P) \o S) \o E
  BY Zenon DEF FileRows, P, S, E, H, F
<1> DEFINE s0 == <<H, F>>
           s1 == s0 \o P
           s2 == s1 \o S
<1> HIDE DEF V, s0, s1, s2
<1>8. ASSUME NEW s \in Seq(V), NEW q \in Seq(V)
      PROVE  s \o q \in Seq(V) /\ Range(s \o q) = Range(s) \cup Range(q)
  BY RangeConcatenation, ConcatProperties, Zenon
<1>9. s0 \in Seq(V) /\ Range(s0) = {H, F}
  BY <1>6 DEF s0
<1>10. s1 \in Seq(V) /\ Range(s1) = {H, F} \cup Range(P)
  BY <1>5, <1>8, <1>9, Zenon DEF s1
<1>11. s2 \in Seq(V) /\ Range(s2) = {H, F} \cup Range(P) \cup Range(S)
  BY <1>5, <1>8, <1>10, Zenon DEF s2
<1>12. Range(s2 \o E) = {H, F} \cup Range(P) \cup Range(S) \cup Range(E)
  BY <1>5, <1>8, <1>11, Zenon
<1>13. FileRows(run, call, pos, d) = s2 \o E
  BY <1>7 DEF s0, s1, s2
<1> QED BY <1>12, <1>13 DEF P, S, E, H, F

(* What is recorded of a batch: an object at each of some positions.        *)
IsParsed(parsed) ==
  /\ IsFiniteSet(DOMAIN parsed)
  /\ 0 \notin DOMAIN parsed
  /\ \A i \in DOMAIN parsed : parsed[i] \in Diff

LEMMA ParsedIsParsed ==
  ASSUME NEW diffs \in Batch
  PROVE  IsParsed(Parsed(diffs))
<1>1. diffs \in Seq(Diff)
  BY BatchAssumption DEF Diff
<1>2. /\ DOMAIN diffs = 1..Len(diffs) /\ Len(diffs) \in Nat
      /\ \A i \in DOMAIN diffs : diffs[i] \in Diff
  BY <1>1, LenProperties, ElementOfSeq
<1> DEFINE parsed == Parsed(diffs)
<1>3. DOMAIN parsed \subseteq DOMAIN diffs /\ \A i \in DOMAIN parsed : parsed[i] = diffs[i]
  BY DEF Parsed, RestrictValues, Restrict
<1> HIDE DEF parsed
<1>4. IsFiniteSet(1..Len(diffs))
  BY <1>2, FS_Interval
<1>5. IsFiniteSet(DOMAIN parsed)
  BY <1>2, <1>3, <1>4, FS_Subset
<1>6. 0 \notin DOMAIN parsed /\ \A i \in DOMAIN parsed : parsed[i] \in Diff
  BY <1>2, <1>3
<1> QED BY <1>5, <1>6 DEF IsParsed, parsed

(* The detail rows of the file at position i. *)
CallRow(run, c, i, d, n) ==
  Row("parser_calls", run, c, i, n, [fuel |-> d.calls[n].fuel, total |-> TotalFuel(d.calls[n])])
HotspotRow(run, c, i, n) == Row("hotspots", run, c, i, n, <<>>)
EventRow(run, c, i, n) == Row("events", run, c, i, n, <<>>)

LEMMA DetailRows ==
  ASSUME NEW run, NEW c, NEW i, NEW d
  PROVE  /\ Range(ParserCallRows(run, c, i, d)) = {CallRow(run, c, i, d, n) : n \in DOMAIN d.calls}
         /\ Range(HotspotRows(run, c, i, d)) = {HotspotRow(run, c, i, n) : n \in 1..d.hotspots}
         /\ Range(EventRows(run, c, i, d)) = {EventRow(run, c, i, n) : n \in 1..d.events}
BY DEF Range, ParserCallRows, HotspotRows, EventRows, CallRow, HotspotRow, EventRow

LEMMA RunRowsLeft ==
  ASSUME NEW run, NEW c, NEW parsed, IsParsed(parsed)
  PROVE  RowsLeft(RunRows(run, c, parsed))
           = {RunRow(run, c, parsed)}
               \cup UNION {Range(FileRows(run, c, i, parsed[i])) : i \in DOMAIN parsed}
<1> DEFINE f == RunRows(run, c, parsed)
           r0 == RunRow(run, c, parsed)
<1>1. /\ DOMAIN f = {0} \cup DOMAIN parsed
      /\ f[0] = <<r0>>
      /\ \A i \in DOMAIN parsed : f[i] = FileRows(run, c, i, parsed[i])
  BY DEF RunRows, IsParsed
<1>2. Range(<<r0>>) = {r0}
  <2> HIDE DEF r0
  <2>1. <<r0>> \in Seq(Range(<<r0>>)) /\ Len(<<r0>>) = 1 /\ <<r0>>[1] = r0
    BY Single
  <2>2. Range(<<r0>>) = {<<r0>>[i] : i \in 1..1}
    BY <2>1, RangeEquality, Zenon
  <2> QED BY <2>1, <2>2
<1> HIDE DEF f, r0
<1>3. RowsLeft(f) = Range(f[0]) \cup UNION {Range(f[i]) : i \in DOMAIN parsed}
  BY <1>1 DEF RowsLeft
<1> QED BY <1>1, <1>2, <1>3 DEF f, r0

(* The rows of a run, table by table. *)
LEMMA RunRowsByTable ==
  ASSUME NEW run, NEW c, NEW parsed, IsParsed(parsed),
         NEW R, R = RowsLeft(RunRows(run, c, parsed))
  PROVE  /\ RunRow(run, c, parsed) \in R
         /\ \A r \in R : r.call = c /\ (r.table # "diff_history" => r.run = run)
         /\ {r \in R : r.table = "files"} = {FileRow(run, c, i, parsed[i]) : i \in DOMAIN parsed}
         /\ {r \in R : r.table = "hotspots"}
              = UNION {{HotspotRow(run, c, i, n) : n \in 1..parsed[i].hotspots} : i \in DOMAIN parsed}
         /\ {r \in R : r.table = "parser_calls"}
              = UNION {{CallRow(run, c, i, parsed[i], n) : n \in DOMAIN parsed[i].calls} :
                       i \in DOMAIN parsed}
<1> DEFINE Row0 == RunRow(run, c, parsed)
           H(i) == HistoryRow(c, i)
           F(i) == FileRow(run, c, i, parsed[i])
           P(i) == {CallRow(run, c, i, parsed[i], n) : n \in DOMAIN parsed[i].calls}
           S(i) == {HotspotRow(run, c, i, n) : n \in 1..parsed[i].hotspots}
           E(i) == {EventRow(run, c, i, n) : n \in 1..parsed[i].events}
<1>1. ASSUME NEW i \in DOMAIN parsed
      PROVE  Range(FileRows(run, c, i, parsed[i])) = {H(i), F(i)} \cup P(i) \cup S(i) \cup E(i)
  <2>1. parsed[i] \in Diff
    BY DEF IsParsed
  <2> QED BY <2>1, FileRowsRange, DetailRows
<1>2. Row0.table = "runs" /\ Row0.run = run /\ Row0.call = c
  BY DEF RunRow, Row
<1>3. ASSUME NEW i \in DOMAIN parsed
      PROVE  /\ H(i).table = "diff_history" /\ H(i).call = c
             /\ F(i).table = "files" /\ F(i).run = run /\ F(i).call = c
             /\ \A r \in P(i) : r.table = "parser_calls" /\ r.run = run /\ r.call = c
             /\ \A r \in S(i) : r.table = "hotspots" /\ r.run = run /\ r.call = c
             /\ \A r \in E(i) : r.table = "events" /\ r.run = run /\ r.call = c
  BY DEF HistoryRow, FileRow, CallRow, HotspotRow, EventRow, Row
<1> HIDE DEF Row0, H, F, P, S, E
<1>4. R = {Row0} \cup UNION {{H(i), F(i)} \cup P(i) \cup S(i) \cup E(i) : i \in DOMAIN parsed}
  <2>1. R = {Row0} \cup UNION {Range(FileRows(run, c, i, parsed[i])) : i \in DOMAIN parsed}
    BY RunRowsLeft DEF Row0
  <2> QED BY <1>1, <2>1
<1>5. Row0 \in R /\ \A r \in R : r.call = c /\ (r.table # "diff_history" => r.run = run)
  BY <1>2, <1>3, <1>4
<1>6. {r \in R : r.table = "files"} = {F(i) : i \in DOMAIN parsed}
  BY <1>2, <1>3, <1>4
<1>7. {r \in R : r.table = "hotspots"} = UNION {S(i) : i \in DOMAIN parsed}
  BY <1>2, <1>3, <1>4
<1>8. {r \in R : r.table = "parser_calls"} = UNION {P(i) : i \in DOMAIN parsed}
  BY <1>2, <1>3, <1>4
<1> QED BY <1>5, <1>6, <1>7, <1>8 DEF Row0, F, P, S

-----------------------------------------------------------------------------
(****************************************************************************)
(* The totals of a run, against its rows.                                   *)
(****************************************************************************)
LEMMA NumberedFromOne ==
  ASSUME NEW T, NEW n \in Nat, NEW f, \A i \in 1..n : f[i] \in T,
         \A i, j \in 1..n : f[i] = f[j] => i = j,
         \A x \in T : \E i \in 1..n : f[i] = x
  PROVE  IsFiniteSet(T) /\ Cardinality(T) = n
<1> DEFINE g == [i \in 1..n |-> f[i]]
<1>1. IsFiniteSet(1..n) /\ Cardinality(1..n) = n
  BY FS_Interval
<1>2. /\ g \in [1..n -> T]
      /\ \A i, j \in 1..n : g[i] = g[j] => i = j
      /\ \A x \in T : \E i \in 1..n : g[i] = x
  OBVIOUS
<1> HIDE DEF g
<1>3. IsFiniteSet(T) /\ Cardinality(T) = Cardinality(1..n)
  BY <1>1, <1>2, SameSize, Zenon
<1> QED BY <1>1, <1>3

(* The greatest of finitely many numbers is not below any of them. *)
LEMMA MaxBounds ==
  ASSUME NEW f, IsFiniteSet(DOMAIN f), \A x \in DOMAIN f : f[x] \in Nat
  PROVE  MaxFunction(f) \in Nat /\ \A x \in DOMAIN f : f[x] <= MaxFunction(f)
<1> DEFINE S == DOMAIN f
           Greater == [p \in Nat \X Nat |-> IF p[1] > p[2] THEN p[1] ELSE p[2]]
           IsMax(k) ==
             k = [s \in SUBSET S |->
                    IF s = {} THEN 0
                    ELSE IF f[AnyOf(s)] > k[s \ {AnyOf(s)}] THEN f[AnyOf(s)]
                                                            ELSE k[s \ {AnyOf(s)}]]
           g == CHOOSE k : IsMax(k)
<1>1. /\ Greater \in [Nat \X Nat -> Nat]
      /\ \A m, n \in Nat : Greater[<<m, n>>] = IF m > n THEN m ELSE n
  OBVIOUS
<1> HIDE DEF Greater
<1>2. HasFold(Greater, f, S)
  BY <1>1, FoldExists
<1>3. PICK k \in [SUBSET S -> Nat] : \A s \in SUBSET S : k[s] = FoldOf(Greater, f, s, k)
  BY <1>2, Zenon DEF HasFold
<1>4. ASSUME NEW s \in SUBSET S, s # {}
      PROVE  /\ AnyOf(s) \in s /\ AnyOf(s) \in S /\ f[AnyOf(s)] \in Nat
             /\ s \ {AnyOf(s)} \in SUBSET S
  BY <1>4, AnyOfIsIn
<1>5. IsMax(k)
  <2>1. ASSUME NEW s \in SUBSET S
        PROVE  k[s] = IF s = {} THEN 0
                      ELSE IF f[AnyOf(s)] > k[s \ {AnyOf(s)}] THEN f[AnyOf(s)]
                                                              ELSE k[s \ {AnyOf(s)}]
    <3>1. CASE s = {}
      BY <1>3, <3>1 DEF FoldOf
    <3>2. CASE s # {}
      <4>1. f[AnyOf(s)] \in Nat /\ k[s \ {AnyOf(s)}] \in Nat
        BY <1>4, <3>2
      <4> QED BY <1>1, <1>3, <3>2, <4>1 DEF FoldOf
    <3> QED BY <3>1, <3>2
  <2> QED BY <2>1
<1>6. IsMax(g)
  <2>1. \E h : IsMax(h)
    BY <1>5
  <2> HIDE DEF IsMax
  <2> QED BY <2>1, Zenon
<1>7. MaxFunction(f) = g[S]
  BY Zenon DEF MaxFunction, FoldFunction, FoldFunctionOnSet, MapThenFoldSet, AnyOf
<1> HIDE DEF g
<1> DEFINE B == {s \in SUBSET S : g[s] \in Nat /\ \A x \in s : f[x] <= g[s]}
<1>8. {} \in B
  BY <1>6
<1>9. ASSUME NEW s \in SUBSET S, s # {}, s \ {AnyOf(s)} \in B PROVE s \in B
  <2> DEFINE a == AnyOf(s)
             r == s \ {a}
  <2>1. a \in s /\ f[a] \in Nat /\ r \in SUBSET S
    BY <1>4, <1>9
  <2>2. g[s] = IF f[a] > g[r] THEN f[a] ELSE g[r]
    BY <1>6, <1>9
  <2>3. g[r] \in Nat /\ \A x \in r : f[x] <= g[r]
    BY <1>9
  <2> HIDE DEF a
  <2>4. g[s] \in Nat /\ f[a] <= g[s] /\ g[r] <= g[s]
    BY <2>1, <2>2, <2>3
  <2>5. ASSUME NEW x \in s PROVE f[x] <= g[s]
    <3>1. CASE x = a
      BY <2>4, <3>1
    <3>2. CASE x # a
      <4>1. f[x] <= g[r] /\ f[x] \in Nat
        BY <2>3, <3>2
      <4> QED BY <2>3, <2>4, <4>1
    <3> QED BY <3>1, <3>2
  <2> QED BY <2>4, <2>5
<1>10. S \in B
  <2> HIDE DEF B
  <2> QED BY <1>8, <1>9, AllSubsets
<1> QED BY <1>7, <1>10

(* The sum of the totals of some rows is the number of what they count. *)
Units(rows) == {a \in rows \X Nat : a[2] \in 1..a[1].data.total}

LEMMA UnitsOfARow ==
  ASSUME NEW rows, NEW r \in rows, r.data.total \in Nat,
         NEW U, \A a : a \in U <=> (a \in Units(rows) /\ a[1] = r)
  PROVE  IsFiniteSet(U) /\ Cardinality(U) = r.data.total
<1> DEFINE n == r.data.total
           f == [k \in 1..n |-> <<r, k>>]
<1>1. \A k \in 1..n : f[k] \in U
  BY DEF Units
<1>2. \A j, k \in 1..n : f[j] = f[k] => j = k
  OBVIOUS
<1>3. \A a \in U : \E k \in 1..n : f[k] = a
  BY DEF Units
<1>0. n \in Nat
  OBVIOUS
<1> HIDE DEF n, f
<1>4. IsFiniteSet(U) /\ Cardinality(U) = n
  BY <1>0, <1>1, <1>2, <1>3, NumberedFromOne
<1> QED BY <1>4 DEF n

LEMMA SumOfDataCounts ==
  ASSUME NEW rows, IsFiniteSet(rows), \A r \in rows : r.data.total \in Nat
  PROVE  /\ IsFiniteSet(Units(rows))
         /\ SumOfData(rows, LAMBDA r : r.data.total) = Cardinality(Units(rows))
<1> DEFINE f == [r \in rows |-> r.data.total]
           h == [a \in Units(rows) |-> a[1]]
           IsSum(k) ==
             k = [s \in SUBSET rows |->
                    IF s = {} THEN 0 ELSE AnyOf(s).data.total + k[s \ {AnyOf(s)}]]
           g == CHOOSE k : IsSum(k)
<1>1. \A r \in rows : f[r] \in Nat
  OBVIOUS
<1>2. HasSums(f, rows)
  BY <1>1, SumsExist
<1>3. PICK k \in [SUBSET rows -> Nat] : Sums(f, rows, k)
  BY <1>2, Zenon DEF HasSums
<1>4. ASSUME NEW s \in SUBSET rows, s # {} PROVE f[AnyOf(s)] = AnyOf(s).data.total
  <2>1. AnyOf(s) \in rows
    BY <1>4, AnyOfIsIn
  <2> QED BY <2>1
<1>5. IsSum(k)
  <2>1. ASSUME NEW s \in SUBSET rows
        PROVE  k[s] = IF s = {} THEN 0 ELSE AnyOf(s).data.total + k[s \ {AnyOf(s)}]
    BY <1>3, <1>4 DEF Sums
  <2> QED BY <2>1
<1>6. IsSum(g)
  <2>1. \E x : IsSum(x)
    BY <1>5
  <2> HIDE DEF IsSum
  <2> QED BY <2>1, Zenon
<1>7. SumOfData(rows, LAMBDA r : r.data.total) = g[rows]
  BY Zenon DEF SumOfData, FoldSet, MapThenFoldSet, AnyOf
<1> HIDE DEF g
<1>8. Sums(f, rows, g)
  <2>1. ASSUME NEW s \in SUBSET rows
        PROVE  g[s] = IF s = {} THEN 0 ELSE f[AnyOf(s)] + g[s \ {AnyOf(s)}]
    <3>1. g[s] = IF s = {} THEN 0 ELSE AnyOf(s).data.total + g[s \ {AnyOf(s)}]
      BY <1>6
    <3> QED BY <1>4, <3>1
  <2> HIDE DEF f
  <2> QED BY <2>1 DEF Sums
<1>9. \A a \in Units(rows) : h[a] \in rows
  BY DEF Units
<1>10. ASSUME NEW r \in rows
       PROVE  LET U == {a \in Units(rows) : h[a] = r}
              IN  IsFiniteSet(U) /\ f[r] = Cardinality(U)
  <2> DEFINE U == {a \in Units(rows) : h[a] = r}
  <2>1. \A a : a \in U <=> (a \in Units(rows) /\ a[1] = r)
    OBVIOUS
  <2>2. f[r] = r.data.total /\ r.data.total \in Nat
    OBVIOUS
  <2> HIDE DEF U, f
  <2>3. IsFiniteSet(U) /\ Cardinality(U) = r.data.total
    BY <2>1, <2>2, UnitsOfARow, Zenon
  <2> QED BY <2>2, <2>3 DEF U
<1> HIDE DEF f, h
<1>11. IsFiniteSet(Units(rows))
  BY <1>9, <1>10, FiniteFibres
<1>12. g[rows] = Cardinality(Units(rows))
  BY <1>8, <1>9, <1>10, <1>11, SumsCount
<1> QED BY <1>7, <1>11, <1>12

LEMMA FilesOfARun ==
  ASSUME NEW run, NEW c, NEW parsed, IsParsed(parsed)
  PROVE  Cardinality({FileRow(run, c, i, parsed[i]) : i \in DOMAIN parsed})
           = Cardinality(DOMAIN parsed)
<1> DEFINE D == DOMAIN parsed
           T == {FileRow(run, c, i, parsed[i]) : i \in D}
           f == [i \in D |-> FileRow(run, c, i, parsed[i])]
<1>1. \A i \in D : FileRow(run, c, i, parsed[i]).pos = i
  BY DEF FileRow, Row
<1>2. /\ f \in [D -> T]
      /\ \A i, j \in D : f[i] = f[j] => i = j
      /\ \A x \in T : \E i \in D : f[i] = x
  BY <1>1
<1>3. IsFiniteSet(D)
  BY DEF IsParsed
<1> HIDE DEF D, T, f
<1>4. Cardinality(T) = Cardinality(D)
  BY <1>2, <1>3, SameSize, Zenon
<1> QED BY <1>4 DEF D, T

LEMMA HotspotsOfARun ==
  ASSUME NEW run, NEW c, NEW parsed, IsParsed(parsed),
         NEW A, A = UNION {{HotspotRow(run, c, i, n) : n \in 1..parsed[i].hotspots} : i \in DOMAIN parsed}
  PROVE  Cardinality(A) = RunRow(run, c, parsed).data.hotspots
<1> DEFINE D == DOMAIN parsed
           s == [i \in D |-> FileFuelSummary(parsed[i])]
           f == [i \in DOMAIN s |-> s[i].hotspots]
           h == [a \in A |-> a.pos]
           r(i, n) == HotspotRow(run, c, i, n)
<1>1. RunRow(run, c, parsed).data.hotspots = SumFunction(f)
  BY DEF RunRow, Row
<1>2. DOMAIN f = D /\ \A i \in D : f[i] = parsed[i].hotspots /\ f[i] \in Nat
  BY DEF FileFuelSummary, IsParsed, Diff
<1>3. \A i, n : r(i, n).pos = i /\ r(i, n).n = n
  BY DEF HotspotRow, Row
<1>4. \A a \in A : h[a] = a.pos
  OBVIOUS
<1>5. A = UNION {{r(i, n) : n \in 1..f[i]} : i \in D}
  BY <1>2
<1>6. IsFiniteSet(D)
  BY DEF IsParsed
<1> HIDE DEF D, s, f, h, r
<1>7. \A a \in A : h[a] \in D
  BY <1>3, <1>4, <1>5
<1> DEFINE F == [i \in D |-> {a \in A : h[a] = i}]
<1>8. \A i \in D : \A a : a \in F[i] <=> (a \in A /\ h[a] = i)
  OBVIOUS
<1> HIDE DEF F
<1>9. ASSUME NEW i \in D
      PROVE  IsFiniteSet(F[i]) /\ f[i] = Cardinality(F[i])
  <2> DEFINE U == F[i]
             m == f[i]
             g == [n \in 1..m |-> r(i, n)]
  <2>1. U = {r(i, n) : n \in 1..m}
    BY <1>3, <1>4, <1>5, <1>8
  <2>2. m \in Nat
    BY <1>2
  <2> HIDE DEF U, m
  <2>3. /\ \A n \in 1..m : g[n] \in U
        /\ \A k, n \in 1..m : g[k] = g[n] => k = n
        /\ \A a \in U : \E n \in 1..m : g[n] = a
    BY <1>3, <2>1
  <2> HIDE DEF g
  <2>4. IsFiniteSet(U) /\ Cardinality(U) = m
    BY <2>2, <2>3, NumberedFromOne, Zenon
  <2> QED BY <2>4 DEF U, m
<1>10. SumFunction(f) = Cardinality(A)
  <2>1. IsFiniteSet(DOMAIN f) /\ \A a \in A : h[a] \in DOMAIN f
    BY <1>2, <1>6, <1>7
  <2>2. /\ \A x \in DOMAIN f : \A a : a \in F[x] <=> (a \in A /\ h[a] = x)
        /\ \A x \in DOMAIN f : IsFiniteSet(F[x]) /\ f[x] = Cardinality(F[x])
    BY <1>2, <1>8, <1>9
  <2> DEFINE B == A
  <2>3. /\ \A a \in B : h[a] \in DOMAIN f
        /\ \A x \in DOMAIN f : \A a : a \in F[x] <=> (a \in B /\ h[a] = x)
    BY <2>1, <2>2, Zenon
  <2> HIDE DEF B
  <2>4. /\ IsFiniteSet(DOMAIN f)
        /\ \A x \in DOMAIN f : IsFiniteSet(F[x]) /\ f[x] = Cardinality(F[x])
    BY <2>1, <2>2, Zenon
  <2>5. IsFiniteSet(B) /\ SumFunction(f) = Cardinality(B)
    BY <2>3, <2>4, SumOfParts
  <2> QED BY <2>5 DEF B
<1> QED BY <1>1, <1>10

(* What the calls of a file and of a run use. *)
TotalOf(rows) == SumOfData(rows, LAMBDA r : r.data.total)

LEMMA CallsOfARun ==
  ASSUME NEW run, NEW c, NEW parsed, IsParsed(parsed),
         NEW A, A = UNION {{CallRow(run, c, i, parsed[i], n) : n \in DOMAIN parsed[i].calls} :
                           i \in DOMAIN parsed}
  PROVE  /\ TotalOf(A) = RunRow(run, c, parsed).data.total
         /\ \A r \in A : r.data.fuel <= RunRow(run, c, parsed).data.peak
<1> DEFINE D == DOMAIN parsed
           C(i) == DOMAIN parsed[i].calls
           s == [i \in D |-> FileFuelSummary(parsed[i])]
           totals == [i \in DOMAIN s |-> s[i].total]
           peaks == [i \in DOMAIN s |-> s[i].peak]
           total(i) == [n \in C(i) |-> TotalFuel(parsed[i].calls[n])]
           fuel(i) == [n \in C(i) |-> parsed[i].calls[n].fuel]
           r(i, n) == CallRow(run, c, i, parsed[i], n)
<1>1. /\ RunRow(run, c, parsed).data.total = SumFunction(totals)
      /\ RunRow(run, c, parsed).data.peak = MaxFunction(peaks)
  BY DEF RunRow, Row
<1>2. ASSUME NEW i \in D
      PROVE  /\ IsFiniteSet(C(i))
             /\ \A n \in C(i) : total(i)[n] \in Nat /\ fuel(i)[n] \in Nat
  <2>1. parsed[i].calls \in Seq([fuel : Nat, total : Nat])
    BY DEF IsParsed, Diff
  <2>2. /\ C(i) = 1..Len(parsed[i].calls) /\ Len(parsed[i].calls) \in Nat
        /\ \A n \in C(i) : parsed[i].calls[n] \in [fuel : Nat, total : Nat]
    BY <2>1, LenProperties, ElementOfSeq
  <2>3. IsFiniteSet(C(i))
    BY <2>2, FS_Interval
  <2> QED BY <2>2, <2>3 DEF TotalFuel
<1>3. /\ DOMAIN totals = D /\ DOMAIN peaks = D
      /\ \A i \in D : totals[i] = SumFunction(total(i)) /\ peaks[i] = MaxFunction(fuel(i))
      /\ \A i \in D : DOMAIN total(i) = C(i) /\ DOMAIN fuel(i) = C(i)
  BY DEF FileFuelSummary
<1>4. \A i \in D : \A n \in C(i) :
        /\ r(i, n).pos = i /\ r(i, n).n = n
        /\ r(i, n).data.total = total(i)[n] /\ r(i, n).data.fuel = fuel(i)[n]
  BY DEF CallRow, Row
<1>5. A = UNION {{r(i, n) : n \in C(i)} : i \in D}
  OBVIOUS
<1>6. IsFiniteSet(D)
  BY DEF IsParsed
<1> HIDE DEF D, C, s, totals, peaks, total, fuel, r
<1>7. \A i \in D : \A n \in C(i) : r(i, n) \in A
  BY <1>5
<1>8. \A a \in A : a.pos \in D /\ a.n \in C(a.pos) /\ a = r(a.pos, a.n)
  BY <1>4, <1>5
<1>9. \A a \in A : a.data.total \in Nat /\ a.data.fuel \in Nat
  BY <1>2, <1>4, <1>8
<1>10. IsFiniteSet(A) /\ IsFiniteSet(Units(A))
  <2> DEFINE pos == [a \in A |-> a.pos]
  <2>1. ASSUME NEW i \in D PROVE IsFiniteSet({a \in A : pos[a] = i})
    <3> DEFINE g == [n \in C(i) |-> r(i, n)]
               T == {a \in A : pos[a] = i}
    <3>1. \A n \in C(i) : g[n] \in T
      BY <1>4, <1>7
    <3>2. \A a \in T : \E n \in C(i) : g[n] = a
      BY <1>8
    <3>3. g \in Surjection(C(i), T)
      BY <3>1, <3>2 DEF Surjection
    <3> HIDE DEF g, T
    <3>4. IsFiniteSet(T)
      BY <1>2, <3>3, FS_Surjection
    <3> QED BY <3>4 DEF T
  <2>2. \A a \in A : pos[a] \in D
    BY <1>8
  <2> HIDE DEF pos
  <2>3. IsFiniteSet(A)
    BY <1>6, <2>1, <2>2, FiniteFibres
  <2> QED BY <1>9, <2>3, SumOfDataCounts
(* The units of a file's calls are what the file's total counts. *)
<1> DEFINE F == [i \in D |-> {u \in Units(A) : u[1].pos = i}]
<1>0. \A i \in D : \A u : u \in F[i] <=> (u \in Units(A) /\ u[1].pos = i)
  OBVIOUS
<1> HIDE DEF F
<1>11. ASSUME NEW i \in D
       PROVE  IsFiniteSet(F[i]) /\ totals[i] = Cardinality(F[i])
  <2> DEFINE U == F[i]
             f == total(i)
             h == [u \in U |-> u[1].n]
             G == [n \in C(i) |-> {u \in U : h[u] = n}]
  <2>1. \A u \in U : /\ u \in Units(A) /\ u[1].pos = i
                     /\ h[u] = u[1].n /\ h[u] \in C(i) /\ u[1] \in A /\ u[1] = r(i, h[u])
    BY <1>0, <1>8 DEF Units
  <2>2. \A n \in C(i) : \A u : u \in G[n] <=> (u \in U /\ h[u] = n)
    OBVIOUS
  <2> HIDE DEF G
  <2>3. ASSUME NEW n \in C(i)
        PROVE  IsFiniteSet(G[n]) /\ f[n] = Cardinality(G[n])
    <3>1. r(i, n) \in A /\ r(i, n).data.total = f[n] /\ f[n] \in Nat
      BY <1>2, <1>4, <1>7
    <3>2. ASSUME NEW u, u \in G[n] PROVE u \in Units(A) /\ u[1] = r(i, n)
      <4>1. u \in U /\ h[u] = n
        BY <2>2, <3>2, Zenon
      <4>2. u \in Units(A) /\ u[1] = r(i, h[u])
        BY <2>1, <4>1, Zenon
      <4> QED BY <4>1, <4>2, Zenon
    <3>3. ASSUME NEW u \in Units(A), u[1] = r(i, n) PROVE u \in G[n]
      <4>1. u[1].pos = i /\ u[1].n = n
        BY <1>4, <3>3
      <4>2. u \in U
        BY <1>0, <4>1
      <4> QED BY <2>1, <2>2, <4>1, <4>2
    <3>4. \A u : u \in G[n] <=> (u \in Units(A) /\ u[1] = r(i, n))
      BY <3>2, <3>3
    <3> DEFINE x == r(i, n)
    <3> HIDE DEF x
    <3>5. x \in A /\ x.data.total = f[n] /\ x.data.total \in Nat
      BY <3>1 DEF x
    <3>6. \A u : u \in G[n] <=> (u \in Units(A) /\ u[1] = x)
      BY <3>4 DEF x
    <3>7. IsFiniteSet(G[n]) /\ Cardinality(G[n]) = x.data.total
      BY <3>5, <3>6, UnitsOfARow, Zenon
    <3> QED BY <3>5, <3>7
  <2>4. IsFiniteSet(DOMAIN f) /\ DOMAIN f = C(i)
    BY <1>2, <1>3
  <2>5. SumFunction(f) = totals[i]
    BY <1>3
  <2> HIDE DEF U, h, f
  <2>6. SumFunction(f) = Cardinality(U) /\ IsFiniteSet(U)
    <3>1. \A u \in U : h[u] \in DOMAIN f
      BY <2>1, <2>4
    <3>2. /\ \A n \in DOMAIN f : \A u : u \in G[n] <=> (u \in U /\ h[u] = n)
          /\ \A n \in DOMAIN f : IsFiniteSet(G[n]) /\ f[n] = Cardinality(G[n])
      BY <2>2, <2>3, <2>4
    <3> QED BY <2>4, <3>1, <3>2, SumOfParts
  <2> QED BY <2>5, <2>6 DEF U
<1>12. SumFunction(totals) = Cardinality(Units(A))
  <2> DEFINE h == [u \in Units(A) |-> u[1].pos]
  <2>1. IsFiniteSet(DOMAIN totals) /\ \A u \in Units(A) : h[u] \in DOMAIN totals
    BY <1>3, <1>6, <1>8 DEF Units
  <2>2. /\ \A i \in DOMAIN totals : \A u : u \in F[i] <=> (u \in Units(A) /\ h[u] = i)
        /\ \A i \in DOMAIN totals : IsFiniteSet(F[i]) /\ totals[i] = Cardinality(F[i])
    BY <1>0, <1>3, <1>11
  <2> DEFINE V == Units(A)
  <2>3. /\ \A u \in V : h[u] \in DOMAIN totals
        /\ \A i \in DOMAIN totals : \A u : u \in F[i] <=> (u \in V /\ h[u] = i)
    BY <2>1, <2>2, Zenon
  <2> HIDE DEF h, V
  <2>4. IsFiniteSet(V) /\ SumFunction(totals) = Cardinality(V)
    BY <2>1, <2>2, <2>3, SumOfParts
  <2> QED BY <2>4 DEF V
<1>13. TotalOf(A) = Cardinality(Units(A))
  <2>1. SumOfData(A, LAMBDA a : a.data.total) = Cardinality(Units(A))
    BY <1>9, <1>10, SumOfDataCounts
  <2> QED BY <2>1, Zenon DEF TotalOf
<1>14. ASSUME NEW a \in A PROVE a.data.fuel <= MaxFunction(peaks)
  <2> DEFINE i == a.pos
  <2>1. i \in D /\ a.n \in C(i) /\ a.data.fuel = fuel(i)[a.n]
    BY <1>4, <1>8
  <2>2. \A j \in D : MaxFunction(fuel(j)) \in Nat /\ \A n \in C(j) : fuel(j)[n] <= MaxFunction(fuel(j))
    BY <1>2, <1>3, MaxBounds
  <2>3. MaxFunction(peaks) \in Nat /\ \A j \in D : peaks[j] <= MaxFunction(peaks)
    BY <1>3, <1>6, <2>2, MaxBounds
  <2>4. a.data.fuel <= peaks[i] /\ peaks[i] <= MaxFunction(peaks) /\ peaks[i] \in Nat
    BY <1>3, <2>1, <2>2, <2>3
  <2> QED BY <1>9, <2>3, <2>4
<1> QED BY <1>1, <1>12, <1>13, <1>14

-----------------------------------------------------------------------------
(****************************************************************************)
(* A run whose id was returned is whole.                                    *)
(****************************************************************************)
OfCall(p, c) == {r \in db[p] : r.call = c}

(* The rows are all those of a run the call c may have been asked for.      *)
WholePlan(rows, c) == \E plan \in RunPlans(c) : rows = RowsLeft(plan)

(* What a call has recorded and has still to record is the run it was asked *)
(* for, and it has not returned.                                            *)
Pending(t) ==
  pc[t] # "idle" =>
    /\ job[t].call \notin acked
    /\ \A r \in RowsLeft(todo[t]) : r.call = job[t].call
    /\ job[t].op = "run" =>
         WholePlan(OfCall(key[t], job[t].call) \cup RowsLeft(todo[t]), job[t].call)

(* No two calls record as one, no two runs of a file have the same id.      *)
Apart(t, u) == t # u /\ pc[t] # "idle" /\ pc[u] # "idle" => job[t].call # job[u].call
RunIdsDiffer(p) == \A r, q \in RowsIn(p, "runs") : r.run = q.run => r = q

Whole ==
  /\ \A t \in Thread : Pending(t)
  /\ \A t, u \in Thread : Apart(t, u)
  /\ \A c \in acked : \E p \in Path : WholePlan(OfCall(p, c), c)
  /\ \A p \in Path : RunIdsDiffer(p)

LEMMA WholeInit == Init => Whole
  BY NothingLeft DEF Init, Whole, Pending, Apart, RunIdsDiffer, RowsIn

LEMMA PlansAreOfTheirCall ==
  ASSUME NEW c, NEW plan \in Plans(c)
  PROVE  \A r \in RowsLeft(plan) : r.call = c
<1>1. CASE plan = <<>>
  BY <1>1, NothingLeft
<1>2. CASE plan = <<<<HistoryRow(c, 1)>>>>
  <2> DEFINE h == HistoryRow(c, 1)
  <2>1. h.call = c
    BY DEF HistoryRow, Row
  <2> HIDE DEF h
  <2>2. /\ DOMAIN plan = {1} /\ plan[1] = <<h>>
        /\ DOMAIN <<h>> = {1} /\ <<h>>[1] = h
    BY <1>2 DEF h
  <2>3. Range(<<h>>) = {h}
    BY <2>2 DEF Range
  <2>4. RowsLeft(plan) = {h}
    BY <2>2, <2>3 DEF RowsLeft
  <2> QED BY <2>1, <2>4
<1>3. CASE plan \in RunPlans(c)
  <2>1. PICK diffs \in Batch, run \in RunId \cup {c} : plan = RunRows(run, c, Parsed(diffs))
    BY <1>3 DEF RunPlans
  <2> DEFINE parsed == Parsed(diffs)
             R == RowsLeft(RunRows(run, c, parsed))
  <2>2. IsParsed(parsed) /\ R = RowsLeft(RunRows(run, c, parsed))
    BY ParsedIsParsed
  <2> HIDE DEF parsed, R
  <2>3. \A r \in R : r.call = c
    BY <2>2, RunRowsByTable
  <2> QED BY <2>1, <2>3 DEF parsed, R
<1> QED BY <1>1, <1>2, <1>3, Zenon DEF Plans

LEMMA WholeStep == Inv /\ Whole /\ [Next]_vars => Whole'
<1> SUFFICES ASSUME Inv, Whole, [Next]_vars PROVE Whole'
  OBVIOUS
<1>0. Hands /\ Working /\ Recording
  BY DEF Inv
<1>1. CASE Quiet
  <2>1. UNCHANGED <<db, key, job, todo, acked>>
    BY <1>1 DEF Quiet
  <2>2. \A t \in Thread : pc'[t] = "idle" <=> pc[t] = "idle"
    BY <1>1 DEF Quiet
  <2>3. \A p, c : OfCall(p, c)' = OfCall(p, c)
    BY <2>1 DEF OfCall
  <2>4. \A t \in Thread : Pending(t)'
    BY <2>1, <2>2, <2>3 DEF Whole, Pending
  <2>5. \A t, u \in Thread : Apart(t, u)'
    BY <2>1, <2>2 DEF Whole, Apart
  <2>6. \A c \in acked' : \E p \in Path : WholePlan(OfCall(p, c)', c)
    BY <2>1, <2>3 DEF Whole
  <2>7. \A p \in Path : RunIdsDiffer(p)'
    BY <2>1 DEF Whole, RunIdsDiffer, RowsIn
  <2> QED BY <2>4, <2>5, <2>6, <2>7, Zenon DEF Whole
<1>2. CASE Exit
  <2>1. UNCHANGED <<db, acked>> /\ \A t \in Thread : pc'[t] = "idle"
    BY <1>2 DEF Exit
  <2>2. \A p, c : OfCall(p, c)' = OfCall(p, c)
    BY <2>1 DEF OfCall
  <2>3. \A t \in Thread : Pending(t)'
    BY <2>1 DEF Pending
  <2>4. \A t, u \in Thread : Apart(t, u)'
    BY <2>1 DEF Apart
  <2>5. \A c \in acked' : \E p \in Path : WholePlan(OfCall(p, c)', c)
    BY <2>1, <2>2 DEF Whole
  <2>6. \A p \in Path : RunIdsDiffer(p)'
    BY <2>1 DEF Whole, RunIdsDiffer, RowsIn
  <2> QED BY <2>3, <2>4, <2>5, <2>6, Zenon DEF Whole
<1>3. ASSUME NEW t \in Thread, Starts(t) PROVE Whole'
  <2> DEFINE c == calls + 1
  <2>1. PICK p \in Path, op \in {"open", "query", "close", "diff", "run"}, rows \in Plans(c) :
          /\ pc[t] = "idle"
          /\ key' = [key EXCEPT ![t] = p]
          /\ job' = [job EXCEPT ![t] = [op |-> op, call |-> c]]
          /\ todo' = [todo EXCEPT ![t] = rows]
          /\ op = "run" => rows \in RunPlans(c)
          /\ \E label \in {"lookup", "remove"} : pc' = [pc EXCEPT ![t] = label]
          /\ UNCHANGED <<db, acked>>
    BY <1>3, Zenon DEF Starts, Goto
  <2>2. /\ job'[t].op = op /\ job'[t].call = c /\ todo'[t] = rows /\ key'[t] = p
        /\ \A u \in Thread : u # t => /\ pc'[u] = pc[u] /\ key'[u] = key[u]
                                      /\ job'[u] = job[u] /\ todo'[u] = todo[u]
    BY <1>0, <2>1 DEF Hands, Working
  <2>3. c \notin 1..calls /\ c \notin acked
    BY <1>0 DEF Working
  <2> HIDE DEF c
  <2>4. \A q, d : OfCall(q, d)' = OfCall(q, d)
    BY <2>1 DEF OfCall
  <2>5. OfCall(p, c) = {}
    BY <1>0, <2>3 DEF OfCall, Recording, RowOK
  <2>6. Pending(t)'
    <3>1. \A r \in RowsLeft(rows) : r.call = c
      BY <2>1, PlansAreOfTheirCall
    <3>2. op = "run" => WholePlan(OfCall(p, c) \cup RowsLeft(rows), c)
      BY <2>1, <2>5 DEF WholePlan
    <3>3. OfCall(key[t], job[t].call)' = OfCall(p, c)
      BY <2>1, <2>2 DEF OfCall
    <3>4. RowsLeft(todo[t])' = RowsLeft(rows)
      BY <2>2 DEF RowsLeft
    <3>5. job'[t].call \notin acked' /\ job'[t].call = c /\ job'[t].op = op
      BY <2>1, <2>2, <2>3
    <3> QED BY <3>1, <3>2, <3>3, <3>4, <3>5 DEF Pending
  <2>7. ASSUME NEW u \in Thread, u # t PROVE Pending(u)'
    <3>1. Pending(u)
      BY DEF Whole
    <3>2. OfCall(key[u], job[u].call)' = OfCall(key[u], job[u].call)
      BY <2>1, <2>2, <2>7 DEF OfCall
    <3>3. RowsLeft(todo[u])' = RowsLeft(todo[u])
      BY <2>2, <2>7 DEF RowsLeft
    <3>4. pc'[u] = pc[u] /\ job'[u] = job[u] /\ acked' = acked
      BY <2>1, <2>2, <2>7
    <3> QED BY <3>1, <3>2, <3>3, <3>4 DEF Pending
  <2>8. ASSUME NEW u \in Thread, NEW v \in Thread PROVE Apart(u, v)'
    <3>1. \A w \in Thread : pc[w] # "idle" => job[w].call # c
      BY <1>0, <2>3 DEF Working
    <3> QED BY <2>2, <3>1 DEF Whole, Apart
  <2>9. \A d \in acked' : \E q \in Path : WholePlan(OfCall(q, d)', d)
    BY <2>1, <2>4 DEF Whole
  <2>10. \A q \in Path : RunIdsDiffer(q)'
    BY <2>1 DEF Whole, RunIdsDiffer, RowsIn
  <2>11. \A u \in Thread : Pending(u)'
    BY <2>6, <2>7
  <2> QED BY <2>8, <2>9, <2>10, <2>11, Zenon DEF Whole
<1>4. ASSUME NEW t \in Thread, Ends(t) PROVE Whole'
  <2>1. /\ UNCHANGED <<db, acked>>
        /\ pc'[t] = "idle"
        /\ \A u \in Thread : u # t => /\ pc'[u] = pc[u] /\ key'[u] = key[u]
                                      /\ job'[u] = job[u] /\ todo'[u] = todo[u]
    BY <1>0, <1>4 DEF Ends, Finish, Goto, Hands, Working
  <2>2. \A q, d : OfCall(q, d)' = OfCall(q, d)
    BY <2>1 DEF OfCall
  <2>3. \A u \in Thread : Pending(u)'
    BY <2>1, <2>2 DEF Whole, Pending
  <2>4. \A u, v \in Thread : Apart(u, v)'
    BY <2>1 DEF Whole, Apart
  <2>5. \A d \in acked' : \E q \in Path : WholePlan(OfCall(q, d)', d)
    BY <2>1, <2>2 DEF Whole
  <2>6. \A q \in Path : RunIdsDiffer(q)'
    BY <2>1 DEF Whole, RunIdsDiffer, RowsIn
  <2> QED BY <2>3, <2>4, <2>5, <2>6, Zenon DEF Whole
<1>5. ASSUME NEW t \in Thread, InsertNext(t) PROVE Whole'
  <2>p. PICK p \in Path : p = key[t]
    BY <1>0, <1>5 DEF Hands, InsertNext
  <2>c. PICK c \in 1..calls : c = job[t].call
    BY <1>0, <1>5 DEF Working, InsertNext
  <2> DEFINE new == NextRow(t)
  <2>1. /\ pc[t] = "use" /\ DOMAIN todo[t] # {}
        /\ ~ Taken(t, new)
        /\ db' = [db EXCEPT ![p] = @ \cup {new}]
    BY <1>5, <2>p DEF InsertNext, Insert
  <2>2. p \in Path /\ pc[t] # "idle"
    BY <1>0, <2>1 DEF Hands
  <2>3. \A q \in Path : db'[q] = IF q = p THEN db[p] \cup {new} ELSE db[q]
    BY <1>0, <2>1, <2>2 DEF Working
  <2>4. RowsLeft(todo[t]) = RowsLeft(Rest(t)) \cup {new}
    BY <1>0, <2>1, RestLeaves DEF Recording
  <2>5. new.call = c
    BY <2>c, <2>2, <2>4 DEF Whole, Pending
  <2>6. \A u \in Thread : u # t => /\ pc'[u] = pc[u] /\ key'[u] = key[u]
                                   /\ job'[u] = job[u] /\ todo'[u] = todo[u]
    BY <1>0, <1>5 DEF InsertNext, Insert, Finish, Goto, Hands, Working
  <2>7. \/ pc'[t] = "idle" /\ DOMAIN Rest(t) = {}
           /\ acked' = IF job[t].op = "run" THEN acked \cup {c} ELSE acked
        \/ /\ pc'[t] = pc[t] /\ key'[t] = p /\ job'[t] = job[t] /\ todo'[t] = Rest(t)
           /\ acked' = acked
    <3>1. CASE DOMAIN Rest(t) = {}
      BY <1>0, <1>5, <2>p, <2>c, <3>1 DEF InsertNext, Insert, Finish, Goto, Hands, Working
    <3>2. CASE DOMAIN Rest(t) # {}
      BY <1>0, <1>5, <2>p, <2>c, <3>2 DEF InsertNext, Insert, Working
    <3> QED BY <3>1, <3>2
  <2>8. ~ (new.table = "runs" /\ \E r \in db[p] : r.table = "runs" /\ r.run = new.run)
    BY <2>1, <2>p DEF Taken
  <2>9. c \notin acked
    BY <2>c, <2>2 DEF Whole, Pending
  <2>10. \A u \in Thread : u # t /\ pc[u] # "idle" => job[u].call # c
    BY <2>c, <2>2 DEF Whole, Apart
  <2>11. /\ \A r \in RowsLeft(todo[t]) : r.call = c
         /\ job[t].op = "run" => WholePlan(OfCall(p, c) \cup RowsLeft(todo[t]), c)
    BY <2>p, <2>c, <2>2 DEF Whole, Pending
  <2> HIDE DEF new
  <2>12. \A q \in Path : \A d : d # c => OfCall(q, d)' = OfCall(q, d)
    BY <2>3, <2>5 DEF OfCall
  <2>13. OfCall(p, c)' = OfCall(p, c) \cup {new}
    BY <2>2, <2>3, <2>5 DEF OfCall
  <2>14. job[t].op = "run" => WholePlan(OfCall(p, c)' \cup RowsLeft(Rest(t)), c)
    <3>1. OfCall(p, c) \cup RowsLeft(todo[t]) = OfCall(p, c)' \cup RowsLeft(Rest(t))
      BY <2>4, <2>13
    <3> QED BY <2>11, <3>1
  <2>15. ASSUME NEW u \in Thread, u # t PROVE Pending(u)'
    <3> SUFFICES ASSUME pc[u] # "idle" PROVE Pending(u)'
      BY <2>6, <2>15 DEF Pending
    <3>1. key[u] \in Path /\ job[u].call # c
      BY <1>0, <2>10, <2>15 DEF Hands
    <3>2. Pending(u)
      BY DEF Whole
    <3>3. OfCall(key[u], job[u].call)' = OfCall(key[u], job[u].call)
      <4>1. key'[u] = key[u] /\ job'[u].call = job[u].call
        BY <2>6, <2>15
      <4> QED BY <2>12, <3>1, <4>1 DEF OfCall
    <3>4. acked' \in {acked, acked \cup {c}}
      BY <2>7
    <3>5. pc'[u] = pc[u] /\ job'[u] = job[u] /\ todo'[u] = todo[u]
      BY <2>6, <2>15
    <3>6. job'[u].call \notin acked'
      BY <3>1, <3>2, <3>4, <3>5 DEF Pending
    <3>7. RowsLeft(todo[u])' = RowsLeft(todo[u])
      BY <3>5 DEF RowsLeft
    <3> QED BY <3>2, <3>3, <3>5, <3>6, <3>7 DEF Pending
  <2>16. Pending(t)'
    <3>1. CASE pc'[t] = "idle"
      BY <3>1 DEF Pending
    <3>2. CASE pc'[t] # "idle"
      <4>1. key'[t] = p /\ job'[t] = job[t] /\ todo'[t] = Rest(t) /\ acked' = acked
        BY <2>7, <3>2
      <4>2. OfCall(key[t], job[t].call)' = OfCall(p, c)'
        BY <2>c, <4>1 DEF OfCall
      <4>3. RowsLeft(todo[t])' = RowsLeft(Rest(t))
        BY <4>1
      <4>4. job'[t].call = c /\ job'[t].op = job[t].op
        BY <2>c, <4>1
      <4> QED BY <2>4, <2>9, <2>11, <2>14, <4>1, <4>2, <4>3, <4>4 DEF Pending
    <3> QED BY <3>1, <3>2
  <2>17. \A u, v \in Thread : Apart(u, v)'
    <3>1. \A u \in Thread : pc'[u] # "idle" => pc[u] # "idle" /\ job'[u] = job[u]
      BY <2>2, <2>6, <2>7
    <3> QED BY <3>1 DEF Whole, Apart
  <2>18. ASSUME NEW d \in acked' PROVE \E q \in Path : WholePlan(OfCall(q, d)', d)
    <3>1. CASE d # c
      <4>1. d \in acked
        BY <2>7, <3>1
      <4> QED BY <2>12, <3>1, <4>1 DEF Whole
    <3>2. CASE d = c
      <4>1. job[t].op = "run" /\ DOMAIN Rest(t) = {}
        BY <2>7, <2>9, <3>2
      <4>2. RowsLeft(Rest(t)) = {}
        BY <4>1 DEF RowsLeft
      <4>3. OfCall(p, c)' \cup RowsLeft(Rest(t)) = OfCall(p, c)'
        BY <4>2
      <4>4. WholePlan(OfCall(p, c)', c)
        BY <2>14, <4>1, <4>3
      <4> QED BY <2>2, <3>2, <4>4
    <3> QED BY <3>1, <3>2
  <2>19. ASSUME NEW q \in Path PROVE RunIdsDiffer(q)'
    <3>1. RunIdsDiffer(q)
      BY DEF Whole
    <3> QED BY <2>3, <2>8, <3>1 DEF RunIdsDiffer, RowsIn
  <2>20. \A u \in Thread : Pending(u)'
    BY <2>15, <2>16
  <2> QED BY <2>17, <2>18, <2>19, <2>20, Zenon DEF Whole
<1> QED BY <1>0, <1>1, <1>2, <1>3, <1>4, <1>5, StepCases

LEMMA WholeInvariant == Spec => []Whole
<1>1. Inv /\ Whole /\ [Next]_vars => Whole'
  BY WholeStep
<1> QED BY <1>1, WholeInit, Invariance, PTL DEF Spec

(* The rows under a whole run's id are those of its call. *)
LEMMA RowsUnderAnId ==
  ASSUME Inv, Whole, NEW p \in Path, NEW c, NEW parsed, IsParsed(parsed), NEW run,
         OfCall(p, c) = RowsLeft(RunRows(run, c, parsed)),
         NEW table, table \notin {"runs", "diff_history"}
  PROVE  {r \in RowsIn(p, table) : r.run = run} = {r \in OfCall(p, c) : r.table = table}
<1> DEFINE R == OfCall(p, c)
           row == RunRow(run, c, parsed)
<1>1. row \in R /\ \A r \in R : r.table # "diff_history" => r.run = run
  BY RunRowsByTable
<1>2. row.table = "runs" /\ row.run = run /\ row.call = c
  BY DEF RunRow, Row
<1> HIDE DEF R, row
<1>3. \A r : r \in R <=> r \in db[p] /\ r.call = c
  BY DEF R, OfCall
<1>4. ASSUME NEW r \in db[p], r.table = table, r.run = run PROVE r.call = c
  <2>1. PICK q \in db[p] : q.table = "runs" /\ q.run = r.run /\ q.call = r.call
    BY <1>4 DEF Inv, Recording, Joined, IsRunOf
  <2>2. RunIdsDiffer(p)
    BY DEF Whole
  <2>3. q = row
    BY <1>1, <1>2, <1>3, <1>4, <2>1, <2>2 DEF RunIdsDiffer, RowsIn
  <2> QED BY <1>2, <2>1, <2>3
<1>5. {r \in RowsIn(p, table) : r.run = run} = {r \in R : r.table = table}
  BY <1>1, <1>3, <1>4 DEF RowsIn
<1> QED BY <1>5 DEF R

(* A run whose id was returned to its caller is whole, and the totals in    *)
(* its row, computed before any detail is recorded, are those of the rows   *)
(* recorded after it: for any batch and whatever other calls record.        *)
THEOREM AcknowledgedRunsAreWhole == Spec => []AcknowledgedRunIsWhole
<1>1. Inv /\ Whole => AcknowledgedRunIsWhole
  <2> SUFFICES ASSUME Inv, Whole, NEW c \in acked
               PROVE  \E p \in Path : \E run \in RowsIn(p, "runs") :
                        LET Of(table) == {r \in RowsIn(p, table) : r.run = run.run}
                        IN  /\ run.call = c
                            /\ Cardinality(Of("files")) = run.data.diffs
                            /\ Cardinality(Of("hotspots")) = run.data.hotspots
                            /\ SumOfData(Of("parser_calls"), LAMBDA r : r.data.total)
                                 = run.data.total
                            /\ \A r \in Of("parser_calls") : r.data.fuel <= run.data.peak
    BY Zenon DEF AcknowledgedRunIsWhole
  <2>1. PICK p \in Path : WholePlan(OfCall(p, c), c)
    BY DEF Whole
  <2>2. PICK diffs \in Batch, id \in RunId \cup {c} :
          OfCall(p, c) = RowsLeft(RunRows(id, c, Parsed(diffs)))
    BY <2>1 DEF WholePlan, RunPlans
  <2> DEFINE parsed == Parsed(diffs)
             R == RowsLeft(RunRows(id, c, parsed))
             row == RunRow(id, c, parsed)
             Of(table) == {r \in RowsIn(p, table) : r.run = id}
             T(table) == {r \in R : r.table = table}
  <2>3. IsParsed(parsed)
    BY ParsedIsParsed
  <2>4. R = RowsLeft(RunRows(id, c, parsed)) /\ OfCall(p, c) = R
    BY <2>2
  <2> HIDE DEF parsed, R
  <2>5. /\ row \in R
        /\ T("files") = {FileRow(id, c, i, parsed[i]) : i \in DOMAIN parsed}
        /\ T("hotspots") = UNION {{HotspotRow(id, c, i, n) : n \in 1..parsed[i].hotspots} :
                                  i \in DOMAIN parsed}
        /\ T("parser_calls") = UNION {{CallRow(id, c, i, parsed[i], n) :
                                         n \in DOMAIN parsed[i].calls} : i \in DOMAIN parsed}
    BY <2>3, <2>4, RunRowsByTable
  <2>6. ASSUME NEW table, table \notin {"runs", "diff_history"} PROVE Of(table) = T(table)
    BY <2>3, <2>4, <2>6, RowsUnderAnId
  <2>7. /\ row.table = "runs" /\ row.run = id /\ row.call = c
        /\ row.data.diffs = Cardinality(DOMAIN parsed)
    BY DEF RunRow, Row
  <2>8. row \in RowsIn(p, "runs")
    BY <2>4, <2>5, <2>7 DEF OfCall, RowsIn
  <2> HIDE DEF row, Of, T
  <2>9. Cardinality(Of("files")) = row.data.diffs
    BY <2>3, <2>5, <2>6, <2>7, FilesOfARun
  <2>10. Cardinality(Of("hotspots")) = row.data.hotspots
    <3>1. Cardinality(T("hotspots")) = row.data.hotspots
      BY <2>3, <2>5, HotspotsOfARun DEF row
    <3> QED BY <2>6, <3>1
  <2>11. /\ TotalOf(Of("parser_calls")) = row.data.total
         /\ \A r \in Of("parser_calls") : r.data.fuel <= row.data.peak
    <3> DEFINE A == T("parser_calls")
    <3>1. A = UNION {{CallRow(id, c, i, parsed[i], n) : n \in DOMAIN parsed[i].calls} :
                     i \in DOMAIN parsed}
      BY <2>5
    <3> HIDE DEF A
    <3>2. /\ TotalOf(A) = RunRow(id, c, parsed).data.total
          /\ \A r \in A : r.data.fuel <= RunRow(id, c, parsed).data.peak
      <4>1. TotalOf(A) = RunRow(id, c, parsed).data.total
        BY <2>3, <3>1, CallsOfARun
      <4>2. \A r \in A : r.data.fuel <= RunRow(id, c, parsed).data.peak
        BY <2>3, <3>1, CallsOfARun
      <4> QED BY <4>1, <4>2
    <3>3. Of("parser_calls") = A
      BY <2>6 DEF A
    <3> QED BY <3>2, <3>3 DEF row
  <2>12. WITNESS p \in Path
  <2>13. WITNESS row \in RowsIn(p, "runs")
  <2> QED BY <2>7, <2>9, <2>10, <2>11, Zenon DEF Of, TotalOf
<1> QED BY <1>1, Invariance, WholeInvariant, PTL
=============================================================================
