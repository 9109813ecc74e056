------------------------------ MODULE CacheFile ------------------------------
(****************************************************************************)
(* The SQLite file behind the disk cache (cache_store.rs): the schema       *)
(* version recorded in meta, the cached tables and the hit/miss counters,   *)
(* and what one SQL statement of SqliteStore does to them.                  *)
(*                                                                          *)
(* A statement outside a transaction is atomic and durable, and the code    *)
(* opens no transaction: everything longer than a statement is a sequence   *)
(* of them, interleaved with those of the other connections to the file.    *)
(* A row keeps what the properties tell apart: its payload (which stands    *)
(* for the gzip blob and its metadata columns) and created_at.              *)
(****************************************************************************)
EXTENDS Integers, Sequences, FiniteSets, FiniteSetsExt

CONSTANTS
  TableOrder,   \* the cached tables, in the order the code goes through them
  SizedOrder,   \* those the size cap counts: all but symbol_index_cache
  Item,         \* cache keys
  Value,        \* payloads written under the current schema
  Legacy,       \* a payload written under an older schema version
  Bytes,        \* size_bytes of a payload
  NoTable,      \* the table does not exist
  NoRow         \* no row under this cache key

Table == {TableOrder[n] : n \in DOMAIN TableOrder}
Sized == {SizedOrder[n] : n \in DOMAIN SizedOrder}

Row == [payload : Value \cup {Legacy}, created_at : Nat]
Rows == [Item -> Row \cup {NoRow}]
EmptyTable == [i \in Item |-> NoRow]

ASSUME TableAssumption ==
  /\ TableOrder \in Seq(Table) /\ TableOrder # <<>>
  /\ SizedOrder \in Seq(Table) /\ SizedOrder # <<>>
ASSUME ValueAssumption == Legacy \notin Value
ASSUME BytesAssumption == Bytes \in [Value \cup {Legacy} -> Nat]
ASSUME NoTableAssumption == NoTable \notin Rows
ASSUME NoRowAssumption == NoRow \notin Row

Versions == {"none", "older", "current"}

Exists(tables, T) == tables[T] # NoTable

(* CREATE TABLE IF NOT EXISTS *)
CreateTable(tables, T) ==
  IF Exists(tables, T) THEN tables ELSE [tables EXCEPT ![T] = EmptyTable]

(* DROP TABLE IF EXISTS *)
DropTable(tables, T) == [tables EXCEPT ![T] = NoTable]

(* INSERT OR REPLACE: one row per key, stamped with the time of the put. *)
PutRow(tables, T, i, v, now) ==
  [tables EXCEPT ![T][i] = [payload |-> v, created_at |-> now]]

(* DELETE FROM T WHERE key = i *)
DeleteRow(tables, T, i) == [tables EXCEPT ![T][i] = NoRow]

(* DELETE FROM T *)
EmptyOut(tables, T) == [tables EXCEPT ![T] = EmptyTable]

(* Mutant: an expiry that also takes the rows written at the cutoff. *)
DeleteUpTo(tables, T, cutoff) ==
  [tables EXCEPT ![T] =
     [i \in Item |-> IF tables[T][i] # NoRow /\ tables[T][i].created_at <= cutoff
                     THEN NoRow ELSE tables[T][i]]]

(* DELETE FROM T WHERE created_at < cutoff *)
DeleteOlder(tables, T, cutoff) ==
  [tables EXCEPT ![T] =
     [i \in Item |-> IF tables[T][i] # NoRow /\ tables[T][i].created_at < cutoff
                     THEN NoRow ELSE tables[T][i]]]

(* SELECT result FROM T WHERE key = i, with .ok(): any error is a miss. *)
SelectRow(tables, T, i) == IF Exists(tables, T) THEN tables[T][i] ELSE NoRow

Items(rows) == {i \in Item : rows[i] # NoRow}

SumBytes(rows) == MapThenSumSet(LAMBDA i : Bytes[rows[i].payload], Items(rows))

(* SELECT key, size_bytes FROM T ORDER BY created_at: rows of one second    *)
(* come in any order, so this is the set of the answers SQLite may give.    *)
OldestFirst(rows) ==
  LET S == Items(rows)
      N == 1..Cardinality(S)
      InOrder(q) == /\ \A m, n \in N : m # n => q[m] # q[n]
                    /\ \A m, n \in N : m < n => rows[q[m]].created_at <= rows[q[n]].created_at
  IN {[n \in N |-> [item |-> q[n], bytes |-> Bytes[rows[q[n]].payload]]]
        : q \in {q \in [N -> S] : InOrder(q)}}

=============================================================================
