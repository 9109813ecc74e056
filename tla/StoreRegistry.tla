---------------------------- MODULE StoreRegistry ----------------------------
(****************************************************************************)
(* What the two process-global store registries promise: the disk cache's   *)
(* (cache_registry.rs) and the analytics store's (analytics_registry.rs).   *)
(* Both keep one warm store per identity behind a mutex, look it up and     *)
(* register it under the lock, open it outside the lock, and take it out of *)
(* the map before closing its connection.                                   *)
(*                                                                          *)
(* A thread is a caller of the stateless API.  Each entry point is          *)
(* store_for followed by one operation on the store it returned; close is   *)
(* a removal followed by the store's own close.  What an operation does to  *)
(* the database is the business of CacheRegistry and AnalyticsStore, which  *)
(* implement this module: here it either finds a connection in the store or *)
(* finds the store closed.                                                  *)
(****************************************************************************)
CONSTANTS
  Thread,    \* callers of the stateless entry points
  Key,       \* store identities: (path, ttl_days, max_mb), or the path alone
  Store,     \* the store objects (Arc<SqliteStore>) that may exist at once
  NoStore,   \* "no entry in the map", "no Arc held"
  NoKey      \* identity of a thread that is in no call

ASSUME NoStoreAssumption == NoStore \notin Store
ASSUME NoKeyAssumption == NoKey \notin Key

VARIABLES
  reg,       \* the map behind the registry mutex
  opened,    \* the stores whose connection is live
  owner,     \* the identity a store was opened with
  pc,        \* where each thread is
  key,       \* the identity of the thread's current call
  held,      \* the Arc the thread holds
  outcome    \* how the thread's last call ended

vars == <<reg, opened, owner, pc, key, held, outcome>>

Labels == {"idle", "lookup", "opening", "register", "use", "remove", "closing"}
Outcomes == {"none", "done", "closed", "open_error"}

(* Where a thread owns a reference to a store. *)
Holding == {"register", "use", "closing"}

(* Types, and the lifetime of an Arc: a thread holds one from the moment it *)
(* opens, looks up or removes a store until its call returns.               *)
TypeOK ==
  /\ reg \in [Key -> Store \cup {NoStore}]
  /\ opened \in SUBSET Store
  /\ owner \in [Store -> Key \cup {NoKey}]
  /\ pc \in [Thread -> Labels]
  /\ key \in [Thread -> Key \cup {NoKey}]
  /\ held \in [Thread -> Store \cup {NoStore}]
  /\ outcome \in [Thread -> Outcomes]
  /\ \A t \in Thread : held[t] # NoStore <=> pc[t] \in Holding
  /\ \A t \in Thread : key[t] = NoKey <=> pc[t] = "idle"

(* A store object nobody can reach any more: its memory can hold a new one. *)
Unreachable(s) ==
  /\ s \notin opened
  /\ \A k \in Key : reg[k] # s
  /\ \A t \in Thread : held[t] # s

Init ==
  /\ reg = [k \in Key |-> NoStore]
  /\ opened = {}
  /\ owner = [s \in Store |-> NoKey]
  /\ pc = [t \in Thread |-> "idle"]
  /\ key = [t \in Thread |-> NoKey]
  /\ held = [t \in Thread |-> NoStore]
  /\ outcome = [t \in Thread |-> "none"]

-----------------------------------------------------------------------------
(****************************************************************************)
(* store_for: look the identity up under the lock; on a miss open the store *)
(* with the lock released, then take the lock again and insert it unless    *)
(* another thread got there first.                                          *)
(****************************************************************************)
Goto(t, l) == pc' = [pc EXCEPT ![t] = l]

(* Mutant: the call returns without dropping its reference. *)
FinishKeepsArc(t, result) ==
  /\ Goto(t, "idle")
  /\ key' = [key EXCEPT ![t] = NoKey]
  /\ outcome' = [outcome EXCEPT ![t] = result]
  /\ UNCHANGED held

Finish(t, result) ==
  /\ Goto(t, "idle")
  /\ key' = [key EXCEPT ![t] = NoKey]
  /\ held' = [held EXCEPT ![t] = NoStore]
  /\ outcome' = [outcome EXCEPT ![t] = result]

(* A caller enters one of the entry points that go through store_for. *)
Call(t, k) ==
  /\ pc[t] = "idle"
  /\ Goto(t, "lookup")
  /\ key' = [key EXCEPT ![t] = k]
  /\ outcome' = [outcome EXCEPT ![t] = "none"]
  /\ UNCHANGED <<reg, opened, owner, held>>

LookupHit(t) ==
  /\ pc[t] = "lookup"
  /\ reg[key[t]] # NoStore
  /\ held' = [held EXCEPT ![t] = reg[key[t]]]
  /\ Goto(t, "use")
  /\ UNCHANGED <<reg, opened, owner, key, outcome>>

LookupMiss(t) ==
  /\ pc[t] = "lookup"
  /\ reg[key[t]] = NoStore
  /\ Goto(t, "opening")
  /\ UNCHANGED <<reg, opened, owner, key, held, outcome>>

(* SqliteStore::open succeeded: the new Arc is private to the thread. *)
Open(t) ==
  /\ pc[t] = "opening"
  /\ \E s \in Store :
       /\ Unreachable(s)
       /\ opened' = opened \cup {s}
       /\ owner' = [owner EXCEPT ![s] = key[t]]
       /\ held' = [held EXCEPT ![t] = s]
  /\ Goto(t, "register")
  /\ UNCHANGED <<reg, key, outcome>>

(* SqliteStore::open failed: store_for returns the error with ?. *)
OpenFails(t) ==
  /\ pc[t] = "opening"
  /\ Finish(t, "open_error")
  /\ UNCHANGED <<reg, opened, owner>>

(* reg.entry(key).or_insert_with(..) found the slot empty. *)
RegisterFirst(t) ==
  /\ pc[t] = "register"
  /\ reg[key[t]] = NoStore
  /\ reg' = [reg EXCEPT ![key[t]] = held[t]]
  /\ Goto(t, "use")
  /\ UNCHANGED <<opened, owner, key, held, outcome>>

(* Mutant: insert(..) in place of or_insert_with(..), the last opener wins. *)
RegisterLast(t) ==
  /\ pc[t] = "register"
  /\ reg[key[t]] # NoStore
  /\ reg' = [reg EXCEPT ![key[t]] = held[t]]
  /\ Goto(t, "use")
  /\ UNCHANGED <<opened, owner, key, held, outcome>>

(* Mutant: the loser goes on with its own store, outside the map. *)
RegisterKeepsOwn(t) ==
  /\ pc[t] = "register"
  /\ reg[key[t]] # NoStore
  /\ Goto(t, "use")
  /\ UNCHANGED <<reg, opened, owner, key, held, outcome>>

(* The slot was taken while this thread was opening: its own store goes out *)
(* of scope, which drops the connection, and the winner's is returned.      *)
RegisterLoser(t) ==
  /\ pc[t] = "register"
  /\ reg[key[t]] # NoStore
  /\ opened' = opened \ {held[t]}
  /\ held' = [held EXCEPT ![t] = reg[key[t]]]
  /\ Goto(t, "use")
  /\ UNCHANGED <<reg, owner, key, outcome>>

-----------------------------------------------------------------------------
(****************************************************************************)
(* The operation itself, through with_conn, and close.                      *)
(****************************************************************************)
Use(t) ==
  /\ pc[t] = "use"
  /\ Finish(t, IF held[t] \in opened THEN "done" ELSE "closed")
  /\ UNCHANGED <<reg, opened, owner>>

(* The entry point open stops at store_for and drops the Arc unused; an     *)
(* operation of several parts ends when it needs the connection no more.    *)
WarmUp(t) ==
  /\ pc[t] = "use"
  /\ Finish(t, "done")
  /\ UNCHANGED <<reg, opened, owner>>

CallClose(t, k) ==
  /\ pc[t] = "idle"
  /\ Goto(t, "remove")
  /\ key' = [key EXCEPT ![t] = k]
  /\ outcome' = [outcome EXCEPT ![t] = "none"]
  /\ UNCHANGED <<reg, opened, owner, held>>

(* Mutant: close leaves the entry in the map. *)
CloseWithoutRemove(t) ==
  /\ pc[t] = "remove"
  /\ reg[key[t]] # NoStore
  /\ held' = [held EXCEPT ![t] = reg[key[t]]]
  /\ Goto(t, "closing")
  /\ UNCHANGED <<reg, opened, owner, key, outcome>>

RemoveEntry(t) ==
  /\ pc[t] = "remove"
  /\ reg[key[t]] # NoStore
  /\ reg' = [reg EXCEPT ![key[t]] = NoStore]
  /\ held' = [held EXCEPT ![t] = reg[key[t]]]
  /\ Goto(t, "closing")
  /\ UNCHANGED <<opened, owner, key, outcome>>

(* "A no-op if absent." *)
RemoveNothing(t) ==
  /\ pc[t] = "remove"
  /\ reg[key[t]] = NoStore
  /\ Finish(t, "done")
  /\ UNCHANGED <<reg, opened, owner>>

(* Mutant: the entry is removed and its connection forgotten. *)
ForgetConnection(t) ==
  /\ pc[t] = "closing"
  /\ Finish(t, "done")
  /\ UNCHANGED <<reg, opened, owner>>

(* SqliteStore::close takes the Connection out of the store; the analytics  *)
(* store's close marks the store closed.                                    *)
TakeConnection(t) ==
  /\ pc[t] = "closing"
  /\ opened' = opened \ {held[t]}
  /\ Finish(t, "done")
  /\ UNCHANGED <<reg, owner>>

(* "Entries live until close is called for their key (or the process exits)."*)
Exit ==
  /\ reg' = [k \in Key |-> NoStore]
  /\ opened' = {}
  /\ pc' = [t \in Thread |-> "idle"]
  /\ key' = [t \in Thread |-> NoKey]
  /\ held' = [t \in Thread |-> NoStore]
  /\ outcome' = [t \in Thread |-> "none"]
  /\ UNCHANGED owner

Step(t) ==
  \/ LookupHit(t) \/ LookupMiss(t)
  \/ Open(t) \/ OpenFails(t)
  \/ RegisterFirst(t) \/ RegisterLoser(t)
  \/ Use(t) \/ WarmUp(t)
  \/ RemoveEntry(t) \/ RemoveNothing(t) \/ TakeConnection(t)

Next ==
  \/ \E t \in Thread :
       \/ \E k \in Key : Call(t, k) \/ CallClose(t, k)
       \/ Step(t)
  \/ Exit

Spec == Init /\ [][Next]_vars

-----------------------------------------------------------------------------
(****************************************************************************)
(* Properties.                                                              *)
(****************************************************************************)

(* What the map hands out has a live connection: close removes the entry    *)
(* before it takes the connection, and a store is inserted only by the      *)
(* thread that opened it.                                                   *)
RegisteredIsOpen == \A k \in Key : reg[k] # NoStore => reg[k] \in opened

(* No connection leaks: a live connection is in the map, or still private   *)
(* to the thread that opened it, or on its way to be closed.                *)
NoLeakedConnection ==
  \A s \in opened :
    \/ \E k \in Key : reg[k] = s
    \/ \E t \in Thread : pc[t] \in {"register", "closing"} /\ held[t] = s

(* An operation runs on the store its caller named: same path and same      *)
(* retention, whichever thread opened it ("a store opened with different    *)
(* retention is a distinct entry").                                         *)
UsesItsOwnIdentity ==
  \A t \in Thread : pc[t] = "use" => held[t] \in Store /\ owner[held[t]] = key[t]

(* All the callers of one identity share one store: one of them holds       *)
(* another store only if a close has retired it.                            *)
OneStorePerIdentity ==
  \A t \in Thread :
    pc[t] = "use" /\ held[t] # reg[key[t]] =>
      \/ held[t] \notin opened
      \/ \E u \in Thread : pc[u] = "closing" /\ held[u] = held[t]

(* "Another thread may have opened it while we were opening; keep the first *)
(* winner": a registered store is never displaced by another one.           *)
FirstWinnerKept ==
  [][\A k \in Key : reg[k] # NoStore => reg'[k] \in {reg[k], NoStore}]_vars
=============================================================================
