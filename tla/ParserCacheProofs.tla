-------------------------- MODULE ParserCacheProofs --------------------------
(****************************************************************************)
(* Proofs about ParserCache, for any callers, files, batches and budgets.   *)
(*                                                                          *)
(* The properties speak of what a caller ends with.  They follow from what  *)
(* it holds on the way (Caller): the metadata and the guarded bytes it has  *)
(* read are no older than its call, what the cache gives it is no older     *)
(* than its metadata or is the vetted build (CacheOK), and what it has      *)
(* entered for a path stays what its files are parsed with.                 *)
(****************************************************************************)
EXTENDS ParserCache, InductionLemmas

Labels == {"idle", "preload", "key", "check", "compile", "insert", "items"}
Versions == 1..MaxVersion
Built == [path : Path, version : Versions, metered : BOOLEAN]

FileOK == file \in [Path -> [there : BOOLEAN, version : Versions]]

(* A component is no older than the metadata it is cached under, and a      *)
(* guarded one is the vetted build.                                         *)
CacheOK ==
  \A k \in DOMAIN cache :
    /\ k \in Built
    /\ cache[k] \in Built
    /\ cache[k].path = k.path /\ cache[k].metered = k.metered
    /\ k.path \in Guarded => cache[k].version \in Vetted
    /\ k.path \notin Guarded => cache[k].version >= k.version

(* What a caller may parse the files of a path with. *)
Fits(t, p, c) ==
  \/ c = NoComponent
  \/ /\ c \in Built
     /\ c.path = p /\ c.metered = Metered(t)
     /\ c.version >= began[t][p]
     /\ p \in Guarded => c.version \in Vetted

Looking == {"key", "check", "compile", "insert"}

Called(t) ==
  /\ pc[t] # "idle" => request[t] \in Request /\ DOMAIN began[t] = Needed(request[t])
  /\ pc[t] = "idle" => request[t] = NoRequest /\ entries[t] = <<>> /\ began[t] = <<>>
  /\ DOMAIN items[t] = DOMAIN request[t].files
  /\ \A p \in DOMAIN began[t] : p \in Path /\ began[t][p] \in 1..file[p].version
  /\ \A p \in DOMAIN entries[t] : p \in DOMAIN began[t] /\ Fits(t, p, entries[t][p])

LooksUp(t) ==
  /\ pc[t] \in Looking => Unloaded(t) # {}
  /\ pc[t] \in Looking \ {"key"} =>
       /\ lookup[t] \in Built
       /\ lookup[t].path = Current(t) /\ lookup[t].metered = Metered(t)
       /\ lookup[t].version >= began[t][Current(t)]
  /\ pc[t] \in Looking /\ Current(t) \in Guarded =>
       bytes[t] \in Vetted \cap Versions /\ bytes[t] >= began[t][Current(t)]
  /\ pc[t] = "compile" => lookup[t].version <= file[Current(t)].version
  /\ pc[t] = "check" => lookup[t].version <= file[Current(t)].version
  /\ pc[t] = "insert" =>
       /\ made[t] \in Built
       /\ made[t].path = Current(t) /\ made[t].metered = Metered(t)
       /\ Current(t) \in Guarded => made[t].version \in Vetted
       /\ Current(t) \notin Guarded => made[t].version >= lookup[t].version
  /\ pc[t] # "insert" => made[t] = NoComponent

(* How a file that ran ended: with the component of its path, and as a pair *)
(* of sources ends with it.                                                 *)
Parsed(t, i) ==
  LET f == request[t].files[i]
      c == items[t][i].component
  IN  /\ NeedsParser(f)
      /\ f.path \in DOMAIN entries[t] /\ c = entries[t][f.path]
      /\ items[t][i].outcome = RunPair(f, c, FuelBudget(request[t].floor, f.candidate))

Settled(t) ==
  /\ pc[t] # "items" => \A i \in DOMAIN items[t] : items[t][i] = Pending
  /\ pc[t] = "items" => Unloaded(t) = {}
  /\ \A i \in Ran(t) : Parsed(t, i)

Caller(t) == Called(t) /\ LooksUp(t) /\ Settled(t)

Maps ==
  /\ pc \in [Thread -> Labels]
  /\ DOMAIN request = Thread /\ DOMAIN entries = Thread /\ DOMAIN bytes = Thread
  /\ DOMAIN lookup = Thread /\ DOMAIN made = Thread /\ DOMAIN items = Thread
  /\ DOMAIN began = Thread

IInv == Maps /\ FileOK /\ CacheOK /\ \A t \in Thread : Caller(t)

-----------------------------------------------------------------------------
(* The current path is that of a file whose component is not there yet. *)
LEMMA CurrentPath ==
  ASSUME NEW t \in Thread, request[t] \in Request, Unloaded(t) # {}
  PROVE  /\ Current(t) \in Path /\ Current(t) \in Needed(request[t])
         /\ Current(t) \notin DOMAIN entries[t]
<1>1. Unloaded(t) \in SUBSET Nat
  BY RequestAssumption DEF Unloaded
<1>2. \E i \in Unloaded(t) : \A j \in Unloaded(t) : i <= j
  BY <1>1, Least
<1>3. PICK i \in Unloaded(t) : Current(t) = request[t].files[i].path
  BY <1>2 DEF Current
<1> QED BY <1>3, RequestAssumption DEF Unloaded, Needed, NeedsParser, Range

LEMMA CurrentIsNeeded ==
  ASSUME NEW t \in Thread, Maps, Caller(t), Unloaded(t) # {}, pc[t] # "idle"
  PROVE  /\ Current(t) \in Path /\ Current(t) \in DOMAIN began[t]
         /\ Current(t) \notin DOMAIN entries[t] /\ Metered(t) \in BOOLEAN
BY CurrentPath DEF Caller, Called, Metered

-----------------------------------------------------------------------------
(* A caller is not disturbed by what others do. *)
Undisturbed(t) ==
  /\ pc'[t] = pc[t] /\ request'[t] = request[t] /\ entries'[t] = entries[t]
  /\ bytes'[t] = bytes[t] /\ lookup'[t] = lookup[t] /\ made'[t] = made[t]
  /\ items'[t] = items[t] /\ began'[t] = began[t]

FilesGrow == \A p \in Path : file'[p].version >= file[p].version

LEMMA CallerUndisturbed ==
  ASSUME NEW t \in Thread, Maps, Caller(t), Undisturbed(t), FileOK, FileOK', FilesGrow
  PROVE  Caller(t)'
<1>1. /\ Unloaded(t)' = Unloaded(t) /\ Current(t)' = Current(t) /\ Metered(t)' = Metered(t)
      /\ Ran(t)' = Ran(t)
  BY DEF Undisturbed, Unloaded, Current, Metered, Ran
<1>2. \A p, c : Fits(t, p, c)' <=> Fits(t, p, c)
  BY <1>1 DEF Fits, Undisturbed
<1>3. \A p \in Path : file[p].version \in Versions /\ file'[p].version \in Versions
  BY DEF FileOK
<1>4. Called(t)'
  BY <1>2, <1>3, VersionAssumption DEF Caller, Called, Undisturbed, FilesGrow, Versions
<1>5. LooksUp(t)'
  <2>1. pc[t] \in Looking => Current(t) \in Path
    BY CurrentIsNeeded DEF Caller, LooksUp, Looking
  <2> QED
    BY <1>1, <1>3, <2>1, VersionAssumption
    DEF Caller, LooksUp, Undisturbed, FilesGrow, Looking, Built, Versions
<1>6. Settled(t)'
  BY <1>1 DEF Caller, Settled, Parsed, Undisturbed
<1> QED BY <1>4, <1>5, <1>6 DEF Caller

-----------------------------------------------------------------------------
(* The steps of a caller. *)

(* Before its files run, none of them has. *)
LEMMA NoneRan ==
  ASSUME NEW t \in Thread, Caller(t), pc[t] # "items"
  PROVE  Ran(t) = {}
BY DEF Caller, Settled, Ran, Pending

LEMMA AddEntryCaller ==
  ASSUME NEW t \in Thread, Maps, Caller(t), pc[t] \in {"preload"} \cup Looking,
         Unloaded(t) # {}, NEW c, Fits(t, Current(t), c), AddEntry(t, c), UNCHANGED callVars,
         UNCHANGED file
  PROVE  Caller(t)'
<1>1. /\ pc'[t] = "preload" /\ made'[t] = NoComponent /\ DOMAIN entries'[t] = DOMAIN entries[t] \cup {Current(t)}
      /\ \A p \in DOMAIN entries'[t] : entries'[t][p] = IF p = Current(t) THEN c ELSE entries[t][p]
      /\ request'[t] = request[t] /\ items'[t] = items[t] /\ began'[t] = began[t]
  BY DEF AddEntry, Maps, callVars, Goto
<1>2. Current(t) \in DOMAIN began[t]
  BY CurrentIsNeeded DEF Looking
<1>3. \A p, d : Fits(t, p, d)' <=> Fits(t, p, d)
  BY <1>1 DEF Fits, Metered
<1>4. Called(t)'
  BY <1>1, <1>2, <1>3 DEF Caller, Called, Looking
<1>5. LooksUp(t)'
  BY <1>1 DEF LooksUp, Looking
<1>6. Settled(t)'
  BY <1>1 DEF Caller, Settled, Ran, Pending, Looking
<1> QED BY <1>4, <1>5, <1>6 DEF Caller

(* The step of another label of the lookup: only what was read is new. *)
LEMMA LookingCaller ==
  ASSUME NEW t \in Thread, Maps, Caller(t), pc[t] \in {"preload"} \cup Looking,
         pc'[t] \in Looking, UNCHANGED callVars, UNCHANGED <<file, entries>>, LooksUp(t)'
  PROVE  Caller(t)'
<1>1. /\ request'[t] = request[t] /\ items'[t] = items[t] /\ began'[t] = began[t]
      /\ entries'[t] = entries[t]
  BY DEF callVars
<1>2. \A p, d : Fits(t, p, d)' <=> Fits(t, p, d)
  BY <1>1 DEF Fits, Metered
<1>3. Called(t)'
  BY <1>1, <1>2 DEF Caller, Called, Looking
<1>4. Settled(t)'
  BY <1>1 DEF Caller, Settled, Ran, Pending, Looking
<1> QED BY <1>3, <1>4 DEF Caller

(* Nothing else of the system moves when a caller steps. *)
Steps(t) ==
  /\ Maps' /\ CacheOK' /\ Caller(t)'
  /\ \A u \in Thread : u # t => Undisturbed(u)

LEMMA AddEntrySteps ==
  ASSUME NEW t \in Thread, Maps, CacheOK', Caller(t), pc[t] \in {"preload"} \cup Looking,
         Unloaded(t) # {}, NEW c, Fits(t, Current(t), c), AddEntry(t, c), UNCHANGED callVars,
         UNCHANGED file
  PROVE  Steps(t)
<1>1. Caller(t)'
  BY AddEntryCaller
<1>2. Maps' /\ \A u \in Thread : u # t => Undisturbed(u)
  BY DEF AddEntry, Goto, Maps, Undisturbed, callVars, Labels
<1> QED BY <1>1, <1>2 DEF Steps

LEMMA LookupSteps ==
  ASSUME NEW t \in Thread, Maps, FileOK, CacheOK, Caller(t), pc[t] # "idle",
         \/ ReadGuarded(t) \/ GuardRefuses(t) \/ ReadMetadata(t) \/ MetadataFails(t)
         \/ CacheHit(t) \/ CacheMiss(t) \/ Compile(t) \/ CompileFails(t) \/ InsertFirst(t)
  PROVE  Steps(t)
<1> USE DEF Goto, Looking
<1>0. pc[t] \in {"preload"} \cup Looking /\ Unloaded(t) # {}
  BY DEF ReadGuarded, GuardRefuses, ReadMetadata, MetadataFails, CacheHit, CacheMiss, Compile,
         CompileFails, InsertFirst, AtKey, Caller, LooksUp
<1>1. /\ Current(t) \in Path /\ Current(t) \in DOMAIN began[t] /\ Metered(t) \in BOOLEAN
      /\ began[t][Current(t)] \in 1..file[Current(t)].version
      /\ file[Current(t)].version \in Versions
  BY <1>0, CurrentIsNeeded DEF Caller, Called, FileOK
<1>2. ASSUME UNCHANGED <<file, cache>> PROVE CacheOK'
  BY <1>2 DEF CacheOK
<1>3. Fits(t, Current(t), NoComponent)
  BY DEF Fits
<1>4. CASE GuardRefuses(t) \/ MetadataFails(t) \/ CompileFails(t)
  BY <1>0, <1>2, <1>3, <1>4, AddEntrySteps DEF GuardRefuses, MetadataFails, CompileFails, fileVars
<1>5. ASSUME UNCHANGED <<file, cache, entries>>, UNCHANGED callVars, pc'[t] \in Looking,
             pc' = [pc EXCEPT ![t] = pc'[t]], LooksUp(t)',
             DOMAIN bytes' = Thread, DOMAIN lookup' = Thread, DOMAIN made' = Thread,
             \A u \in Thread : u # t =>
               bytes'[u] = bytes[u] /\ lookup'[u] = lookup[u] /\ made'[u] = made[u]
      PROVE  Steps(t)
  <2>1. Caller(t)'
    BY <1>0, <1>5, LookingCaller
  <2>2. Maps' /\ \A u \in Thread : u # t => Undisturbed(u)
    BY <1>5 DEF Maps, Undisturbed, callVars, Labels
  <2> QED BY <1>2, <1>5, <2>1, <2>2 DEF Steps
<1>6. ASSUME UNCHANGED <<request, entries>>
      PROVE  /\ Unloaded(t)' = Unloaded(t) /\ Current(t)' = Current(t) /\ Metered(t)' = Metered(t)
  BY <1>6 DEF Unloaded, Current, Metered
<1>7. CASE ReadGuarded(t)
  <2>1. /\ UNCHANGED <<file, cache, entries, lookup, made>> /\ UNCHANGED callVars
        /\ pc' = [pc EXCEPT ![t] = "key"] /\ pc[t] = "preload"
        /\ bytes' = [bytes EXCEPT ![t] = file[Current(t)].version]
        /\ file[Current(t)].version \in Vetted
    BY <1>7 DEF ReadGuarded, fileVars
  <2>2. pc'[t] = "key" /\ bytes'[t] = file[Current(t)].version
    BY <2>1 DEF Maps
  <2>3. LooksUp(t)'
    BY <1>0, <1>1, <1>6, <2>1, <2>2 DEF Caller, LooksUp, callVars, Versions
  <2> QED BY <1>5, <2>1, <2>2, <2>3 DEF Maps
<1>8. CASE ReadMetadata(t)
  <2> DEFINE k == KeyOf(Current(t), file[Current(t)].version, Metered(t))
  <2>1. /\ UNCHANGED <<file, cache, entries, bytes, made>> /\ UNCHANGED callVars
        /\ pc' = [pc EXCEPT ![t] = "check"]
        /\ lookup' = [lookup EXCEPT ![t] = k] /\ AtKey(t)
    BY <1>8 DEF ReadMetadata, fileVars
  <2>2. pc'[t] = "check" /\ lookup'[t] = k
    BY <2>1 DEF Maps
  <2>3. k \in Built /\ k.path = Current(t) /\ k.metered = Metered(t) /\ k.version = file[Current(t)].version
    BY <1>1 DEF KeyOf, Built
  <2>4. LooksUp(t)'
    BY <1>0, <1>1, <1>6, <2>1, <2>2, <2>3 DEF Caller, LooksUp, AtKey, callVars, Versions
  <2> QED BY <1>5, <2>1, <2>2, <2>4 DEF Maps
<1>9. CASE CacheMiss(t)
  <2>1. /\ UNCHANGED <<file, cache, entries, bytes, made, lookup>> /\ UNCHANGED callVars
        /\ pc' = [pc EXCEPT ![t] = "compile"] /\ pc[t] = "check"
    BY <1>9 DEF CacheMiss, fileVars
  <2>2. pc'[t] = "compile"
    BY <2>1 DEF Maps
  <2>3. LooksUp(t)'
    BY <1>0, <1>1, <1>6, <2>1, <2>2 DEF Caller, LooksUp, callVars
  <2> QED BY <1>5, <2>1, <2>2, <2>3 DEF Maps
<1>10. CASE CacheHit(t)
  <2>1. Fits(t, Current(t), cache[lookup[t]])
    BY <1>1, <1>10, VettedAssumption DEF CacheHit, CacheOK, Caller, LooksUp, Fits, Built, Versions
  <2> QED BY <1>0, <1>2, <1>10, <2>1, AddEntrySteps DEF CacheHit, fileVars
<1>11. CASE Compile(t)
  <2>1. PICK v \in Versions :
          /\ CompileVersion(t, v) /\ pc[t] = "compile"
          /\ Current(t) \in Guarded => v \in Vetted
          /\ Current(t) \notin Guarded => v = file[Current(t)].version
    BY <1>0, <1>1, <1>11 DEF Compile, Caller, LooksUp
  <2> DEFINE c == [path |-> Current(t), version |-> v, metered |-> Metered(t)]
  <2>2. /\ UNCHANGED <<file, cache, entries, bytes, lookup>> /\ UNCHANGED callVars
        /\ pc' = [pc EXCEPT ![t] = "insert"] /\ made' = [made EXCEPT ![t] = c]
    BY <2>1 DEF CompileVersion, fileVars
  <2>3. pc'[t] = "insert" /\ made'[t] = c
    BY <2>2 DEF Maps
  <2>4. c \in Built /\ c.path = Current(t) /\ c.version = v /\ c.metered = Metered(t)
    BY <1>1, <2>1 DEF Built
  <2>5. LooksUp(t)'
    BY <1>0, <1>1, <1>6, <2>1, <2>2, <2>3, <2>4 DEF Caller, LooksUp, callVars, Versions
  <2> QED BY <1>5, <2>2, <2>3, <2>5 DEF Maps
<1>12. CASE InsertFirst(t)
  <2> DEFINE k == lookup[t]
  <2>1. /\ DOMAIN cache' = DOMAIN cache \cup {k}
        /\ \A j \in DOMAIN cache' : cache'[j] = IF j \in DOMAIN cache THEN cache[j] ELSE made[t]
        /\ AddEntry(t, cache'[k]) /\ UNCHANGED file /\ UNCHANGED callVars /\ pc[t] = "insert"
    BY <1>12 DEF InsertFirst
  <2>2. /\ k \in Built /\ k.path = Current(t) /\ k.metered = Metered(t)
        /\ k.version >= began[t][Current(t)]
        /\ made[t] \in Built /\ made[t].path = k.path /\ made[t].metered = k.metered
        /\ k.path \in Guarded => made[t].version \in Vetted
        /\ k.path \notin Guarded => made[t].version >= k.version
        /\ k.path \in Guarded => bytes[t] \in Vetted /\ bytes[t] >= began[t][k.path]
    BY <2>1 DEF Caller, LooksUp
  <2>3. CacheOK'
    BY <2>1, <2>2 DEF CacheOK
  <2>4. Fits(t, Current(t), cache'[k])
    BY <1>1, <2>1, <2>2, <2>3, VettedAssumption DEF CacheOK, Fits, Built, Versions
  <2> QED BY <1>0, <2>1, <2>3, <2>4, AddEntrySteps
<1> QED BY <1>4, <1>7, <1>8, <1>9, <1>10, <1>11, <1>12

LEMMA CallSteps ==
  ASSUME NEW t \in Thread, Maps, FileOK, CacheOK, Caller(t), NEW r \in Request, Call(t, r)
  PROVE  Steps(t)
<1>1. /\ pc' = [pc EXCEPT ![t] = "preload"] /\ pc[t] = "idle"
      /\ request' = [request EXCEPT ![t] = r] /\ entries' = [entries EXCEPT ![t] = <<>>]
      /\ items' = [items EXCEPT ![t] = [i \in DOMAIN r.files |-> Pending]]
      /\ began' = [began EXCEPT ![t] = [p \in Needed(r) |-> file[p].version]]
      /\ UNCHANGED <<file, cache, bytes, lookup, made>>
  BY DEF Call, Goto, fileVars
<1>2. /\ pc'[t] = "preload" /\ request'[t] = r /\ entries'[t] = <<>>
      /\ items'[t] = [i \in DOMAIN r.files |-> Pending]
      /\ began'[t] = [p \in Needed(r) |-> file[p].version]
  BY <1>1 DEF Maps
<1>3. Maps' /\ \A u \in Thread : u # t => Undisturbed(u)
  BY <1>1 DEF Maps, Undisturbed, Labels
<1>4. CacheOK'
  BY <1>1 DEF CacheOK
<1>5. ASSUME NEW p \in Needed(r) PROVE p \in Path /\ file[p].version \in 1..file[p].version
  <2>1. PICK i \in DOMAIN r.files : NeedsParser(r.files[i]) /\ p = r.files[i].path
    BY DEF Needed, Range
  <2>2. p \in Path
    BY <2>1, RequestAssumption DEF NeedsParser
  <2> QED BY <2>2, VersionAssumption DEF FileOK, Versions
<1>6. Called(t)'
  BY <1>1, <1>2, <1>5 DEF Called
<1>7. LooksUp(t)' /\ Settled(t)'
  BY <1>1, <1>2 DEF Caller, LooksUp, Settled, Looking, Ran, Pending
<1> QED BY <1>3, <1>4, <1>6, <1>7 DEF Steps, Caller

LEMMA PreloadDoneSteps ==
  ASSUME NEW t \in Thread, Maps, FileOK, CacheOK, Caller(t), PreloadDone(t)
  PROVE  Steps(t)
<1>1. /\ pc' = [pc EXCEPT ![t] = "items"] /\ pc[t] = "preload" /\ Unloaded(t) = {}
      /\ UNCHANGED <<file, cache, request, entries, bytes, lookup, made, items, began>>
  BY DEF PreloadDone, Goto, fileVars, callVars
<1>2. Maps' /\ CacheOK' /\ \A u \in Thread : u # t => Undisturbed(u)
  BY <1>1 DEF Maps, CacheOK, Undisturbed, Labels
<1>3. Unloaded(t)' = Unloaded(t) /\ Ran(t)' = Ran(t) /\ Ran(t) = {} /\ pc'[t] = "items"
  BY <1>1, NoneRan DEF Unloaded, Ran, Maps
<1>4. \A p, d : Fits(t, p, d)' <=> Fits(t, p, d)
  BY <1>1 DEF Fits, Metered
<1>5. Called(t)'
  BY <1>1, <1>3, <1>4 DEF Caller, Called
<1>6. LooksUp(t)' /\ Settled(t)'
  BY <1>1, <1>3 DEF Caller, LooksUp, Settled, Looking
<1> QED BY <1>2, <1>5, <1>6 DEF Steps, Caller

(* A file of the batch ends. *)
LEMMA SettleSteps ==
  ASSUME NEW t \in Thread, Maps, FileOK, CacheOK, Caller(t), pc[t] = "items",
         NEW i \in DOMAIN items[t], NEW outcome, NEW c, Settle(t, i, outcome, c),
         c # NoComponent =>
           LET f == request[t].files[i]
           IN  /\ NeedsParser(f) /\ f.path \in DOMAIN entries[t] /\ c = entries[t][f.path]
               /\ outcome = RunPair(f, c, FuelBudget(request[t].floor, f.candidate))
  PROVE  Steps(t)
<1>1. /\ items' = [items EXCEPT ![t][i] = [outcome |-> outcome, component |-> c]]
      /\ UNCHANGED <<file, cache, pc, request, entries, bytes, lookup, made, began>>
  BY DEF Settle, fileVars
<1>2. Maps' /\ CacheOK' /\ \A u \in Thread : u # t => Undisturbed(u)
  BY <1>1 DEF Maps, CacheOK, Undisturbed
<1>3. /\ DOMAIN items'[t] = DOMAIN items[t]
      /\ items'[t][i] = [outcome |-> outcome, component |-> c]
      /\ \A j \in DOMAIN items[t] : j # i => items'[t][j] = items[t][j]
  BY <1>1 DEF Maps
<1>4. \A p, d : Fits(t, p, d)' <=> Fits(t, p, d)
  BY <1>1 DEF Fits, Metered
<1>5. Called(t)' /\ LooksUp(t)'
  BY <1>1, <1>3, <1>4 DEF Caller, Called, LooksUp, Unloaded, Current, Metered, Looking
<1>6. ASSUME NEW j \in Ran(t)' PROVE Parsed(t, j)'
  <2>1. CASE j = i
    BY <1>1, <1>3, <1>6, <2>1 DEF Ran, Parsed
  <2>2. CASE j # i
    <3>1. j \in Ran(t) /\ items'[t][j] = items[t][j]
      BY <1>3, <1>6, <2>2 DEF Ran
    <3> QED BY <1>1, <3>1 DEF Caller, Settled, Parsed
  <2> QED BY <2>1, <2>2
<1>7. Settled(t)'
  BY <1>1, <1>6 DEF Caller, Settled, Unloaded
<1> QED BY <1>2, <1>5, <1>7 DEF Steps, Caller

LEMMA ItemSteps ==
  ASSUME NEW t \in Thread, Maps, FileOK, CacheOK, Caller(t), NEW i \in DOMAIN items[t],
         ItemWithoutParser(t, i) \/ ItemWithoutComponent(t, i) \/ ItemParsed(t, i)
  PROVE  Steps(t)
<1> DEFINE f == request[t].files[i]
<1>1. pc[t] = "items"
  BY DEF ItemWithoutParser, ItemWithoutComponent, ItemParsed
<1>2. NeedsParser(f) => f.path \in DOMAIN entries[t]
  BY <1>1 DEF Caller, Called, Settled, Unloaded
<1>3. CASE ItemWithoutParser(t, i)
  BY <1>1, <1>3, SettleSteps DEF ItemWithoutParser
<1>4. CASE ItemWithoutComponent(t, i)
  BY <1>1, <1>4, SettleSteps DEF ItemWithoutComponent
<1>5. CASE ItemParsed(t, i)
  BY <1>1, <1>2, <1>5, SettleSteps DEF ItemParsed, LookUp
<1> QED BY <1>3, <1>4, <1>5

LEMMA AssembleSteps ==
  ASSUME NEW t \in Thread, Maps, FileOK, CacheOK, Caller(t), Assemble(t)
  PROVE  Steps(t)
<1>1. /\ pc' = [pc EXCEPT ![t] = "idle"] /\ pc[t] = "items"
      /\ request' = [request EXCEPT ![t] = NoRequest] /\ entries' = [entries EXCEPT ![t] = <<>>]
      /\ items' = [items EXCEPT ![t] = <<>>] /\ began' = [began EXCEPT ![t] = <<>>]
      /\ UNCHANGED <<file, cache, bytes, lookup, made>>
  BY DEF Assemble, Goto, fileVars
<1>2. /\ pc'[t] = "idle" /\ request'[t] = NoRequest /\ entries'[t] = <<>> /\ items'[t] = <<>>
      /\ began'[t] = <<>>
  BY <1>1 DEF Maps
<1>3. Maps' /\ CacheOK' /\ \A u \in Thread : u # t => Undisturbed(u)
  BY <1>1 DEF Maps, CacheOK, Undisturbed, Labels
<1>4. Called(t)'
  BY <1>2 DEF Called, NoRequest
<1>5. LooksUp(t)' /\ Settled(t)'
  BY <1>1, <1>2 DEF Caller, LooksUp, Settled, Looking, Ran
<1> QED BY <1>3, <1>4, <1>5 DEF Steps, Caller

-----------------------------------------------------------------------------
(* The invariant. *)
LEMMA InitIInv == Init => IInv
<1> SUFFICES ASSUME Init PROVE IInv
  OBVIOUS
<1>1. Maps /\ FileOK /\ CacheOK
  BY VersionAssumption DEF Init, Maps, FileOK, CacheOK, Labels, Versions
<1>2. ASSUME NEW t \in Thread PROVE Caller(t)
  <2>1. Called(t)
    BY DEF Init, Called, NoRequest
  <2>2. LooksUp(t) /\ Settled(t)
    BY DEF Init, LooksUp, Settled, Looking, Ran
  <2> QED BY <2>1, <2>2 DEF Caller
<1> QED BY <1>1, <1>2 DEF IInv

LEMMA CallerSteps ==
  ASSUME NEW t \in Thread, IInv, (\E r \in Request : Call(t, r)) \/ Step(t)
  PROVE  IInv'
<1>1. Steps(t) /\ UNCHANGED file
  <2>1. CASE \E r \in Request : Call(t, r)
    BY <2>1, CallSteps DEF IInv, Call, fileVars
  <2>2. CASE Step(t)
    BY <2>2, LookupSteps, PreloadDoneSteps, ItemSteps, AssembleSteps
    DEF IInv, Step, PreloadDone, ReadGuarded, GuardRefuses, ReadMetadata, MetadataFails,
        CacheHit, CacheMiss, Compile, CompileVersion, CompileFails, InsertFirst,
        ItemWithoutParser, ItemWithoutComponent, ItemParsed, Settle, Assemble, fileVars,
        Caller, LooksUp, AtKey, Looking
  <2> QED BY <2>1, <2>2
<1>2. FileOK' /\ FilesGrow
  BY <1>1 DEF IInv, FileOK, FilesGrow, Versions
<1>3. ASSUME NEW u \in Thread PROVE Caller(u)'
  BY <1>1, <1>2, <1>3, CallerUndisturbed DEF IInv, Steps
<1> QED BY <1>1, <1>2, <1>3 DEF IInv, Steps

LEMMA InstallerSteps ==
  ASSUME NEW p \in Path, IInv, Install(p) \/ Uninstall(p)
  PROVE  IInv'
<1>1. FileOK' /\ FilesGrow
  <2>1. file[p].version \in Versions /\ DOMAIN file = Path
        /\ \A q \in Path : file[q].version \in Nat
    BY DEF IInv, FileOK, Versions
  <2>2. CASE Install(p)
    <3> DEFINE new == [there |-> TRUE, version |-> file[p].version + 1]
    <3>1. new \in [there : BOOLEAN, version : Versions] /\ new.version >= file[p].version
      BY <2>1, <2>2, VersionAssumption DEF Install, Versions
    <3>2. file' = [file EXCEPT ![p] = new]
      BY <2>2 DEF Install
    <3> HIDE DEF new
    <3> QED BY <2>1, <3>1, <3>2 DEF IInv, FileOK, FilesGrow
  <2>3. CASE Uninstall(p)
    <3> DEFINE new == [there |-> FALSE, version |-> file[p].version]
    <3>1. new \in [there : BOOLEAN, version : Versions] /\ new.version >= file[p].version
      BY <2>1
    <3>2. file' = [file EXCEPT ![p] = new]
      BY <2>3 DEF Uninstall
    <3> HIDE DEF new
    <3> QED BY <2>1, <3>1, <3>2 DEF IInv, FileOK, FilesGrow
  <2> QED BY <2>2, <2>3
<1>2. UNCHANGED <<cache, pc, request, entries, bytes, lookup, made, items, began>>
  BY DEF Install, Uninstall
<1>3. Maps' /\ CacheOK'
  BY <1>2 DEF IInv, Maps, CacheOK
<1>4. ASSUME NEW u \in Thread PROVE Caller(u)'
  BY <1>1, <1>2, <1>4, CallerUndisturbed DEF IInv, Undisturbed
<1> QED BY <1>1, <1>3, <1>4 DEF IInv

LEMMA StepIInv == IInv /\ [Next]_vars => IInv'
<1> SUFFICES ASSUME IInv, [Next]_vars PROVE IInv'
  OBVIOUS
<1>1. CASE UNCHANGED vars
  <2>1. FileOK' /\ FilesGrow /\ Maps' /\ CacheOK'
    BY <1>1 DEF vars, IInv, FileOK, FilesGrow, Versions, Maps, CacheOK
  <2>2. ASSUME NEW u \in Thread PROVE Caller(u)'
    BY <1>1, <2>1, CallerUndisturbed DEF vars, IInv, Undisturbed
  <2> QED BY <2>1, <2>2 DEF IInv
<1> QED BY <1>1, CallerSteps, InstallerSteps DEF Next

LEMMA Invariance == Spec => []IInv
BY InitIInv, StepIInv, PTL DEF Spec

-----------------------------------------------------------------------------
(* The theorems. *)

(* The types are right: a component is under its own path and metering.     *)
THEOREM TypeCorrect == Spec => []TypeOK
<1>1. IInv => TypeOK
  <2> SUFFICES ASSUME IInv PROVE TypeOK
    OBVIOUS
  <2>1. \A p \in Path : file[p].there \in BOOLEAN /\ file[p].version \in 1..MaxVersion
    BY DEF IInv, FileOK, Versions
  <2>2. \A k \in DOMAIN cache :
          /\ cache[k] \in Components \ {NoComponent}
          /\ cache[k].path = k.path /\ cache[k].metered = k.metered
    BY ComponentAssumption DEF IInv, CacheOK, Components, Built, Versions
  <2>3. ASSUME NEW t \in Thread
        PROVE  /\ \A p \in DOMAIN entries[t] :
                    entries[t][p] \in {c \in Components : c = NoComponent \/ c.path = p}
               /\ made[t] \in Components
               /\ made[t] # NoComponent <=> pc[t] = "insert"
               /\ DOMAIN items[t] = DOMAIN request[t].files
    BY ComponentAssumption
    DEF IInv, Caller, Called, LooksUp, Fits, Components, Built, Versions
  <2>4. pc \in [Thread -> Labels]
    BY DEF IInv, Maps
  <2> QED BY <2>1, <2>2, <2>3, <2>4 DEF TypeOK, Labels
<1> QED BY <1>1, Invariance, PTL

(* What a file that ran was parsed with. *)
LEMMA RanWith ==
  ASSUME IInv, NEW t \in Thread, NEW i \in Ran(t)
  PROVE  LET f == request[t].files[i]
             c == items[t][i].component
         IN  c # NoComponent /\ Fits(t, f.path, c) /\ Parsed(t, i) /\ request[t] \in Request
             /\ c = entries[t][f.path] /\ i \in DOMAIN request[t].files
<1>1. Parsed(t, i) /\ items[t][i].component # NoComponent
  BY DEF IInv, Caller, Settled, Ran
<1>2. pc[t] # "idle"
  BY NoneRan DEF IInv
<1>3. i \in DOMAIN request[t].files
  BY DEF IInv, Caller, Called, Ran
<1> QED BY <1>1, <1>2, <1>3 DEF Parsed, IInv, Caller, Called

(* However the files are exchanged while a batch looks its components up,   *)
(* no component it runs is older than its call.                             *)
THEOREM ParsersAreCurrent == Spec => []ParsesWithCurrentComponent
<1>1. IInv => ParsesWithCurrentComponent
  BY RanWith DEF ParsesWithCurrentComponent, Fits
<1> QED BY <1>1, Invariance, PTL

(* The files of a batch that name one component run one build of it.        *)
THEOREM BatchesRunOneBuild == Spec => []BatchRunsOneBuild
<1>1. IInv => BatchRunsOneBuild
  BY RanWith DEF BatchRunsOneBuild
<1> QED BY <1>1, Invariance, PTL

(* What runs of a guarded path is the vetted build, for any exchange of the *)
(* file between the check of its bytes and their use.                       *)
THEOREM GuardedComponentsAreVetted == Spec => []GuardedIsVetted
<1>1. IInv => GuardedIsVetted
  <2> SUFFICES ASSUME IInv PROVE GuardedIsVetted
    OBVIOUS
  <2>1. \A k \in DOMAIN cache : k.path \in Guarded => cache[k].version \in Vetted
    BY DEF IInv, CacheOK
  <2>2. ASSUME NEW t \in Thread, NEW i \in Ran(t), request[t].files[i].path \in Guarded
        PROVE  items[t][i].component.version \in Vetted
    BY <2>2, RanWith DEF Fits
  <2> QED BY <2>1, <2>2 DEF GuardedIsVetted
<1> QED BY <1>1, Invariance, PTL

(* What is in the cache is never exchanged nor removed.                     *)
THEOREM CacheOnlyGrows == Spec => CachedComponentIsKept
<1>1. IInv /\ [Next]_vars => [\A k \in DOMAIN cache : k \in DOMAIN cache' /\ cache'[k] = cache[k]]_vars
  <2> SUFFICES ASSUME [Next]_vars
               PROVE  \A k \in DOMAIN cache : k \in DOMAIN cache' /\ cache'[k] = cache[k]
    OBVIOUS
  <2>1. CASE UNCHANGED cache
    BY <2>1
  <2>2. ASSUME NEW t \in Thread, InsertFirst(t)
        PROVE  \A k \in DOMAIN cache : k \in DOMAIN cache' /\ cache'[k] = cache[k]
    BY <2>2 DEF InsertFirst
  <2> QED
    BY <2>1, <2>2
    DEF Next, Step, Call, Install, Uninstall, PreloadDone, ReadGuarded, GuardRefuses,
        ReadMetadata, MetadataFails, CacheHit, CacheMiss, Compile, CompileVersion,
        CompileFails, ItemWithoutParser, ItemWithoutComponent, ItemParsed, Settle, Assemble,
        fileVars, vars
<1> QED BY <1>1, Invariance, PTL DEF Spec, CachedComponentIsKept

(* Each call of a parser has the whole budget, for any budget and any need. *)
THEOREM FuelIsChargedPerCall == Spec => []FuelIsPerCall
<1>1. IInv => FuelIsPerCall
  <2> SUFFICES ASSUME IInv, NEW t \in Thread, NEW i \in Ran(t)
               PROVE  LET f == request[t].files[i]
                          floor == request[t].floor
                          budget == IF floor < SmallFuel \/ f.candidate < floor
                                    THEN floor ELSE f.candidate
                          tooMuch == {k \in 1..3 : f.needs[k] > budget}
                      IN  /\ items[t][i].outcome # "no_metering"
                          /\ items[t][i].outcome = "out_of_fuel" => floor # MaxFuel /\ tooMuch # {}
                          /\ items[t][i].outcome = "complete" /\ floor # MaxFuel => tooMuch = {}
    BY DEF FuelIsPerCall
  <2> DEFINE f == request[t].files[i]
             c == items[t][i].component
             floor == request[t].floor
             budget == IF floor < SmallFuel \/ f.candidate < floor THEN floor ELSE f.candidate
             fuel == FuelBudget(floor, f.candidate)
  <2>1. /\ c.metered = (floor # MaxFuel) /\ items[t][i].outcome = RunPair(f, c, fuel)
        /\ f.kind = "source"
    BY RanWith DEF Fits, Metered, Parsed, NeedsParser
  <2>2. /\ floor \in 0..MaxFuel /\ f.candidate \in 0..(MaxFuel - 1)
        /\ f.needs \in Seq(Nat) /\ Len(f.needs) = 3
    BY <2>1, RanWith, RequestAssumption
  <2>3. floor # MaxFuel => fuel = budget /\ fuel # MaxFuel
    BY <2>2, FuelAssumption DEF FuelBudget
  <2>4. floor = MaxFuel => fuel = MaxFuel
    BY DEF FuelBudget
  <2> HIDE DEF f, c, floor, fuel, budget
  <2>5. f.needs[1] \in Nat /\ f.needs[2] \in Nat /\ f.needs[3] \in Nat
    BY <2>2
  <2>6. RunPair(f, c, fuel) # "no_metering"
    BY <2>1, <2>3, <2>4 DEF RunPair
  <2>7. RunPair(f, c, fuel) = "out_of_fuel" =>
          floor # MaxFuel /\ \E k \in 1..3 : f.needs[k] > budget
    <3>1. floor = MaxFuel => RunPair(f, c, fuel) # "out_of_fuel"
      BY <2>1, <2>4 DEF RunPair
    <3>2. floor # MaxFuel /\ RunPair(f, c, fuel) = "out_of_fuel"
            => f.needs[1] > budget \/ f.needs[2] > budget \/ f.needs[3] > budget
      BY <2>1, <2>3 DEF RunPair, FuelBefore
    <3> QED BY <3>1, <3>2
  <2>8. RunPair(f, c, fuel) = "complete" /\ floor # MaxFuel =>
          ~ \E k \in 1..3 : f.needs[k] > budget
    BY <2>1, <2>2, <2>3, <2>5, FuelAssumption DEF RunPair, FuelBefore
  <2> QED BY <2>1, <2>6, <2>7, <2>8 DEF f, c, floor, fuel, budget
<1> QED BY <1>1, Invariance, PTL
=============================================================================
