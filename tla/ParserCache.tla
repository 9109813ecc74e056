----------------------------- MODULE ParserCache -----------------------------
(****************************************************************************)
(* The process-wide cache of compiled parser components, the batch that     *)
(* takes its components from it before its files run in parallel, and the   *)
(* fuel of a pair of sources (lib.rs).  Component files are replaced and    *)
(* removed by installers at any moment.                                     *)
(*                                                                          *)
(* A caller is a batch over the Wasm backend.  A single pair of sources     *)
(* (run_python_wasm_process_pair_detailed) looks its own component up: a    *)
(* batch of one file.                                                       *)
(****************************************************************************)
EXTENDS Naturals, Sequences, FiniteSets, Functions

CONSTANTS
  Thread,       \* callers
  Path,         \* resolved paths of component files
  Guarded,      \* the paths whose bytes must be vetted (PowerShell on Windows ARM64)
  Vetted,       \* the versions of a guarded file with the vetted digest
  Request,      \* [floor, files]: the batches callers ask for
  MaxFuel,      \* u64::MAX, "unlimited"
  SmallFuel,    \* 1_000_000, below which a budget is a hard limit
  MaxVersion,   \* bound on the versions of a component file
  MaxCalls,     \* bound on the calls
  NoComponent   \* a failed preload, an item that ran no parser

(* SHA-256 admits one build, so two vetted versions are the same bytes. *)
ASSUME VettedAssumption == Guarded \subseteq Path /\ \A v, w \in Vetted : v = w

ASSUME FuelAssumption == SmallFuel \in Nat /\ MaxFuel \in Nat /\ SmallFuel < MaxFuel

ASSUME VersionAssumption == MaxVersion \in Nat /\ MaxVersion >= 1

(* An adaptive budget grows with the sources, and stays far below u64::MAX. *)
ASSUME RequestAssumption ==
  \A r \in Request :
    /\ r.floor \in 0..MaxFuel
    /\ r.files \in Seq(Range(r.files))
    /\ \A i \in DOMAIN r.files :
         r.files[i].kind = "source" =>
           /\ r.files[i].path \in Path
           /\ r.files[i].candidate \in 0..(MaxFuel - 1)
           /\ r.files[i].needs \in Seq(Nat) /\ Len(r.files[i].needs) = 3

ASSUME ComponentAssumption ==
  NoComponent \notin [path : Path, version : 1..MaxVersion, metered : BOOLEAN]

VARIABLES
  file,      \* a component file: is it there, and which version
  cache,     \* PARSER_COMPONENT_CACHE: components by path, metadata and metering
  pc,        \* where a caller is
  request,   \* what it was called with
  entries,   \* BatchComponentPreloads.entries: the component, or an error
  bytes,     \* the version of the guarded bytes it read
  lookup,    \* the cache key of its current lookup
  made,      \* the component it has just compiled
  items,     \* how each file of the batch ended
  began,     \* the versions of its files when the call began; never read by the code
  calls      \* how many calls there were, for the bound

vars == <<file, cache, pc, request, entries, bytes, lookup, made, items, began, calls>>

NoRequest == [floor |-> 0, files |-> <<>>]
NoKey == [path |-> NoComponent, version |-> 0, metered |-> FALSE]
Pending == [outcome |-> "pending", component |-> NoComponent]

Init ==
  /\ file = [p \in Path |-> [there |-> TRUE, version |-> 1]]
  /\ cache = <<>>
  /\ pc = [t \in Thread |-> "idle"]
  /\ request = [t \in Thread |-> NoRequest]
  /\ entries = [t \in Thread |-> <<>>]
  /\ bytes = [t \in Thread |-> 0]
  /\ lookup = [t \in Thread |-> NoKey]
  /\ made = [t \in Thread |-> NoComponent]
  /\ items = [t \in Thread |-> <<>>]
  /\ began = [t \in Thread |-> <<>>]
  /\ calls = 0

Goto(t, l) == pc' = [pc EXCEPT ![t] = l]

fileVars == <<file, cache>>
callVars == <<request, items, began, calls>>

-----------------------------------------------------------------------------
(****************************************************************************)
(* Installers.                                                              *)
(****************************************************************************)

(* A new build: its length or its time of modification differ. *)
Install(p) ==
  /\ file[p].version < MaxVersion
  /\ file' = [file EXCEPT ![p] = [there |-> TRUE, version |-> @.version + 1]]
  /\ UNCHANGED <<cache, pc, request, entries, bytes, lookup, made, items, began, calls>>

Uninstall(p) ==
  /\ file[p].there
  /\ file' = [file EXCEPT ![p] = [there |-> FALSE, version |-> @.version]]
  /\ UNCHANGED <<cache, pc, request, entries, bytes, lookup, made, items, began, calls>>

-----------------------------------------------------------------------------
(****************************************************************************)
(* Fuel.  A file's parser calls are get-parser-mode, process of the old     *)
(* source and process of the new one; file.needs is what each burns.        *)
(****************************************************************************)

(* Mutant: the candidate replaces a small budget too. *)
FuelBudgetAlwaysAdaptive(floor, candidate) ==
  IF floor = MaxFuel \/ floor > candidate THEN floor ELSE candidate

FuelBudget(floor, candidate) ==
  IF floor = MaxFuel \/ floor < SmallFuel \/ floor > candidate THEN floor ELSE candidate

(* Mutant: the store's fuel is set once for the three calls. *)
FuelBeforeShared(needs, fuel, k) ==
  LET spent == [i \in 1..3 |-> IF i < k THEN needs[i] ELSE 0]
  IN  IF spent[1] + spent[2] > fuel THEN 0 ELSE fuel - (spent[1] + spent[2])

(* set_fuel precedes each of the three calls. *)
FuelBefore(needs, fuel, k) == fuel

(* run_python_wasm_process_pair_with_cached_component.  An engine that does *)
(* not meter refuses set_fuel; one that does starts a store with no fuel.   *)
RunPair(f, component, fuel) ==
  LET limited == fuel # MaxFuel
      start == IF limited THEN fuel ELSE 0
      starves(k) == component.metered /\ f.needs[k] > FuelBefore(f.needs, start, k)
  IN  IF limited /\ ~ component.metered THEN "no_metering"
      ELSE IF starves(1) \/ starves(2) THEN "out_of_fuel"
      ELSE IF f.hostError = "old" THEN "host_error"
      ELSE IF starves(3) THEN "out_of_fuel"
      ELSE IF f.hostError = "new" THEN "host_error"
      ELSE "complete"

-----------------------------------------------------------------------------
(****************************************************************************)
(* preload_batch_components: one lookup for each path some file of the      *)
(* batch will need, in the order of the files.                              *)
(****************************************************************************)
(* Files of other languages or plugins, and equal sources, need no parser. *)
NeedsParser(f) == f.kind = "source"

Needed(r) == {f.path : f \in {g \in Range(r.files) : NeedsParser(g)}}

Call(t, r) ==
  /\ pc[t] = "idle"
  /\ calls < MaxCalls
  /\ calls' = calls + 1
  /\ Goto(t, "preload")
  /\ request' = [request EXCEPT ![t] = r]
  /\ entries' = [entries EXCEPT ![t] = <<>>]
  /\ items' = [items EXCEPT ![t] = [i \in DOMAIN r.files |-> Pending]]
  /\ began' = [began EXCEPT ![t] = [p \in Needed(r) |-> file[p].version]]
  /\ UNCHANGED <<fileVars, bytes, lookup, made>>

Unloaded(t) ==
  {i \in DOMAIN request[t].files :
     /\ NeedsParser(request[t].files[i])
     /\ request[t].files[i].path \notin DOMAIN entries[t]}

Current(t) ==
  request[t].files[CHOOSE i \in Unloaded(t) : \A j \in Unloaded(t) : i <= j].path

Metered(t) == request[t].floor # MaxFuel

AddEntry(t, component) ==
  /\ entries' = [entries EXCEPT ![t] =
                   [p \in DOMAIN @ \cup {Current(t)} |->
                      IF p = Current(t) THEN component ELSE @[p]]]
  /\ bytes' = [bytes EXCEPT ![t] = 0]
  /\ lookup' = [lookup EXCEPT ![t] = NoKey]
  /\ made' = [made EXCEPT ![t] = NoComponent]
  /\ Goto(t, "preload")

-----------------------------------------------------------------------------
(****************************************************************************)
(* cached_parser_component.  The test that the path exists, just before, is *)
(* part of its first step: a file that is missing then, or by then, gives   *)
(* the path an error.                                                       *)
(****************************************************************************)

(* "Check the exact bytes before a cache hit or compilation, and compile    *)
(* those same bytes."                                                       *)
ReadGuarded(t) ==
  /\ pc[t] = "preload"
  /\ Unloaded(t) # {}
  /\ Current(t) \in Guarded
  /\ file[Current(t)].there
  /\ file[Current(t)].version \in Vetted
  /\ bytes' = [bytes EXCEPT ![t] = file[Current(t)].version]
  /\ Goto(t, "key")
  /\ UNCHANGED <<fileVars, callVars, entries, lookup, made>>

GuardRefuses(t) ==
  /\ pc[t] = "preload"
  /\ Unloaded(t) # {}
  /\ Current(t) \in Guarded
  /\ ~ file[Current(t)].there \/ file[Current(t)].version \notin Vetted
  /\ AddEntry(t, NoComponent)
  /\ UNCHANGED <<fileVars, callVars>>

AtKey(t) ==
  \/ pc[t] = "key"
  \/ pc[t] = "preload" /\ Unloaded(t) # {} /\ Current(t) \notin Guarded

(* Mutant: the key is the path and the metering. *)
KeyOfPath(p, version, metered) == [path |-> p, version |-> 0, metered |-> metered]

(* Mutant: components with and without metering share an entry. *)
KeyUnmetered(p, version, metered) == [path |-> p, version |-> version, metered |-> FALSE]

(* The length and time of modification tell two versions of a file apart. *)
KeyOf(p, version, metered) == [path |-> p, version |-> version, metered |-> metered]

(* parser_component_cache_key *)
ReadMetadata(t) ==
  /\ AtKey(t)
  /\ file[Current(t)].there
  /\ lookup' = [lookup EXCEPT ![t] =
                  KeyOf(Current(t), file[Current(t)].version, Metered(t))]
  /\ Goto(t, "check")
  /\ UNCHANGED <<fileVars, callVars, entries, bytes, made>>

MetadataFails(t) ==
  /\ AtKey(t)
  /\ ~ file[Current(t)].there
  /\ AddEntry(t, NoComponent)
  /\ UNCHANGED <<fileVars, callVars>>

CacheHit(t) ==
  /\ pc[t] = "check"
  /\ lookup[t] \in DOMAIN cache
  /\ AddEntry(t, cache[lookup[t]])
  /\ UNCHANGED <<fileVars, callVars>>

CacheMiss(t) ==
  /\ pc[t] = "check"
  /\ lookup[t] \notin DOMAIN cache
  /\ Goto(t, "compile")
  /\ UNCHANGED <<fileVars, callVars, entries, bytes, lookup, made>>

CompileVersion(t, version) ==
  /\ made' = [made EXCEPT ![t] =
                [path |-> Current(t), version |-> version, metered |-> Metered(t)]]
  /\ Goto(t, "insert")
  /\ UNCHANGED <<fileVars, callVars, entries, bytes, lookup>>

(* Mutant: the bytes are checked, and the file is read again. *)
CompileFile(t) ==
  /\ pc[t] = "compile"
  /\ file[Current(t)].there
  /\ CompileVersion(t, file[Current(t)].version)

(* Component::new from the bytes checked, or Component::from_file from what *)
(* is there by now.  The lock is not held.                                  *)
Compile(t) ==
  /\ pc[t] = "compile"
  /\ \/ Current(t) \in Guarded /\ CompileVersion(t, bytes[t])
     \/ /\ Current(t) \notin Guarded
        /\ file[Current(t)].there
        /\ CompileVersion(t, file[Current(t)].version)

(* The file is gone, or is no component. *)
CompileFails(t) ==
  /\ pc[t] = "compile"
  /\ AddEntry(t, NoComponent)
  /\ UNCHANGED <<fileVars, callVars>>

(* Mutant: insert(..), so the last compilation is the cached one. *)
InsertLast(t) ==
  /\ pc[t] = "insert"
  /\ cache' = [k \in DOMAIN cache \cup {lookup[t]} |->
                 IF k = lookup[t] THEN made[t] ELSE cache[k]]
  /\ AddEntry(t, made[t])
  /\ UNCHANGED <<file, callVars>>

(* entry(key).or_insert_with(..): the first compilation is kept. *)
InsertFirst(t) ==
  /\ pc[t] = "insert"
  /\ cache' = [k \in DOMAIN cache \cup {lookup[t]} |->
                 IF k \in DOMAIN cache THEN cache[k] ELSE made[t]]
  /\ AddEntry(t, cache'[lookup[t]])
  /\ UNCHANGED <<file, callVars>>

PreloadDone(t) ==
  /\ pc[t] = "preload"
  /\ Unloaded(t) = {}
  /\ Goto(t, "items")
  /\ UNCHANGED <<fileVars, callVars, entries, bytes, lookup, made>>

-----------------------------------------------------------------------------
(****************************************************************************)
(* The files, on a pool of workers, in any order.  A pair runs in a store   *)
(* of its own, so one step.                                                 *)
(****************************************************************************)
Settle(t, i, outcome, component) ==
  /\ items' = [items EXCEPT ![t][i] = [outcome |-> outcome, component |-> component]]
  /\ UNCHANGED <<fileVars, pc, request, entries, bytes, lookup, made, began, calls>>

(* Mutant: each worker compiles its component from the file as it is. *)
LookUpAgain(t, f) ==
  [path |-> f.path, version |-> file[f.path].version, metered |-> Metered(t)]

(* preloads.lookup: the error of the preload, or its component. *)
LookUp(t, f) == entries[t][f.path]

ItemWithoutParser(t, i) ==
  LET f == request[t].files[i]
  IN  /\ pc[t] = "items"
      /\ items[t][i] = Pending
      /\ ~ NeedsParser(f)
      /\ Settle(t, i, IF f.kind = "equal" THEN "complete" ELSE "fallback", NoComponent)

ItemWithoutComponent(t, i) ==
  LET f == request[t].files[i]
  IN  /\ pc[t] = "items"
      /\ items[t][i] = Pending
      /\ NeedsParser(f)
      /\ LookUp(t, f) = NoComponent
      /\ Settle(t, i, "fallback", NoComponent)

ItemParsed(t, i) ==
  LET f == request[t].files[i]
      fuel == FuelBudget(request[t].floor, f.candidate)
  IN  /\ pc[t] = "items"
      /\ items[t][i] = Pending
      /\ NeedsParser(f)
      /\ LookUp(t, f) # NoComponent
      /\ Settle(t, i, RunPair(f, LookUp(t, f), fuel), LookUp(t, f))

(* The batch is whole, and its locals are dropped. *)
Assemble(t) ==
  /\ pc[t] = "items"
  /\ \A i \in DOMAIN items[t] : items[t][i] # Pending
  /\ Goto(t, "idle")
  /\ request' = [request EXCEPT ![t] = NoRequest]
  /\ entries' = [entries EXCEPT ![t] = <<>>]
  /\ items' = [items EXCEPT ![t] = <<>>]
  /\ began' = [began EXCEPT ![t] = <<>>]
  /\ UNCHANGED <<fileVars, bytes, lookup, made, calls>>

Step(t) ==
  \/ PreloadDone(t)
  \/ ReadGuarded(t) \/ GuardRefuses(t)
  \/ ReadMetadata(t) \/ MetadataFails(t)
  \/ CacheHit(t) \/ CacheMiss(t)
  \/ Compile(t) \/ CompileFails(t) \/ InsertFirst(t)
  \/ \E i \in DOMAIN items[t] :
       ItemWithoutParser(t, i) \/ ItemWithoutComponent(t, i) \/ ItemParsed(t, i)
  \/ Assemble(t)

Next ==
  \/ \E t \in Thread : (\E r \in Request : Call(t, r)) \/ Step(t)
  \/ \E p \in Path : Install(p) \/ Uninstall(p)

Spec == Init /\ [][Next]_vars

-----------------------------------------------------------------------------
(****************************************************************************)
(* Properties.                                                              *)
(****************************************************************************)
Components ==
  [path : Path, version : 1..MaxVersion, metered : BOOLEAN] \cup {NoComponent}

TypeOK ==
  /\ \A p \in Path : file[p].there \in BOOLEAN /\ file[p].version \in 1..MaxVersion
  /\ \A k \in DOMAIN cache :
       /\ cache[k] \in Components \ {NoComponent}
       /\ cache[k].path = k.path /\ cache[k].metered = k.metered
  /\ pc \in [Thread -> {"idle", "preload", "key", "check", "compile", "insert", "items"}]
  /\ \A t \in Thread :
       /\ \A p \in DOMAIN entries[t] :
            entries[t][p] \in {c \in Components : c = NoComponent \/ c.path = p}
       /\ made[t] \in Components
       /\ made[t] # NoComponent <=> pc[t] = "insert"
       /\ DOMAIN items[t] = DOMAIN request[t].files

Ran(t) == {i \in DOMAIN items[t] : items[t][i].component # NoComponent}

(* A file is parsed by no component older than the one that was installed   *)
(* when its caller called, whoever compiled it, under whichever metadata.   *)
ParsesWithCurrentComponent ==
  \A t \in Thread : \A i \in Ran(t) :
    items[t][i].component.version >= began[t][items[t][i].component.path]

(* "One lookup per distinct path": all the files of a batch that name one   *)
(* component run the same build of it, although it is replaced while they   *)
(* run.                                                                     *)
BatchRunsOneBuild ==
  \A t \in Thread : \A i, j \in Ran(t) :
    request[t].files[i].path = request[t].files[j].path
      => items[t][i].component = items[t][j].component

(* Two callers whose lookups agree in path, metadata and metering go on     *)
(* with one component: what is in the cache is never exchanged.             *)
CachedComponentIsKept ==
  [][\A k \in DOMAIN cache : k \in DOMAIN cache' /\ cache'[k] = cache[k]]_vars

(* Guarded bytes that are not vetted are never compiled: neither cached nor *)
(* run, however often the file is exchanged between check and use.          *)
GuardedIsVetted ==
  /\ \A k \in DOMAIN cache : k.path \in Guarded => cache[k].version \in Vetted
  /\ \A t \in Thread : \A i \in Ran(t) :
       request[t].files[i].path \in Guarded => items[t][i].component.version \in Vetted

(* What a call of a parser burns is charged to that call alone: a pair runs *)
(* out of fuel exactly if one of its calls by itself needs more than the    *)
(* budget, and never with an unlimited one.  A budget below the threshold   *)
(* is not raised, and no store meets an engine of the other metering.       *)
FuelIsPerCall ==
  \A t \in Thread : \A i \in Ran(t) :
    LET f == request[t].files[i]
        floor == request[t].floor
        budget == IF floor < SmallFuel \/ f.candidate < floor THEN floor ELSE f.candidate
        tooMuch == {k \in 1..3 : f.needs[k] > budget}
    IN  /\ items[t][i].outcome # "no_metering"
        /\ items[t][i].outcome = "out_of_fuel" => floor # MaxFuel /\ tooMuch # {}
        /\ items[t][i].outcome = "complete" /\ floor # MaxFuel => tooMuch = {}
=============================================================================
