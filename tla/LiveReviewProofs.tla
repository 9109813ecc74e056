--------------------------- MODULE LiveReviewProofs ---------------------------
(****************************************************************************)
(* Proofs about LiveReview, for any repository, any requests, any number of *)
(* commits, files and dialects.                                             *)
(*                                                                          *)
(* The argument follows the review: a stage is entered with the request and *)
(* the commits the earlier stages resolved (Staged), the rows it collects   *)
(* are of the commit that was resolved first (OldSides), and the diffs it   *)
(* adds one by one are of the rows they stand for (Diffs).                  *)
(****************************************************************************)
EXTENDS LiveReview, FiniteSetTheorems, SequenceTheorems, TLAPS

Codes == {"R", "D", "A", "M", "U"}
Entries == [code : Codes, old : Path, new : Path]
RowSet ==
  [old : Source, new : Source, oldPath : Path, newPath : Path,
   staging : {"", "staged", "unstaged", "untracked"}]

Scopes == Dialects \cup {NoScope}

DiffSet ==
  [row : Nat, parser : {"python", "wasm", "none"}, outcome : Outcomes, profile : Scopes,
   matched : Scopes, violations : SUBSET {"rule", "policy_file"}]

Before == {"idle", "resolve", "resolveNew", "labels", "inventory", "baseline"}
Collecting == {"labels", "inventory", "baseline", "read", "readUntracked"}
Reviewing == {"policy", "policyRead", "parsers", "symbols", "batch", "files", "match"}

Repository ==
  /\ commits \in Seq(Tree) /\ Len(commits) >= 1
  /\ head \in 1..Len(commits) /\ upstream \in 1..Len(commits)
  /\ index \in Tree /\ disk \in Tree

Collection ==
  /\ oldCommit \in 0..Len(commits) /\ newCommit \in 0..Len(commits)
  /\ baseline \in Tree
  /\ pc \in Stages
  /\ staged \in SUBSET Path
  /\ todo \in Seq(Entries)
  /\ rows \in Seq(RowSet)

Contexts ==
  /\ steady \in SUBSET Path
  /\ answer.kind \in {"none", "error", "fallback", "served"}
  /\ answer # NoAnswer <=> pc = "done"
  /\ answer.kind = "none" <=> pc # "done"
  /\ profiles \in Dialects /\ registry \in Dialects
  /\ rules \in {"none", "rules"}

(* What a stage may rely on. *)
Staged ==
  /\ pc # "idle" => request \in Request
  /\ pc \in Collecting =>
       /\ Mode # "single"
       /\ Live => oldCommit >= 1
       /\ Mode = "between" => newCommit >= 1
  /\ pc = "resolveNew" => Mode = "between" /\ oldCommit >= 1
  /\ pc = "resolve" => Live
  /\ pc = "baseline" => ~ Live
  /\ pc \in Reviewing => Live
  /\ pc = "commit" /\ Live => PythonRows = DOMAIN rows

(* Every old side is of the commit the old ref was resolved to. *)
OldSides ==
  /\ pc \in Before => rows = <<>>
  /\ Live => \A i \in DOMAIN rows :
       rows[i].old # Absent =>
         oldCommit >= 1 /\ rows[i].old = commits[oldCommit][rows[i].oldPath]

(* The diffs are those of the first rows. *)
Diffs ==
  /\ diffs \in Seq(DiffSet) /\ Len(diffs) <= Len(rows)
  /\ pc \notin {"files", "match", "done"} => diffs = <<>>
  /\ pc = "match" => Current \in DOMAIN rows \ PythonRows
  /\ \A i \in DOMAIN diffs :
       /\ diffs[i].row = i
       /\ diffs[i].parser = RowLanguage(i)
       /\ Live => diffs[i].outcome = "clean"
       /\ pc \in {"files", "match"} /\ RowLanguage(i) # "python"
            => PolicyViolation(rows[i]) \subseteq diffs[i].violations
  /\ Served => Len(diffs) = Len(rows)

Scoped ==
  /\ scope = resolved
  /\ scope # NoScope <=> pc = "match"
  /\ scope \in Scopes

Reading == {"read", "readUntracked"}

(* Where a change is: in a row, in the inventory, or among the untracked    *)
(* files, which are listed last.                                            *)
Found(p) == \E i \in DOMAIN rows : p \in {rows[i].oldPath, rows[i].newPath}
ToBeRead(p) == \E i \in DOMAIN todo : p \in {todo[i].old, todo[i].new}
ToBeListed(p) ==
  Mode = "tree" /\ pc = "read" /\ index[p] = Absent /\ OldTree[p] = Absent

(* A path that is expected is changed, it is somewhere, and its entry will  *)
(* not be excluded when it is read.                                         *)
Kept ==
  /\ \A p \in steady : p \in Changed
  /\ pc \in {"idle", "resolve"} \/ Mode = "single" => steady = {}
  /\ pc \in Reading /\ Live =>
       \A p \in steady, i \in DOMAIN todo :
         p \in {todo[i].old, todo[i].new} =>
           IsText(OldTree[todo[i].old]) /\ IsText(NewTree[todo[i].new])
  /\ pc \in Reading \cup {"baseline"} \/ (pc = "labels" /\ ~ Live) =>
       \A p \in steady : Found(p) \/ ToBeRead(p) \/ ToBeListed(p)
  /\ pc \in Reviewing \cup {"commit"} \/ Served => \A p \in steady : Found(p)
-----------------------------------------------------------------------------
(* The inventory as a sequence. *)

(* A finite set has an enumeration, so SetToSeq is one. *)
LEMMA SeqOfSet ==
  ASSUME NEW S, IsFiniteSet(S)
  PROVE  SetToSeq(S) \in Seq(S)
<1>1. Cardinality(S) \in Nat /\ ExistsBijection(1..Cardinality(S), S)
  BY FS_CardinalityType
<1>2. \E f \in [1..Cardinality(S) -> S] : IsInjective(f)
  BY <1>1 DEF ExistsBijection, Bijection, Injection, IsInjective
<1>3. SetToSeq(S) \in [1..Cardinality(S) -> S]
  BY <1>2 DEF SetToSeq
<1> QED BY <1>1, <1>3

(* It has every member of the set. *)
LEMMA SeqOfSetIsOnto ==
  ASSUME NEW S, IsFiniteSet(S), NEW x \in S
  PROVE  \E i \in DOMAIN SetToSeq(S) : SetToSeq(S)[i] = x
<1> DEFINE n == Cardinality(S)
           f == SetToSeq(S)
<1>1. n \in Nat /\ ExistsBijection(1..n, S)
  BY FS_CardinalityType
<1>2. \E g \in [1..n -> S] : IsInjective(g)
  BY <1>1 DEF ExistsBijection, Bijection, Injection, IsInjective
<1>3. f \in [1..n -> S] /\ IsInjective(f)
  BY <1>2 DEF SetToSeq
<1> HIDE DEF f
<1>4. f \in Injection(1..n, S)
  BY <1>3 DEF IsInjective, Injection
<1>5. IsFiniteSet(1..n) /\ Cardinality(1..n) = n
  BY <1>1, FS_Interval
<1>6. f \in Surjection(1..n, S)
  BY <1>4, <1>5, FS_Injection
<1>7. PICK i \in 1..n : f[i] = x
  BY <1>6 DEF Surjection
<1>8. i \in DOMAIN f
  BY <1>3
<1> QED BY <1>7, <1>8 DEF f

LEMMA EntriesFinite == IsFiniteSet(Entries)
<1> DEFINE code == <<"R", "D", "A", "M", "U">>
           Triples == (1..5) \X (Path \X Path)
           f == [x \in Triples |-> Entry(code[x[1]], x[2][1], x[2][2])]
<1>1. IsFiniteSet(1..5)
  <2>1. \A a, b \in Int : IsFiniteSet(a..b)
    BY FS_Interval
  <2>2. 1 \in Int /\ 5 \in Int
    OBVIOUS
  <2> QED BY <2>1, <2>2, Zenon
<1>2. IsFiniteSet(Triples)
  BY <1>1, RepositoryAssumption, FS_Product
<1>3. \A c \in Codes : \E i \in 1..5 : code[i] = c
  BY DEF Codes
<1>4. \A i \in 1..5 : code[i] \in Codes
  BY DEF Codes
<1>5. f \in [Triples -> Entries]
  BY <1>4 DEF Entry, Entries
<1>6. ASSUME NEW e \in Entries PROVE \E x \in Triples : f[x] = e
  <2>1. PICK i \in 1..5 : code[i] = e.code
    BY <1>3 DEF Entries
  <2>2. <<i, <<e.old, e.new>>>> \in Triples
    BY DEF Entries
  <2>3. f[<<i, <<e.old, e.new>>>>] = e
    BY <2>1, <2>2 DEF Entry, Entries
  <2> QED BY <2>2, <2>3
<1>7. f \in Surjection(Triples, Entries)
  BY <1>5, <1>6 DEF Surjection
<1> QED BY <1>2, <1>7, FS_Surjection

LEMMA InventoryFinite ==
  ASSUME NEW old \in Tree, NEW new \in Tree, NEW R \in Renames(old, new)
  PROVE  NameStatus(old, new, R) \in SUBSET Entries /\ IsFiniteSet(NameStatus(old, new, R))
<1>1. R \subseteq Path \X Path
  BY DEF Renames, Renamable, Deleted, Added
<1>2. NameStatus(old, new, R) \in SUBSET Entries
  BY <1>1 DEF NameStatus, Entry, Entries, Codes, Deleted, Added, Modified
<1> QED BY <1>2, EntriesFinite, FS_Subset

LEMMA InventoryType ==
  ASSUME NEW old \in Tree, NEW new \in Tree, NEW R \in Renames(old, new)
  PROVE  SetToSeq(NameStatus(old, new, R)) \in Seq(Entries)
<1>1. NameStatus(old, new, R) \in SUBSET Entries /\ IsFiniteSet(NameStatus(old, new, R))
  BY InventoryFinite
<1>2. SetToSeq(NameStatus(old, new, R)) \in Seq(NameStatus(old, new, R))
  BY <1>1, SeqOfSet
<1> QED BY <1>1, <1>2

(* Git lists every difference, whatever it takes for a rename. *)
LEMMA InventoryFinds ==
  ASSUME NEW old \in Tree, NEW new \in Tree, NEW R \in Renames(old, new),
         NEW p \in Path, old[p] # new[p]
  PROVE  \E e \in NameStatus(old, new, R) : p \in {e.old, e.new}
<1>1. ASSUME NEW e \in NameStatus(old, new, R), p = e.old \/ p = e.new
      PROVE  \E d \in NameStatus(old, new, R) : p \in {d.old, d.new}
  BY <1>1
<1>2. CASE new[p] = Absent
  <2>1. CASE \E r \in R : p = r[1]
    <3>1. PICK r \in R : p = r[1]
      BY <2>1
    <3>2. Entry("R", r[1], r[2]) \in NameStatus(old, new, R)
      BY DEF NameStatus
    <3> QED BY <3>1, <3>2, <1>1 DEF Entry
  <2>2. CASE p \notin {r[1] : r \in R}
    <3>1. Entry("D", p, p) \in NameStatus(old, new, R)
      BY <1>2, <2>2 DEF NameStatus, Deleted
    <3> QED BY <3>1, <1>1 DEF Entry
  <2> QED BY <2>1, <2>2
<1>3. CASE old[p] = Absent
  <2>1. CASE \E r \in R : p = r[2]
    <3>1. PICK r \in R : p = r[2]
      BY <2>1
    <3>2. Entry("R", r[1], r[2]) \in NameStatus(old, new, R)
      BY DEF NameStatus
    <3> QED BY <3>1, <3>2, <1>1 DEF Entry
  <2>2. CASE p \notin {r[2] : r \in R}
    <3>1. Entry("A", p, p) \in NameStatus(old, new, R)
      BY <1>3, <2>2 DEF NameStatus, Added
    <3> QED BY <3>1, <1>1 DEF Entry
  <2> QED BY <2>1, <2>2
<1>4. CASE old[p] # Absent /\ new[p] # Absent
  <2>1. Entry("M", p, p) \in NameStatus(old, new, R)
    BY <1>4 DEF NameStatus, Modified
  <2> QED BY <2>1, <1>1 DEF Entry
<1> QED BY <1>2, <1>3, <1>4

LEMMA InventoryIsListed ==
  ASSUME NEW old \in Tree, NEW new \in Tree, NEW R \in Renames(old, new),
         NEW p \in Path, old[p] # new[p]
  PROVE  LET s == SetToSeq(NameStatus(old, new, R))
         IN  \E i \in DOMAIN s : p \in {s[i].old, s[i].new}
<1>1. PICK e \in NameStatus(old, new, R) : p \in {e.old, e.new}
  BY InventoryFinds
<1>2. PICK i \in DOMAIN SetToSeq(NameStatus(old, new, R)) : SetToSeq(NameStatus(old, new, R))[i] = e
  BY <1>1, InventoryFinite, SeqOfSetIsOnto
<1> QED BY <1>1, <1>2
-----------------------------------------------------------------------------
(* What the parts of the system leave alone. *)

LEMMA ReviewFrame == Review => UNCHANGED <<repoVars, readVars>>
BY DEF Review, PolicyAbsent, PolicyFound, PolicyRead, PolicyDefers, ResolveParsers,
       IndexSymbols, IndexSymbolsFails, CommitJson, CommitAnswer, Batch, FilePython,
       SinglePython, FileDeclined, EnterScope, FileWasm, Assemble, Answer, Continue, Serve

LEMMA CollectFrame == Collect => UNCHANGED repoVars
BY DEF Collect, Start, ResolveOld, ResolveNew, ReadEditor, Labels, Inventory, ReadBaseline,
       ReadEntry, AddRows, ListUntracked, Collected, CollectionFails, repoVars

LEMMA UserFrame ==
  User => UNCHANGED <<pc, request, oldCommit, newCommit, staged, baseline, todo, rows, answer>>
BY DEF User, Add, Untrack, Edit, Commit, Push, UserStep

OthersStep == \E d \in Dialects : EditProfiles(d) \/ SetRegistry(d)

LEMMA OthersFrame ==
  OthersStep => UNCHANGED <<commits, head, upstream, index, disk, pc, readVars, answer,
                            scope, resolved, reviewVars>>
BY DEF OthersStep, EditProfiles, SetRegistry

(* A step is one of these five. *)
LEMMA Steps ==
  ASSUME [Next]_vars
  PROVE  \/ User /\ UNCHANGED <<xmlVars, reviewVars>>
         \/ Collect /\ UNCHANGED <<xmlVars, reviewVars>>
         \/ Review
         \/ OthersStep
         \/ UNCHANGED vars
BY DEF Next, OthersStep

-----------------------------------------------------------------------------
(* The repository: commits are only ever added. *)
LEMMA RepositoryStep ==
  Repository /\ [Next]_vars
    => Repository' /\ \A c \in 1..Len(commits) : c \in 1..Len(commits') /\ commits'[c] = commits[c]
<1> SUFFICES ASSUME Repository, [Next]_vars
             PROVE  Repository' /\ \A c \in 1..Len(commits) : c \in 1..Len(commits') /\ commits'[c] = commits[c]
  OBVIOUS
<1>1. CASE UNCHANGED <<commits, head, upstream, index, disk>>
  BY <1>1 DEF Repository
<1>2. ASSUME NEW p \in Path, Add(p) PROVE UNCHANGED <<commits, head, upstream>> /\ UNCHANGED disk /\ index' \in Tree
  BY <1>2 DEF Add, Repository, Tree
<1>3. ASSUME NEW p \in Path, Untrack(p) PROVE UNCHANGED <<commits, head, upstream>> /\ UNCHANGED disk /\ index' \in Tree
  BY <1>3 DEF Untrack, Repository, Tree
<1>4. ASSUME NEW p \in Path, NEW c \in Content \cup {Absent}, Edit(p, c)
      PROVE  UNCHANGED <<commits, head, upstream>> /\ UNCHANGED index /\ disk' \in Tree
  BY <1>4 DEF Edit, Repository, Tree
<1>5. CASE Commit
  <2>1. /\ commits' \in Seq(Tree) /\ Len(commits') = Len(commits) + 1
        /\ \A c \in 1..Len(commits) : commits'[c] = commits[c]
    BY <1>5, AppendProperties DEF Commit, Repository
  <2>2. head' = Len(commits') /\ UNCHANGED <<upstream, index, disk>>
    BY <1>5 DEF Commit
  <2> QED BY <2>1, <2>2 DEF Repository
<1>6. CASE Push
  BY <1>6 DEF Push, Repository
<1>7. CASE User
  BY <1>2, <1>3, <1>4, <1>5, <1>6, <1>7 DEF User, Repository
<1> QED
  BY <1>1, <1>7, Steps, ReviewFrame, CollectFrame, OthersFrame
  DEF repoVars, vars, collectionVars
-----------------------------------------------------------------------------
(* The collection. *)
Shape == Repository /\ Collection /\ Contexts /\ Staged

(* The trees that are compared are trees. *)
LEMMA Trees ==
  ASSUME Shape, pc \in Collecting
  PROVE  OldTree \in Tree /\ NewTree \in Tree /\ Seen \in Tree
<1>1. Tracked \in Tree
  BY DEF Shape, Repository, Tracked, Tree
<1>2. \A c \in 1..Len(commits) : commits[c] \in Tree
  BY DEF Shape, Repository
<1>3. Mode \in {"tree", "staged", "between", "certified"}
  BY RequestAssumption DEF Shape, Staged, Collecting, Modes, Mode
<1>4. OldTree \in Tree
  BY <1>2, <1>3 DEF Shape, Repository, Collection, Staged, Live, OldTree
<1>5. NewTree \in Tree
  BY <1>1, <1>2, <1>3 DEF Shape, Repository, Collection, Staged, NewTree
<1> QED BY <1>1, <1>4, <1>5 DEF Seen

(* A row that is read is a row. *)
LEMMA RowType ==
  ASSUME Shape, pc \in {"read", "readUntracked"}, NEW e \in Entries
  PROVE  Row(e) \in RowSet
<1>1. OldTree \in Tree /\ NewTree \in Tree
  BY Trees DEF Collecting
<1>2. OldBlob(e.old) \in Source
  BY <1>1 DEF OldBlob, OldTree, Shape, Collection, Tree, Source, Entries
<1>3. NewSource(e) \in Source
  BY <1>1 DEF NewSource, Shape, Repository, Tree, Source, Entries
<1>4. OldSource(e) \in Source
  BY <1>2 DEF OldSource, Source
<1>5. Staging(e) \in {"", "staged", "unstaged", "untracked"}
  BY DEF Staging, IsStaged
<1> QED BY <1>3, <1>4, <1>5 DEF Row, RowSet, Entries

LEMMA ReadEntryStep ==
  ASSUME Shape, ReadEntry
  PROVE  /\ \/ rows' = rows
            \/ todo # <<>> /\ rows' = rows \o <<Row(Head(todo))>> /\ Row(Head(todo)) \in RowSet
         /\ todo' \in Seq(Entries) /\ rows' \in Seq(RowSet)
         /\ UNCHANGED <<request, oldCommit, newCommit, staged, baseline, steady>>
         /\ \/ UNCHANGED <<pc, answer>>
            \/ UNCHANGED rows /\ pc' = "done"
               /\ answer' = [kind |-> IF Mode = "certified" THEN "error" ELSE "fallback"]
<1> DEFINE e == Head(todo)
<1>1. e \in Entries /\ Tail(todo) \in Seq(Entries)
  BY HeadTailProperties DEF Shape, Collection, ReadEntry
<1>2. Row(e) \in RowSet
  BY <1>1, RowType DEF ReadEntry
<1>3. rows \o <<Row(e)>> \in Seq(RowSet) /\ rows \o <<>> = rows
  BY <1>2 DEF Shape, Collection
<1>4. CASE CollectionFails
  BY <1>4 DEF CollectionFails, readVars, Goto, Shape, Collection
<1>5. CASE AddRows(<<>>)
  BY <1>5, <1>1, <1>3 DEF AddRows, Shape, Collection
<1>6. CASE AddRows(<<Row(e)>>)
  BY <1>6, <1>1, <1>2, <1>3 DEF AddRows, ReadEntry
<1> QED BY <1>4, <1>5, <1>6 DEF ReadEntry

LEMMA CollectStep ==
  Shape /\ Collect /\ UNCHANGED <<xmlVars, reviewVars>> => (Collection /\ Contexts /\ Staged)'
<1> DEFINE Goal == (Collection /\ Contexts /\ Staged)'
<1> SUFFICES ASSUME Shape, Collect, UNCHANGED <<xmlVars, reviewVars>> PROVE Goal
  OBVIOUS
<1> USE DEF Goto, Mode, Live, NoAnswer, Stages, Collecting, Reviewing
<1>0. /\ Collection /\ Contexts /\ Staged /\ Repository
      /\ UNCHANGED <<profiles, registry, scope, resolved, rules, batch, diffs>>
      /\ UNCHANGED <<commits, head, upstream, index, disk, steps>>
  BY CollectFrame DEF Shape, xmlVars, reviewVars, repoVars
<1>1. ASSUME NEW r \in Request, Start(r) PROVE Goal
  BY <1>0, <1>1, RequestAssumption DEF Start, Collection, Contexts, Staged, Modes, PythonRows, RowLanguage
<1>2. CASE ResolveOld
  BY <1>0, <1>2, RequestAssumption
  DEF ResolveOld, Repository, Collection, Contexts, Staged, Modes, Changed
<1>3. CASE ResolveNew
  BY <1>0, <1>3, RequestAssumption
  DEF ResolveNew, Repository, Collection, Contexts, Staged, Modes, Changed
<1>4. CASE ReadEditor
  <2> DEFINE old == commits[head][request.path]
             row == [old |-> old, new |-> request.content, oldPath |-> request.path,
                     newPath |-> request.path, staging |-> ""]
  <2>1. request \in Request /\ request.path \in Path /\ request.content \in Content
    BY <1>0, <1>4, RequestAssumption DEF ReadEditor, Staged
  <2>2. old \in Source
    BY <1>0, <2>1 DEF Repository, Tree, Source
  <2>3. /\ UNCHANGED <<request, newCommit, staged, baseline, todo, steady>> /\ oldCommit' = head
        /\ \/ pc' = "done" /\ answer' = [kind |-> "error"] /\ rows' = rows
           \/ pc' = "parsers" /\ answer' = answer /\ rows' = <<row>>
    BY <1>4 DEF ReadEditor
  <2> HIDE DEF old
  <2>4. row \in RowSet
    BY <2>1, <2>2 DEF RowSet, Source
  <2> HIDE DEF row
  <2>5. <<row>> \in Seq(RowSet)
    BY <2>4
  <2>6. Collection'
    <3>1. rows' \in Seq(RowSet)
      BY <1>0, <2>3, <2>5 DEF Collection
    <3>2. oldCommit' \in 0..Len(commits) /\ commits' = commits
      BY <1>0, <2>3 DEF Repository
    <3> QED BY <1>0, <2>3, <3>1, <3>2 DEF Collection
  <2>7. pc = "resolve" /\ request \in Request /\ Mode = "single"
    BY <2>1, <1>4 DEF ReadEditor
  <2>8. Contexts'
    BY <1>0, <2>3, <2>7 DEF Contexts
  <2>9. Staged'
    BY <1>0, <2>3, <2>7 DEF Staged
  <2> QED BY <2>6, <2>8, <2>9
<1>5. CASE Labels
  BY <1>0, <1>5 DEF Labels, Collection, Contexts, Staged
<1>6. CASE Inventory
  <2>1. PICK R \in Renames(OldTree, Seen) :
          LET entries == NameStatus(OldTree, Seen, R)
          IN  \/ CollectionFails
              \/ /\ todo' = SetToSeq(entries)
                 /\ steady' = Changed \/ steady' = steady \cap WithText(entries)
                 /\ pc' = (CASE Mode # "certified" -> "read"
                            [] Mode = "certified" /\ entries = {} -> "commit"
                            [] OTHER -> "labels")
                 /\ UNCHANGED <<request, oldCommit, newCommit, staged, baseline, rows, answer>>
    BY <1>6, Zenon DEF Inventory
  <2>2. SetToSeq(NameStatus(OldTree, Seen, R)) \in Seq(Entries)
    BY <1>6, Trees, InventoryType DEF Inventory
  <2>3. Changed \subseteq Path
    BY DEF Changed
  <2>4. CASE CollectionFails
    BY <1>0, <1>6, <2>4 DEF CollectionFails, readVars, Inventory, Collection, Contexts, Staged
  <2>5. CASE ~ CollectionFails
    <3>1. pc = "inventory" /\ pc' \in {"read", "commit", "labels"}
      BY <1>6, <2>1, <2>5 DEF Inventory
    <3>2. Mode # "certified" => pc' = "read"
      BY <2>1, <2>5
    <3>3. todo' \in Seq(Entries) /\ steady' \in SUBSET Path
      BY <1>0, <2>1, <2>2, <2>3, <2>5 DEF Contexts
    <3>4. UNCHANGED <<request, oldCommit, newCommit, staged, baseline, rows, answer>>
      BY <2>1, <2>5
    <3>5. Collection' /\ Contexts'
      BY <1>0, <3>1, <3>3, <3>4 DEF Collection, Contexts
    <3>6. Staged'
      BY <1>0, <3>1, <3>2, <3>4 DEF Staged
    <3> QED BY <3>5, <3>6
  <2> QED BY <2>4, <2>5
<1>7. CASE ReadBaseline
  BY <1>0, <1>7 DEF ReadBaseline, CollectionFails, readVars, Repository, Collection, Contexts, Staged
<1>8. CASE ReadEntry
  <2>1. request \in Request /\ pc \in {"read", "readUntracked"}
    BY <1>0, <1>8 DEF Staged, ReadEntry
  <2> QED BY <1>0, <1>8, <2>1, ReadEntryStep DEF Collection, Contexts, Staged
<1>9. CASE ListUntracked
  <2> DEFINE others == {q \in Path : index[q] = Absent /\ disk[q] # Absent}
             entries == {Entry("U", p, p) : p \in others}
  <2>1. entries \in SUBSET Entries
    BY DEF Entry, Entries, Codes
  <2>2. SetToSeq(entries) \in Seq(Entries)
    BY <2>1, EntriesFinite, FS_Subset, SeqOfSet
  <2>3. todo' = SetToSeq(entries)
    BY <1>9 DEF ListUntracked
  <2> HIDE DEF entries
  <2> QED BY <1>0, <1>9, <2>2, <2>3 DEF ListUntracked, Collection, Contexts, Staged
<1>10. CASE Collected
  BY <1>0, <1>10 DEF Collected, readVars, Collection, Contexts, Staged
<1> QED
  BY <1>1, <1>2, <1>3, <1>4, <1>5, <1>6, <1>7, <1>8, <1>9, <1>10 DEF Collect

LEMMA UserShape ==
  Shape /\ User /\ UNCHANGED <<xmlVars, reviewVars>> => (Collection /\ Contexts /\ Staged)'
<1> SUFFICES ASSUME Shape, User, UNCHANGED <<xmlVars, reviewVars>>
             PROVE  (Collection /\ Contexts /\ Staged)'
  OBVIOUS
<1>1. Len(commits) <= Len(commits') /\ Len(commits) \in Nat /\ Len(commits') \in Nat
  BY RepositoryStep, Steps DEF Shape, Repository, Next
<1>2. steady' \in SUBSET Path
  BY DEF User, Add, Untrack, Edit, Commit, Push, UserStep, Shape, Contexts
<1>3. UNCHANGED <<profiles, registry, rules>>
  BY DEF xmlVars, reviewVars
<1> QED
  BY <1>1, <1>2, <1>3, UserFrame
  DEF Shape, Collection, Contexts, Staged, Mode, Live, PythonRows, RowLanguage

LEMMA OthersShape ==
  Shape /\ OthersStep => (Collection /\ Contexts /\ Staged)'
<1> SUFFICES ASSUME Shape, OthersStep PROVE (Collection /\ Contexts /\ Staged)'
  OBVIOUS
<1>1. profiles' \in Dialects /\ registry' \in Dialects
  BY DEF OthersStep, EditProfiles, SetRegistry, Shape, Contexts
<1> QED
  BY <1>1, OthersFrame
  DEF Shape, Collection, Contexts, Staged, readVars, reviewVars, Mode, Live, PythonRows, RowLanguage

(* The stages of a review follow each other. *)
LEMMA ReviewStages ==
  ASSUME Shape, Review
  PROVE  /\ pc \in Reviewing \cup {"commit"}
         /\ \/ pc' \in Reviewing /\ pc # "commit" /\ answer' = answer
            \/ pc' = "commit" /\ pc = "symbols" /\ answer' = answer /\ PythonRows = DOMAIN rows
            \/ pc' = "done" /\ answer'.kind \in {"error", "fallback", "served"}
BY DEF Review, PolicyAbsent, PolicyFound, PolicyRead, PolicyDefers, ResolveParsers,
       IndexSymbols, IndexSymbolsFails, CommitJson, CommitAnswer, Batch, FilePython,
       SinglePython, FileDeclined, EnterScope, FileWasm, Assemble, Answer, Continue, Serve,
       Goto, Reviewing

LEMMA ReviewRules == Shape /\ Review => rules' \in {"none", "rules"} /\ UNCHANGED <<profiles, registry>>
<1>1. ASSUME Shape, PolicyRead PROVE rules' \in {"none", "rules"}
  BY <1>1, ReviewAssumption DEF PolicyRead, PolicyIsReadable, Shape, Repository, Tree
<1> QED
  BY <1>1
  DEF Review, PolicyAbsent, PolicyFound, PolicyRead, PolicyDefers, ResolveParsers,
      IndexSymbols, IndexSymbolsFails, CommitJson, Batch, FilePython,
      SinglePython, FileDeclined, EnterScope, FileWasm, Assemble, xmlVars, reviewVars,
      Shape, Contexts

LEMMA ReviewShape ==
  Shape /\ Review => (Collection /\ Contexts /\ Staged)'
<1> SUFFICES ASSUME Shape, Review PROVE (Collection /\ Contexts /\ Staged)'
  OBVIOUS
<1>1. UNCHANGED <<commits, request, oldCommit, newCommit, staged, baseline, todo, rows, steady>>
  BY ReviewFrame DEF repoVars, readVars
<1>2. Collection'
  BY <1>1, ReviewStages DEF Shape, Collection, Stages, Reviewing
<1>3. Contexts'
  BY <1>1, ReviewStages, ReviewRules DEF Shape, Contexts, NoAnswer, Reviewing
<1>4. Staged'
  BY <1>1, ReviewStages DEF Shape, Staged, Reviewing, Collecting, Mode, Live, PythonRows, RowLanguage
<1> QED BY <1>2, <1>3, <1>4

LEMMA ShapeStep == Shape /\ [Next]_vars => Shape'
<1> SUFFICES ASSUME Shape, [Next]_vars PROVE Shape'
  OBVIOUS
<1>1. Repository'
  BY RepositoryStep DEF Shape
<1>2. CASE UNCHANGED vars
  BY <1>2
  DEF vars, collectionVars, repoVars, readVars, xmlVars, reviewVars, Shape, Repository,
      Collection, Contexts, Staged, Mode, Live, PythonRows, RowLanguage
<1> QED
  BY <1>1, <1>2, Steps, UserShape, CollectStep, ReviewShape, OthersShape DEF Shape
-----------------------------------------------------------------------------
(* The old sides. *)
LEMMA OldSidesStep == Shape /\ OldSides /\ [Next]_vars => OldSides'
<1> SUFFICES ASSUME Shape, OldSides, [Next]_vars PROVE OldSides'
  OBVIOUS
<1> USE DEF Goto, Mode, Live, Before
<1>1. \A c \in 1..Len(commits) : commits'[c] = commits[c]
  BY RepositoryStep DEF Shape
<1>2. /\ oldCommit \in 0..Len(commits) /\ Len(commits) \in Nat /\ rows \in Seq(RowSet)
      /\ head \in 1..Len(commits)
  BY DEF Shape, Repository, Collection
<1>3. ASSUME UNCHANGED <<request, rows, oldCommit>>, pc' \in Before => pc \in Before
      PROVE  OldSides'
  BY <1>1, <1>2, <1>3 DEF OldSides
<1>4. ASSUME rows' = <<>> PROVE OldSides'
  BY <1>4 DEF OldSides
<1>5. CASE ReadEditor
  <2>1. CASE rows' = rows
    BY <1>4, <1>5, <2>1 DEF ReadEditor, OldSides
  <2>2. CASE rows' # rows
    <3> DEFINE row == [old |-> commits[head][request.path], new |-> request.content,
                       oldPath |-> request.path, newPath |-> request.path, staging |-> ""]
    <3>1. /\ rows' = <<row>> /\ oldCommit' = head /\ pc' = "parsers"
          /\ commits' = commits /\ request' = request
      BY <1>5, <2>2, CollectFrame DEF ReadEditor, repoVars, Collect
    <3>2. row.old = commits[head][row.oldPath]
      OBVIOUS
    <3> HIDE DEF row
    <3>3. DOMAIN rows' = {1} /\ rows'[1] = row
      BY <3>1
    <3> QED BY <1>2, <3>1, <3>2, <3>3 DEF OldSides
  <2> QED BY <2>1, <2>2
<1>6. CASE ReadEntry
  <2> DEFINE row == Row(Head(todo))
  <2>0. /\ pc' \notin Before /\ UNCHANGED <<request, oldCommit, commits>>
        /\ pc \in {"read", "readUntracked"}
    BY <1>6, ReadEntryStep, CollectFrame DEF ReadEntry, repoVars, Collect
  <2>1. CASE rows' = rows
    BY <1>2, <2>0, <2>1 DEF OldSides
  <2>2. CASE rows' = rows \o <<row>> /\ row \in RowSet
    <3>1. Live /\ row.old # Absent => oldCommit >= 1 /\ row.old = commits[oldCommit][row.oldPath]
      BY <2>0 DEF Row, OldSource, OldBlob, Shape, Staged, Collecting
    <3> HIDE DEF row
    <3>2. /\ DOMAIN rows' = 1..(Len(rows) + 1) /\ rows'[Len(rows) + 1] = row
          /\ \A i \in 1..Len(rows) : rows'[i] = rows[i]
          /\ DOMAIN rows = 1..Len(rows) /\ Len(rows) \in Nat
      BY <1>2, <2>2
    <3>3. ASSUME NEW i \in DOMAIN rows', Live', rows'[i].old # Absent
          PROVE  oldCommit' >= 1 /\ rows'[i].old = commits'[oldCommit'][rows'[i].oldPath]
      <4>1. CASE i \in 1..Len(rows)
        BY <2>0, <3>2, <3>3, <4>1 DEF OldSides
      <4>2. CASE i = Len(rows) + 1
        BY <2>0, <3>1, <3>2, <3>3, <4>2
      <4> QED BY <3>2, <4>1, <4>2
    <3> QED BY <2>0, <3>3 DEF OldSides
  <2> QED BY <1>6, <2>1, <2>2, ReadEntryStep
<1>7. CASE Collect
  <2>1. ASSUME NEW r \in Request, Start(r) PROVE OldSides'
    BY <1>4, <2>1 DEF Start, OldSides
  <2>2. CASE ResolveOld \/ ResolveNew
    BY <1>4, <2>2 DEF ResolveOld, ResolveNew, OldSides
  <2>3. CASE Labels
    BY <1>3, <2>3 DEF Labels
  <2>4. CASE Inventory
    <3>1. UNCHANGED <<request, rows, oldCommit>> /\ pc \in Before
      BY <2>4 DEF Inventory, CollectionFails, readVars
    <3> QED BY <1>3, <3>1
  <2>5. CASE ReadBaseline
    BY <1>3, <2>5 DEF ReadBaseline, CollectionFails, readVars
  <2>6. CASE ListUntracked \/ Collected
    BY <1>3, <2>6 DEF ListUntracked, Collected, readVars
  <2> QED BY <1>5, <1>6, <1>7, <2>1, <2>2, <2>3, <2>4, <2>5, <2>6 DEF Collect
<1>8. CASE Review
  BY <1>3, <1>8, ReviewFrame, ReviewStages DEF readVars, Reviewing
<1>9. CASE User \/ OthersStep \/ UNCHANGED vars
  BY <1>3, <1>9, UserFrame, OthersFrame DEF vars, collectionVars, readVars
<1> QED BY <1>7, <1>8, <1>9, Steps
-----------------------------------------------------------------------------
(* The diffs. *)
LEMMA RowLanguages ==
  ASSUME Shape, NEW i \in DOMAIN rows
  PROVE  rows[i] \in RowSet /\ RowLanguage(i) \in {"python", "wasm", "none"}
<1>1. rows[i] \in RowSet
  BY DEF Shape, Collection
<1>2. rows[i].newPath \in Path
  BY <1>1 DEF RowSet
<1> QED BY <1>1, <1>2, RepositoryAssumption DEF RowLanguage

(* Nothing of the diffs depends on anything else. *)
LEMMA DiffsFrame ==
  ASSUME Diffs, UNCHANGED <<rows, request, diffs>>,
         \/ UNCHANGED <<pc, answer>>
         \/ pc' = "done" /\ answer'.kind # "served"
  PROVE  Diffs'
<1> USE DEF Current, PythonRows, RowLanguage, Live, Mode, Served, PolicyViolation
<1>1. CASE UNCHANGED <<pc, answer>>
  BY <1>1 DEF Diffs
<1>2. CASE pc' = "done" /\ answer'.kind # "served"
  BY <1>2 DEF Diffs
<1> QED BY <1>1, <1>2

(* Before the files there are none. *)
LEMMA NoDiffs ==
  ASSUME rows' \in Seq(RowSet), diffs' = <<>>, pc' # "match", answer'.kind # "served"
  PROVE  Diffs'
BY DEF Diffs, Served

(* The diff of the next row is added. *)
LEMMA OneMoreDiff ==
  ASSUME Shape, Diffs, pc \in {"files", "match"}, Current \in DOMAIN rows,
         NEW d \in DiffSet, AddDiff(d), UNCHANGED <<rows, request>>, pc' = "files",
         answer'.kind # "served",
         d.row = Current, d.parser = RowLanguage(Current), d.outcome = "clean",
         RowLanguage(Current) # "python" => PolicyViolation(rows[Current]) \subseteq d.violations
  PROVE  Diffs'
<1>1. /\ diffs' \in Seq(DiffSet) /\ Len(diffs') = Len(diffs) + 1
      /\ \A i \in 1..Len(diffs) : diffs'[i] = diffs[i]
      /\ diffs'[Len(diffs) + 1] = d
  BY AppendProperties DEF Diffs, AddDiff
<1>2. Len(diffs) \in Nat /\ Len(rows) \in Nat /\ DOMAIN rows = 1..Len(rows)
      /\ DOMAIN diffs = 1..Len(diffs) /\ DOMAIN diffs' = 1..(Len(diffs) + 1)
  BY <1>1 DEF Diffs, Shape, Collection
<1>3. ASSUME NEW i \in DOMAIN diffs'
      PROVE  /\ diffs'[i].row = i
             /\ diffs'[i].parser = RowLanguage(i)
             /\ diffs'[i].outcome = "clean" \/ ~ Live
             /\ RowLanguage(i) # "python" => PolicyViolation(rows[i]) \subseteq diffs'[i].violations
  <2>1. CASE i \in 1..Len(diffs)
    BY <1>1, <1>2, <2>1 DEF Diffs
  <2>2. CASE i = Current
    BY <1>1, <2>2 DEF Current
  <2> QED BY <1>2, <2>1, <2>2 DEF Current
<1>4. Len(diffs') <= Len(rows')
  BY <1>1, <1>2 DEF Current
<1>5. \A i \in DOMAIN diffs' : (RowLanguage(i))' = RowLanguage(i) /\ (PolicyViolation(rows[i]))' = PolicyViolation(rows[i])
  BY DEF RowLanguage, PolicyViolation
<1>6. Live' <=> Live
  BY DEF Live, Mode
<1> QED
  BY <1>1, <1>3, <1>4, <1>5, <1>6 DEF Diffs, Served

LEMMA PythonDiffType ==
  ASSUME NEW i \in Nat, NEW outcome \in Outcomes, RowLanguage(i) \in {"python", "wasm", "none"}
  PROVE  LET d == PythonDiff(i, outcome)
         IN  /\ d \in DiffSet
             /\ d.row = i /\ d.parser = RowLanguage(i) /\ d.outcome = outcome
             /\ d.profile = NoScope /\ d.matched = NoScope
BY DEF PythonDiff, Diff, DiffSet, Scopes

(* The collection is before the files, and never answers with a review. *)
LEMMA CollectStages ==
  ASSUME Shape, Collect
  PROVE  /\ pc \in Before \cup {"read", "readUntracked"}
         /\ pc' # "match"
         /\ answer' = answer \/ answer'.kind \in {"error", "fallback"}
<1>1. pc \in Before \cup {"read", "readUntracked"}
  BY DEF Collect, Start, ResolveOld, ResolveNew, ReadEditor, Labels, Inventory,
         ReadBaseline, ReadEntry, ListUntracked, Collected, Before
<1>2. /\ pc' # "match"
      /\ answer' = answer \/ answer'.kind \in {"error", "fallback"}
  <2>1. CASE ReadEntry
    BY <2>1, ReadEntryStep, <1>1 DEF Before
  <2>2. CASE CollectionFails
    BY <2>2 DEF CollectionFails, Goto
  <2>3. CASE Inventory
    <3>1. CollectionFails \/ (answer' = answer /\ pc' \in {"read", "commit", "labels"})
      BY <2>3, RequestAssumption DEF Inventory, Goto
    <3> QED BY <2>2, <3>1
  <2>4. CASE ReadEditor
    <3> DEFINE old == commits[head][request.path]
    <3>1. CASE KindOf(old) \in {"invalid", "magic"}
      BY <2>4, <3>1 DEF ReadEditor, Goto
    <3>2. CASE KindOf(old) \notin {"invalid", "magic"}
      BY <2>4, <3>2 DEF ReadEditor, Goto
    <3> QED BY <3>1, <3>2
  <2>5. CASE ReadBaseline
    BY <2>2, <2>5 DEF ReadBaseline, Goto
  <2>6. CASE ResolveOld \/ ResolveNew \/ Labels \/ ListUntracked \/ Collected
    BY <2>6 DEF ResolveOld, ResolveNew, Labels, ListUntracked, Collected, Goto
  <2>7. ASSUME NEW r \in Request, Start(r) PROVE pc' # "match" /\ answer' = answer
    BY <2>7 DEF Start, Goto
  <2> QED BY <2>1, <2>3, <2>4, <2>5, <2>6, <2>7 DEF Collect
<1> QED BY <1>1, <1>2

LEMMA CollectDiffs ==
  ASSUME Shape, Shape', Diffs, Collect, UNCHANGED <<xmlVars, reviewVars>>
  PROVE  Diffs'
<1>1. pc \in Before \cup {"read", "readUntracked"}
  BY CollectStages
<1>2. diffs' = <<>>
  BY <1>1 DEF Diffs, reviewVars, Before
<1>3. answer.kind = "none"
  BY <1>1 DEF Shape, Contexts, Before
<1> QED BY <1>2, <1>3, CollectStages, NoDiffs DEF Shape, Collection

LEMMA CommitDiffs ==
  ASSUME Shape, Diffs, CommitJson
  PROVE  Diffs'
<1>1. PICK outcome \in [DOMAIN rows -> Outcomes] : CommitAnswer(outcome)
  BY DEF CommitJson
<1> DEFINE all == [i \in DOMAIN rows |-> PythonDiff(i, outcome[i])]
<1>2. UNCHANGED <<rows, request>>
  BY ReviewFrame DEF Review, readVars
<1>3. CASE Answer("fallback") /\ UNCHANGED diffs
  BY <1>2, <1>3, DiffsFrame DEF Answer, Goto
<1>4. CASE Serve(all, {}) /\ \A i \in DOMAIN rows : Mode # "certified" => Certifies(outcome[i])
  <2>1. diffs' = all /\ pc' = "done"
    BY <1>4 DEF Serve, Goto
  <2>2. DOMAIN rows = 1..Len(rows) /\ Len(rows) \in Nat
    BY DEF Shape, Collection
  <2>3. ASSUME NEW i \in DOMAIN rows
        PROVE  /\ all[i] \in DiffSet /\ all[i].row = i /\ all[i].parser = RowLanguage(i)
               /\ Live => all[i].outcome = "clean"
    BY <1>4, <2>2, <2>3, RowLanguages, PythonDiffType DEF Live, Certifies
  <2>4. all \in [1..Len(rows) -> DiffSet]
    BY <2>2, <2>3
  <2> HIDE DEF all
  <2>5. all \in Seq(DiffSet) /\ Len(all) = Len(rows) /\ DOMAIN all = DOMAIN rows
    BY <2>2, <2>4
  <2> QED
    BY <1>2, <2>1, <2>3, <2>5 DEF Diffs, RowLanguage, Live, Mode, Served
<1> QED BY <1>1, <1>3, <1>4 DEF CommitAnswer

LEMMA FileDiffs ==
  ASSUME Shape, Diffs, Scoped, FilePython \/ SinglePython \/ FileWasm
  PROVE  Diffs'
<1>1. UNCHANGED <<rows, request>>
  BY ReviewFrame DEF Review, readVars
<1>2. answer.kind = "none" /\ pc \in {"files", "match"} /\ Current \in DOMAIN rows
  BY DEF Shape, Contexts, FilePython, SinglePython, FileWasm, PythonRows, Diffs
<1>3. Current \in Nat /\ RowLanguage(Current) \in {"python", "wasm", "none"}
  BY <1>2, RowLanguages DEF Current, Diffs
<1>4. CASE Answer("fallback") /\ UNCHANGED diffs
  BY <1>1, <1>4, DiffsFrame DEF Answer, Goto
<1>5. ASSUME AddDiff(PythonDiff(Current, "clean")), Continue("files"), Current \in PythonRows
      PROVE  Diffs'
  BY <1>1, <1>2, <1>3, <1>5, PythonDiffType, OneMoreDiff
  DEF Continue, Goto, Outcomes, PythonRows
<1>6. CASE FilePython
  BY <1>4, <1>5, <1>6 DEF FilePython, Certifies
<1>7. CASE SinglePython
  BY <1>4, <1>5, <1>7 DEF SinglePython, Certifies
<1>8. CASE FileWasm
  <2>1. PICK outcome \in Outcomes, found \in SUBSET {"rule"} :
          IF Certifies(outcome)
          THEN /\ AddDiff(Diff(Current, outcome, Matching, ViolationsOf(Current, found)))
               /\ Continue("files")
          ELSE Answer("fallback") /\ UNCHANGED diffs
    BY <1>8 DEF FileWasm
  <2> DEFINE d == Diff(Current, outcome, Matching, ViolationsOf(Current, found))
  <2>2. Matching \in Scopes /\ resolved \in Scopes
    BY DEF Shape, Contexts, Scoped, Matching, Scopes
  <2>3. PolicyViolation(rows[Current]) \in SUBSET {"policy_file"}
    BY DEF PolicyViolation
  <2>4. /\ d \in DiffSet /\ d.row = Current /\ d.parser = RowLanguage(Current)
        /\ d.outcome = outcome /\ PolicyViolation(rows[Current]) \subseteq d.violations
    BY <1>3, <2>2, <2>3 DEF Diff, DiffSet, ViolationsOf
  <2> HIDE DEF d
  <2>5. CASE Certifies(outcome)
    BY <1>1, <1>2, <2>1, <2>4, <2>5, OneMoreDiff DEF Certifies, Continue, Goto, d
  <2> QED BY <1>4, <2>1, <2>5
<1> QED BY <1>6, <1>7, <1>8

LEMMA ReviewDiffs ==
  ASSUME Shape, Shape', Diffs, Scoped, Review
  PROVE  Diffs'
<1>1. UNCHANGED <<rows, request>>
  BY ReviewFrame DEF readVars
<1>2. answer.kind = "none"
  BY ReviewStages DEF Shape, Contexts, Reviewing
<1>3. CASE CommitJson
  BY <1>3, CommitDiffs
<1>4. CASE FilePython \/ SinglePython \/ FileWasm
  BY <1>4, FileDiffs
<1>5. CASE \/ PolicyAbsent \/ PolicyFound \/ PolicyRead \/ PolicyDefers \/ ResolveParsers
          \/ IndexSymbols \/ IndexSymbolsFails \/ Batch
  <2>1. pc \notin {"files", "match", "done"} /\ diffs' = diffs
    BY <1>5
    DEF PolicyAbsent, PolicyFound, PolicyRead, PolicyDefers, ResolveParsers, IndexSymbols,
        IndexSymbolsFails, Batch, reviewVars
  <2>2. pc' # "match" /\ answer'.kind # "served"
    BY <1>5, <1>2
    DEF PolicyAbsent, PolicyFound, PolicyRead, PolicyDefers, ResolveParsers, IndexSymbols,
        IndexSymbolsFails, Batch, Answer, Continue, Goto
  <2> QED BY <2>1, <2>2, NoDiffs DEF Diffs, Shape, Collection
<1>6. CASE FileDeclined
  BY <1>1, <1>6, DiffsFrame DEF FileDeclined, Answer, Goto, reviewVars
<1>7. CASE EnterScope
  <2>1. /\ pc = "files" /\ pc' = "match" /\ UNCHANGED <<diffs, answer>>
        /\ Current \in DOMAIN rows \ PythonRows
    BY <1>7 DEF EnterScope, Continue, Goto, reviewVars
  <2> QED
    BY <1>1, <2>1
    DEF Diffs, Current, PythonRows, RowLanguage, Live, Mode, Served, PolicyViolation
<1>8. CASE Assemble
  <2>1. /\ pc = "files" /\ pc' = "done" /\ diffs' = diffs /\ Current > Len(rows)
    BY <1>8 DEF Assemble, Serve, Goto
  <2>2. Len(diffs) = Len(rows)
    BY <2>1 DEF Diffs, Current, Shape, Collection
  <2> QED BY <1>1, <2>1, <2>2 DEF Diffs, RowLanguage, Live, Mode, Served
<1> QED BY <1>3, <1>4, <1>5, <1>6, <1>7, <1>8 DEF Review

LEMMA DiffsStep == Shape /\ Diffs /\ Scoped /\ [Next]_vars => Diffs'
<1> SUFFICES ASSUME Shape, Diffs, Scoped, [Next]_vars PROVE Diffs'
  OBVIOUS
<1>1. CASE User /\ UNCHANGED <<xmlVars, reviewVars>>
  BY <1>1, UserFrame, DiffsFrame DEF reviewVars
<1>2. CASE OthersStep
  BY <1>2, OthersFrame, DiffsFrame DEF reviewVars, readVars
<1>3. CASE UNCHANGED vars
  BY <1>3, DiffsFrame DEF vars, collectionVars, readVars, reviewVars
<1> QED BY <1>1, <1>2, <1>3, ShapeStep, CollectDiffs, ReviewDiffs, Steps

-----------------------------------------------------------------------------
(* The dialects. *)
LEMMA ScopedStep == Shape /\ Scoped /\ [Next]_vars => Scoped'
<1> SUFFICES ASSUME Shape, Scoped, [Next]_vars PROVE Scoped'
  OBVIOUS
<1>1. CASE User /\ UNCHANGED <<xmlVars, reviewVars>>
  BY <1>1, UserFrame DEF Scoped, xmlVars
<1>2. CASE OthersStep
  BY <1>2, OthersFrame DEF Scoped
<1>3. CASE UNCHANGED vars
  BY <1>3 DEF vars, collectionVars, xmlVars, Scoped
<1>4. CASE Collect /\ UNCHANGED <<xmlVars, reviewVars>>
  BY <1>4, CollectStages DEF Scoped, xmlVars, Before
<1>5. CASE EnterScope
  BY <1>5, ReviewAssumption DEF EnterScope, Continue, Goto, Shape, Contexts, Scoped, Scopes
<1>6. CASE FileWasm
  BY <1>6 DEF FileWasm, DropScope, Answer, Continue, Goto, Scoped, Scopes
<1>7. CASE Review /\ ~ EnterScope /\ ~ FileWasm
  <2>1. UNCHANGED <<scope, resolved>> /\ pc # "match" /\ pc' # "match"
    BY <1>7
    DEF Review, PolicyAbsent, PolicyFound, PolicyRead, PolicyDefers, ResolveParsers,
        IndexSymbols, IndexSymbolsFails, CommitJson, CommitAnswer, Batch, FilePython,
        SinglePython, FileDeclined, Assemble, Answer, Continue, Serve, Goto, xmlVars
  <2> QED BY <2>1 DEF Scoped
<1> QED BY <1>1, <1>2, <1>3, <1>4, <1>5, <1>6, <1>7, Steps

(* A diff is added with the dialects of its scope. *)
LEMMA OneMoreDialect ==
  ASSUME Diffs, DialectsAreOfTheFile, NEW d \in DiffSet, AddDiff(d), d.matched = d.profile
  PROVE  DialectsAreOfTheFile'
<1>1. /\ diffs' \in Seq(DiffSet) /\ Len(diffs') = Len(diffs) + 1
      /\ \A i \in 1..Len(diffs) : diffs'[i] = diffs[i]
      /\ diffs'[Len(diffs) + 1] = d
  BY AppendProperties DEF Diffs, AddDiff
<1>2. DOMAIN diffs' = 1..(Len(diffs) + 1) /\ DOMAIN diffs = 1..Len(diffs) /\ Len(diffs) \in Nat
  BY <1>1 DEF Diffs
<1>3. ASSUME NEW i \in DOMAIN diffs' PROVE diffs'[i].matched = diffs'[i].profile
  BY <1>1, <1>2 DEF DialectsAreOfTheFile
<1> QED BY <1>3 DEF DialectsAreOfTheFile

LEMMA DialectsStep ==
  Shape /\ Diffs /\ Scoped /\ DialectsAreOfTheFile /\ [Next]_vars => DialectsAreOfTheFile'
<1> SUFFICES ASSUME Shape, Diffs, Scoped, DialectsAreOfTheFile, [Next]_vars
             PROVE  DialectsAreOfTheFile'
  OBVIOUS
<1>1. CASE UNCHANGED diffs
  BY <1>1 DEF DialectsAreOfTheFile
<1>2. CASE CommitJson
  <2>1. PICK outcome \in [DOMAIN rows -> Outcomes] : CommitAnswer(outcome)
    BY <1>2 DEF CommitJson
  <2>2. CASE diffs' = [i \in DOMAIN rows |-> PythonDiff(i, outcome[i])]
    <3>1. \A i \in DOMAIN rows : diffs'[i].matched = diffs'[i].profile
      BY <2>2 DEF PythonDiff, Diff
    <3> QED BY <2>2, <3>1 DEF DialectsAreOfTheFile
  <2> QED BY <1>1, <2>1, <2>2 DEF CommitAnswer, Serve
<1>3. CASE FilePython \/ SinglePython
  <2>1. Current \in DOMAIN rows
    BY <1>3 DEF FilePython, SinglePython, PythonRows
  <2>2. Current \in Nat /\ RowLanguage(Current) \in {"python", "wasm", "none"}
    BY <2>1, RowLanguages DEF Current, Diffs
  <2>3. UNCHANGED diffs \/ AddDiff(PythonDiff(Current, "clean"))
    BY <1>3 DEF FilePython, SinglePython, Certifies
  <2> QED BY <1>1, <2>2, <2>3, PythonDiffType, OneMoreDialect DEF Outcomes
<1>4. CASE FileWasm
  <2>1. PICK outcome \in Outcomes, found \in SUBSET {"rule"} :
          \/ UNCHANGED diffs
          \/ AddDiff(Diff(Current, outcome, Matching, ViolationsOf(Current, found)))
    BY <1>4 DEF FileWasm
  <2> DEFINE d == Diff(Current, outcome, Matching, ViolationsOf(Current, found))
  <2>2. Matching = resolved /\ resolved \in Scopes
    BY <1>4 DEF FileWasm, Scoped, Matching
  <2>3. PolicyViolation(rows[Current]) \in SUBSET {"policy_file"}
    BY DEF PolicyViolation
  <2>4. Current \in Nat /\ RowLanguage(Current) \in {"python", "wasm", "none"}
    BY <1>4, RowLanguages DEF FileWasm, Current, Diffs
  <2>5. d \in DiffSet /\ d.matched = d.profile
    BY <2>2, <2>3, <2>4 DEF Diff, DiffSet, ViolationsOf
  <2> HIDE DEF d
  <2> QED BY <1>1, <2>1, <2>5, OneMoreDialect DEF d
<1>5. CASE Review /\ ~ (CommitJson \/ FilePython \/ SinglePython \/ FileWasm)
  BY <1>1, <1>5
  DEF Review, PolicyAbsent, PolicyFound, PolicyRead, PolicyDefers, ResolveParsers,
      IndexSymbols, IndexSymbolsFails, Batch, FileDeclined, EnterScope, Assemble, Serve,
      reviewVars
<1> QED
  BY <1>1, <1>2, <1>3, <1>4, <1>5, Steps, OthersFrame DEF reviewVars, vars

-----------------------------------------------------------------------------
(* The policy. *)
LEMMA PolicyStep ==
  Shape /\ Diffs /\ PolicyEditIsShown /\ [Next]_vars => PolicyEditIsShown'
<1> SUFFICES ASSUME Shape, Diffs, PolicyEditIsShown, [Next]_vars PROVE PolicyEditIsShown'
  OBVIOUS
<1> USE DEF Served, Live, Mode
<1>1. CASE answer'.kind # "served"
  BY <1>1 DEF PolicyEditIsShown
<1>2. CASE UNCHANGED <<request, rows, answer>>
  BY <1>2 DEF PolicyEditIsShown
<1>3. CASE CommitJson
  <2>1. CASE Live
    <3>1. \A i \in DOMAIN rows : rows[i].newPath # PolicyPath
      BY <1>3, <2>1, ReviewAssumption DEF CommitJson, Shape, Staged, PythonRows, RowLanguage
    <3>2. UNCHANGED <<rows, request>>
      BY <1>3, ReviewFrame DEF Review, readVars
    <3> QED BY <3>1, <3>2 DEF PolicyEditIsShown
  <2>2. CASE ~ Live
    BY <1>3, <2>2, ReviewFrame DEF Review, readVars, PolicyEditIsShown
  <2> QED BY <2>1, <2>2
<1>4. CASE Assemble
  <2>1. /\ answer' = [kind |-> "served", violations |-> UNION {diffs[i].violations : i \in DOMAIN diffs}]
        /\ pc = "files" /\ Current > Len(rows)
    BY <1>4 DEF Assemble, Serve
  <2>2. UNCHANGED <<rows, request>>
    BY <1>4, ReviewFrame DEF Review, readVars
  <2>3. DOMAIN rows \subseteq DOMAIN diffs
    BY <2>1 DEF Current, Diffs, Shape, Collection
  <2>4. ASSUME NEW i \in DOMAIN rows, request.guarded, rows[i].newPath = PolicyPath,
               rows[i].old # rows[i].new
        PROVE  "policy_file" \in answer'.violations
    <3>1. "policy_file" \in PolicyViolation(rows[i])
      BY <2>4 DEF PolicyViolation
    <3>2. RowLanguage(i) # "python"
      BY <2>4, ReviewAssumption DEF RowLanguage
    <3> QED BY <2>1, <2>3, <3>1, <3>2 DEF Diffs
  <2> QED BY <2>2, <2>4 DEF PolicyEditIsShown
<1>5. CASE Review /\ ~ CommitJson /\ ~ Assemble
  <2>1. answer' = answer \/ answer'.kind # "served"
    BY <1>5
    DEF Review, PolicyAbsent, PolicyFound, PolicyRead, PolicyDefers, ResolveParsers,
        IndexSymbols, IndexSymbolsFails, Batch, FilePython, SinglePython, FileDeclined,
        EnterScope, FileWasm, Answer, Continue
  <2> QED BY <1>1, <1>2, <1>5, <2>1, ReviewFrame DEF readVars
<1>6. CASE Collect
  <2>1. answer.kind = "none"
    BY <1>6, CollectStages DEF Shape, Contexts, Before
  <2> QED BY <1>1, <1>6, <2>1, CollectStages
<1> QED
  BY <1>2, <1>3, <1>4, <1>5, <1>6, Steps, UserFrame, OthersFrame
  DEF readVars, vars, collectionVars

-----------------------------------------------------------------------------
(* The changes that are expected. *)

(* What is expected is a matter of the repository and the commits resolved. *)
LEMMA KeptFrame ==
  ASSUME UNCHANGED <<commits, head, index, disk, request, oldCommit, newCommit, todo, rows, steady>>,
         UNCHANGED <<pc, answer>>, Kept
  PROVE  Kept'
BY DEF Kept, Found, ToBeRead, ToBeListed, Changed, OldTree, NewTree, Tracked, IsText, KindOf,
       Mode, Live, Served

(* Once the rows are there, only they count. *)
LEMMA KeptInRows ==
  ASSUME UNCHANGED <<commits, head, index, disk, request, oldCommit, newCommit, rows>>,
         Kept, steady' = steady,
         pc' \in Reviewing \cup {"commit", "done"},
         Served' => \A p \in steady : Found(p),
         pc' # "done" => \A p \in steady : Found(p)
  PROVE  Kept'
BY DEF Kept, Found, Changed, OldTree, NewTree, Tracked, IsText, KindOf, Mode, Live, Served,
       Reviewing, Reading

LEMMA KeptByReview == Shape /\ Kept /\ Review => Kept'
<1> SUFFICES ASSUME Shape, Kept, Review PROVE Kept'
  OBVIOUS
<1>1. UNCHANGED <<commits, head, index, disk, request, oldCommit, newCommit, rows, steady>>
  BY ReviewFrame DEF repoVars, readVars
<1>2. /\ pc \in Reviewing \cup {"commit"}
      /\ pc' \in Reviewing \cup {"commit", "done"}
  BY ReviewStages
<1> QED BY <1>1, <1>2, KeptInRows DEF Kept

(* The user takes back what is expected no more. *)
LEMMA KeptByUser == Shape /\ Kept /\ User /\ UNCHANGED <<xmlVars, reviewVars>> => Kept'
<1> SUFFICES ASSUME Shape, Kept, User, UNCHANGED <<xmlVars, reviewVars>> PROVE Kept'
  OBVIOUS
<1>1. UNCHANGED <<pc, request, oldCommit, newCommit, staged, baseline, todo, rows, answer>>
  BY UserFrame
<1>2. steady' = {p \in steady : StaysExpected(p)}
  BY DEF User, Add, Untrack, Edit, Commit, Push, UserStep
<1>3. \A c \in 1..Len(commits) : commits'[c] = commits[c]
  BY RepositoryStep DEF Shape, Next
<1>4. pc \in Collecting /\ Live => OldTree' = OldTree
  BY <1>1, <1>3 DEF OldTree, Live, Mode, Shape, Staged, Collection
<1>5. \A p \in steady' : p \in steady /\ p \in Changed' /\ (index'[p] = Absent <=> index[p] = Absent)
  BY <1>2 DEF StaysExpected
<1>6. pc \in {"idle", "resolve"} \/ Mode = "single" => steady' = {}
  BY <1>2 DEF Kept
<1>7. ASSUME pc \in Reading, Live, NEW p \in steady', NEW i \in DOMAIN todo,
             p \in {todo[i].old, todo[i].new}
      PROVE  (IsText(OldTree[todo[i].old]) /\ IsText(NewTree[todo[i].new]))'
  <2>1. IsText(OldTree[todo[i].old])
    BY <1>5, <1>7 DEF Kept
  <2>2. IsText(OldTree[todo[i].old])'
    BY <1>1, <1>4, <1>7, <2>1 DEF Reading, Collecting, IsText, KindOf
  <2>3. CASE p = todo[i].old
    BY <1>1, <1>2, <1>7, <2>2, <2>3 DEF StaysExpected, IsText, KindOf
  <2>4. CASE p = todo[i].new
    BY <1>1, <1>5, <2>2, <2>4 DEF Changed, IsText, KindOf
  <2> QED BY <1>7, <2>3, <2>4
<1>8. ASSUME NEW p \in steady', ToBeListed(p) PROVE ToBeListed(p)'
  <2>1. pc \in Collecting /\ Live
    BY <1>8 DEF ToBeListed, Collecting, Live
  <2> QED BY <1>1, <1>4, <1>5, <1>8, <2>1 DEF ToBeListed, Mode
<1>9. \A p \in steady : (Found(p) <=> Found(p)') /\ (ToBeRead(p) <=> ToBeRead(p)')
  BY <1>1 DEF Found, ToBeRead
<1>10. (Served' <=> Served) /\ (Live' <=> Live) /\ Mode' = Mode
  BY <1>1 DEF Served, Live, Mode
<1>11. pc \in Reading \cup {"baseline"} \/ (pc = "labels" /\ ~ Live) =>
         \A p \in steady' : Found(p)' \/ ToBeRead(p)' \/ ToBeListed(p)'
  BY <1>5, <1>8, <1>9 DEF Kept
<1>12. pc \in Reviewing \cup {"commit"} \/ Served => \A p \in steady' : Found(p)'
  BY <1>5, <1>9 DEF Kept
<1> QED BY <1>1, <1>5, <1>6, <1>7, <1>10, <1>11, <1>12 DEF Kept

(* The two sides of an entry that is read are those of its paths now. *)
LEMMA EntryIsRead ==
  ASSUME Shape, ReadEntry, Live, NEW p \in steady, p \in {Head(todo).old, Head(todo).new}, Kept
  PROVE  ~ Excludes(OldSource(Head(todo)), NewSource(Head(todo)))
<1> DEFINE e == Head(todo)
<1>1. todo # <<>> /\ todo \in Seq(Entries) /\ pc \in Reading
  BY DEF ReadEntry, Shape, Collection, Reading
<1>2. 1 \in DOMAIN todo /\ todo[1] = e
  BY <1>1
<1>3. IsText(OldTree[e.old]) /\ IsText(NewTree[e.new])
  BY <1>1, <1>2 DEF Kept
<1>4. IsText(OldSource(e))
  BY <1>3 DEF OldSource, OldBlob, OldTree, Live, IsText, KindOf
<1>5. IsText(NewSource(e))
  BY <1>3 DEF NewSource, Live, IsText, KindOf
<1> HIDE DEF e
<1>6. ~ Excludes(OldSource(e), NewSource(e))
  BY <1>4, <1>5 DEF Excludes, IsText
<1> QED BY <1>6 DEF e

(* What an entry says of a path moves to the rows, or the collection fails. *)
LEMMA KeptByReading == Shape /\ Kept /\ ReadEntry => Kept'
<1> SUFFICES ASSUME Shape, Kept, ReadEntry PROVE Kept'
  OBVIOUS
<1> DEFINE e == Head(todo)
<1>0. /\ pc \in Reading /\ todo # <<>> /\ todo \in Seq(Entries) /\ rows \in Seq(RowSet)
      /\ answer.kind = "none" /\ pc # "done"
  BY DEF ReadEntry, Shape, Collection, Contexts, Reading
<1>1. UNCHANGED <<commits, head, index, disk>>
  BY CollectFrame DEF Collect, repoVars
<1>2. CASE CollectionFails
  BY <1>0, <1>1, <1>2
  DEF CollectionFails, Goto, readVars, Kept, Changed, OldTree, NewTree, Tracked, IsText, KindOf,
      Mode, Live, Served, Reviewing, Reading
<1>3. ASSUME NEW more, more = <<>> \/ more = <<Row(e)>>, AddRows(more),
             \A p \in steady : p \in {e.old, e.new} => more = <<Row(e)>>
      PROVE  Kept'
  <2>1. /\ UNCHANGED <<pc, request, oldCommit, newCommit, answer, steady>>
        /\ rows' = rows \o more /\ todo' = Tail(todo)
    BY <1>3 DEF AddRows
  <2>2. /\ Mode' = Mode /\ (Live' <=> Live) /\ ~ Served /\ ~ Served'
        /\ OldTree' = OldTree /\ NewTree' = NewTree /\ Changed' = Changed
    BY <1>0, <1>1, <2>1
    DEF Changed, OldTree, NewTree, Tracked, IsText, KindOf, Mode, Live, Served
  <2>3. \A i \in DOMAIN Tail(todo) : i + 1 \in DOMAIN todo /\ Tail(todo)[i] = todo[i + 1]
    BY <1>0
  <2>4. \A j \in DOMAIN todo : j = 1 \/ \E i \in DOMAIN Tail(todo) : Tail(todo)[i] = todo[j]
    <3>1. ASSUME NEW j \in DOMAIN todo, j # 1
          PROVE  j - 1 \in DOMAIN Tail(todo) /\ Tail(todo)[j - 1] = todo[j]
      BY <1>0, <3>1
    <3> QED BY <3>1
  <2>5. todo[1] = e
    BY <1>0
  <2>6. Row(e) \in RowSet
    <3>1. e \in Entries
      BY <1>0, HeadTailProperties
    <3> QED BY <1>0, <3>1, RowType DEF Reading
  <2>7. \A p \in steady : Found(p) => Found(p)'
    <3>1. \A i \in DOMAIN rows : i \in DOMAIN rows' /\ rows'[i] = rows[i]
      BY <1>0, <1>3, <2>1, <2>6
    <3> QED BY <2>1, <3>1 DEF Found
  <2>8. ASSUME NEW p \in steady, p \in {e.old, e.new} PROVE Found(p)'
    <3>1. rows' = rows \o <<Row(e)>>
      BY <1>3, <2>1, <2>8
    <3>2. Len(rows) + 1 \in DOMAIN rows' /\ rows'[Len(rows) + 1] = Row(e)
      BY <1>0, <2>6, <3>1
    <3>3. Row(e).oldPath = e.old /\ Row(e).newPath = e.new
      BY DEF Row
    <3> QED BY <2>8, <3>2, <3>3 DEF Found
  <2>9. \A p \in steady : ToBeRead(p) => Found(p)' \/ ToBeRead(p)'
    BY <2>1, <2>4, <2>5, <2>8 DEF ToBeRead
  <2>10. \A p \in steady : ToBeListed(p) => ToBeListed(p)'
    BY <1>1, <2>1, <2>2 DEF ToBeListed
  <2>11. ASSUME Live, NEW p \in steady, NEW i \in DOMAIN Tail(todo),
                p \in {Tail(todo)[i].old, Tail(todo)[i].new}
         PROVE  IsText(OldTree[Tail(todo)[i].old]) /\ IsText(NewTree[Tail(todo)[i].new])
    BY <1>0, <2>3, <2>11 DEF Kept
  <2>12. \A p \in steady : Found(p)' \/ ToBeRead(p)' \/ ToBeListed(p)'
    BY <1>0, <2>7, <2>9, <2>10 DEF Kept
  <2> QED
    BY <1>0, <2>1, <2>2, <2>11, <2>12 DEF Kept, Reading, Reviewing, IsText, KindOf
<1>4. CASE AddRows(IF Excludes(OldSource(e), NewSource(e)) THEN <<>> ELSE <<Row(e)>>)
  <2>1. ASSUME NEW p \in steady, p \in {e.old, e.new}
        PROVE  ~ Excludes(OldSource(e), NewSource(e))
    <3>1. CASE Live
      BY <2>1, <3>1, EntryIsRead
    <3>2. CASE ~ Live
      BY <3>2 DEF Excludes, Live, Mode
    <3> QED BY <3>1, <3>2
  <2>2. CASE Excludes(OldSource(e), NewSource(e))
    BY <1>3, <1>4, <2>1, <2>2
  <2>3. CASE ~ Excludes(OldSource(e), NewSource(e))
    BY <1>3, <1>4, <2>3
  <2> QED BY <2>2, <2>3
<1> QED BY <1>2, <1>4 DEF ReadEntry

(* The expectation is set where the new side is known, and git answers it.  *)
LEMMA KeptByInventory == Shape /\ Kept /\ Inventory => Kept'
<1> SUFFICES ASSUME Shape, Kept, Inventory PROVE Kept'
  OBVIOUS
<1>1. UNCHANGED <<commits, head, index, disk>>
  BY CollectFrame DEF Collect, repoVars
<1>2. pc = "inventory" /\ answer.kind = "none" /\ rows \in Seq(RowSet) /\ steady \in SUBSET Path
  BY DEF Inventory, Shape, Collection, Contexts
<1>3. PICK R \in Renames(OldTree, Seen) :
        LET entries == NameStatus(OldTree, Seen, R)
        IN  \/ CollectionFails
            \/ /\ todo' = SetToSeq(entries)
               /\ steady' = IF Mode = "certified" THEN Changed
                            ELSE steady \cap WithText(entries)
               /\ pc' = (CASE Mode # "certified" -> "read"
                          [] Mode = "certified" /\ entries = {} -> "commit"
                          [] OTHER -> "labels")
               /\ UNCHANGED <<request, oldCommit, newCommit, staged, baseline, rows, answer>>
  BY <1>2, Zenon DEF Inventory, Goto
<1> DEFINE entries == NameStatus(OldTree, Seen, R)
<1>4. CASE CollectionFails
  BY <1>1, <1>2, <1>4
  DEF CollectionFails, Goto, readVars, Kept, Changed, OldTree, NewTree, Tracked, IsText, KindOf,
      Mode, Live, Served, Reviewing, Reading
<1>5. CASE ~ CollectionFails
  <2>1. /\ todo' = SetToSeq(entries)
        /\ UNCHANGED <<request, oldCommit, newCommit, rows, answer>>
    BY <1>3, <1>5
  <2>2. /\ Live => pc' = "read" /\ steady' = steady \cap WithText(entries)
        /\ ~ Live => /\ steady' = Changed
                     /\ pc' = "labels" \/ (pc' = "commit" /\ entries = {})
    <3>1. CASE Live
      BY <1>3, <1>5, <3>1 DEF Live
    <3>2. CASE ~ Live
      <4>1. Mode = "certified"
        BY <3>2 DEF Live
      <4>2. CASE entries = {}
        BY <1>3, <1>5, <3>2, <4>1, <4>2
      <4>3. CASE entries # {}
        BY <1>3, <1>5, <3>2, <4>1, <4>3
      <4> QED BY <4>2, <4>3
    <3> QED BY <3>1, <3>2
  <2>3. /\ Mode' = Mode /\ (Live' <=> Live) /\ ~ Served'
        /\ OldTree' = OldTree /\ NewTree' = NewTree /\ Changed' = Changed
    BY <1>1, <1>2, <2>1
    DEF Changed, OldTree, NewTree, Tracked, IsText, KindOf, Mode, Live, Served
  <2>4. OldTree \in Tree /\ Seen \in Tree /\ Mode # "single"
    BY <1>2, Trees DEF Shape, Staged, Collecting
  <2>5. \A p \in steady' : p \in Changed /\ p \in Path
    BY <2>2 DEF Kept, Changed
  <2>6. ASSUME NEW p \in steady' PROVE ToBeRead(p)' \/ ToBeListed(p)'
    <3>1. OldTree[p] # NewTree[p] /\ p \in Path
      BY <2>5 DEF Changed
    <3>2. CASE OldTree[p] # Seen[p]
      BY <2>1, <2>4, <3>1, <3>2, InventoryIsListed DEF ToBeRead
    <3>3. CASE OldTree[p] = Seen[p]
      <4>1. Mode = "tree" /\ index[p] = Absent /\ OldTree[p] = Absent
        BY <3>1, <3>3 DEF Seen, Tracked, NewTree
      <4> QED BY <1>1, <2>2, <2>3, <4>1 DEF ToBeListed, Live
    <3> QED BY <3>2, <3>3
  <2>7. \A i \in DOMAIN todo' : todo'[i] \in entries
    <3>1. IsFiniteSet(entries)
      BY <2>4, InventoryFinite
    <3>2. todo' \in Seq(entries)
      BY <2>1, <3>1, SeqOfSet
    <3> QED BY <3>2
  <2>8. ASSUME Live, NEW p \in steady', NEW i \in DOMAIN todo',
               p \in {todo'[i].old, todo'[i].new}
        PROVE  IsText(OldTree[todo'[i].old]) /\ IsText(NewTree[todo'[i].new])
    BY <2>2, <2>7, <2>8 DEF WithText
  <2>9. entries = {} => todo' = <<>>
    <3>1. SetToSeq({}) \in Seq({})
      BY FS_EmptySet, SeqOfSet
    <3>2. \A t \in Seq({}) : t = <<>>
      OBVIOUS
    <3> QED BY <2>1, <3>1, <3>2
  <2>10. pc' = "commit" => steady' = {}
    <3>1. ASSUME pc' = "commit", NEW p \in steady' PROVE FALSE
      BY <2>2, <2>6, <2>9, <3>1 DEF ToBeRead, ToBeListed
    <3> QED BY <3>1
  <2>11. pc' \in {"read", "labels", "commit"}
    BY <2>2
  <2> HIDE DEF entries
  <2> QED
    BY <2>1, <2>3, <2>4, <2>5, <2>6, <2>8, <2>10, <2>11
    DEF Kept, Reading, Reviewing, IsText, KindOf
<1> QED BY <1>4, <1>5

LEMMA KeptByCollecting == Shape /\ Kept /\ Collect => Kept'
<1> SUFFICES ASSUME Shape, Kept, Collect PROVE Kept'
  OBVIOUS
<1> USE DEF Goto, Mode, Live, Served, Reading, Reviewing
<1>1. UNCHANGED <<commits, head, upstream, index, disk>>
  BY CollectFrame DEF repoVars
<1>2. answer.kind = "none" /\ pc # "done"
  BY CollectStages DEF Shape, Contexts, Before
<1>3. ASSUME steady' = {}, answer'.kind # "served"
      PROVE  Kept'
  BY <1>3 DEF Kept
<1>4. ASSUME NEW r \in Request, Start(r) PROVE Kept'
  BY <1>2, <1>3, <1>4 DEF Start, Kept
<1>5. CASE ResolveOld
  <2>1. /\ Mode' = Mode /\ Mode # "single" /\ pc' \in {"resolveNew", "labels", "inventory"}
        /\ pc' = "labels" => Mode = "tree"
        /\ steady' = {} \/ steady' = Changed'
        /\ UNCHANGED answer
    BY <1>5 DEF ResolveOld
  <2> QED BY <1>2, <2>1 DEF Kept
<1>6. CASE ResolveNew
  <2>1. /\ Mode' = Mode /\ pc' = "inventory" /\ steady' = Changed' /\ UNCHANGED answer
        /\ Mode # "single"
    BY <1>6 DEF ResolveNew, Shape, Staged
  <2> QED BY <1>2, <2>1 DEF Kept
<1>7. CASE ReadEditor
  <2>1. steady' = {} /\ answer'.kind # "served"
    <3>1. answer' = answer \/ answer'.kind \in {"error", "fallback"}
      BY CollectStages
    <3> QED BY <1>2, <1>7, <3>1 DEF ReadEditor, Kept
  <2> QED BY <1>3, <2>1
<1>8. ASSUME UNCHANGED <<request, oldCommit, newCommit, steady>>
      PROVE  /\ OldTree' = OldTree /\ NewTree' = NewTree /\ Changed' = Changed
             /\ \A p \in steady' : p \in Changed'
  BY <1>1, <1>8 DEF Kept, Changed, OldTree, NewTree, Tracked, IsText, KindOf
<1>9. CASE Labels
  BY <1>1, <1>2, <1>8, <1>9 DEF Labels, Kept, Found, ToBeRead, ToBeListed
<1>10. ASSUME CollectionFails PROVE Kept'
  BY <1>2, <1>8, <1>10 DEF CollectionFails, readVars, Kept
<1>11. CASE ReadBaseline
  <2>1. CASE ~ CollectionFails
    <3>1. /\ pc = "baseline" /\ pc' = "read"
          /\ UNCHANGED <<request, oldCommit, newCommit, todo, rows, answer, steady>>
      BY <1>11, <2>1 DEF ReadBaseline
    <3>2. ~ Live
      BY <3>1 DEF Shape, Staged
    <3> QED BY <1>1, <1>2, <1>8, <3>1, <3>2 DEF Kept, Found, ToBeRead, ToBeListed
  <2> QED BY <1>10, <2>1
<1>12. CASE ListUntracked
  <2> DEFINE others == {q \in Path : index[q] = Absent /\ disk[q] # Absent}
             entries == {Entry("U", p, p) : p \in others}
  <2>1. entries \in SUBSET Entries /\ IsFiniteSet(entries)
    <3>1. entries \in SUBSET Entries
      BY DEF Entry, Entries, Codes
    <3> QED BY <3>1, EntriesFinite, FS_Subset
  <2>2. /\ pc = "read" /\ todo = <<>> /\ Mode = "tree" /\ pc' = "readUntracked"
        /\ todo' = SetToSeq(entries)
        /\ UNCHANGED <<request, oldCommit, newCommit, rows, answer, steady>>
    BY <1>12 DEF ListUntracked
  <2>3. ASSUME NEW p \in steady PROVE Found(p)' \/ ToBeRead(p)'
    <3>1. Found(p) \/ ToBeListed(p)
      BY <2>2 DEF Kept, ToBeRead
    <3>2. CASE Found(p)
      BY <2>2, <3>2 DEF Found
    <3>3. CASE ToBeListed(p)
      <4>1. p \in others
        BY <2>2, <3>3 DEF ToBeListed, Kept, Changed, NewTree
      <4>2. Entry("U", p, p) \in entries
        BY <4>1
      <4>3. PICK i \in DOMAIN todo' : todo'[i] = Entry("U", p, p)
        BY <2>1, <2>2, <4>2, SeqOfSetIsOnto
      <4>4. todo'[i].old = p
        BY <4>3 DEF Entry
      <4> QED BY <4>4 DEF ToBeRead
    <3> QED BY <3>1, <3>2, <3>3
  <2>4. ASSUME NEW p \in steady, NEW i \in DOMAIN todo', p \in {todo'[i].old, todo'[i].new}
        PROVE  IsText(OldTree[todo'[i].old]) /\ IsText(NewTree[todo'[i].new])
    <3>1. todo' \in Seq(entries)
      BY <2>1, <2>2, SeqOfSet
    <3>2. todo'[i] \in entries
      BY <3>1
    <3>3. todo'[i].old = p /\ todo'[i].new = p
      BY <2>4, <3>2 DEF Entry
    <3> QED BY <3>3 DEF Kept, Changed
  <2> HIDE DEF entries
  <2> QED BY <1>2, <1>8, <2>2, <2>3, <2>4 DEF Kept, IsText, KindOf
<1>13. CASE Collected
  <2>1. /\ todo = <<>> /\ pc \in Reading /\ (Mode = "tree" => pc = "readUntracked")
        /\ pc' \in {"commit", "policy"}
        /\ UNCHANGED <<request, oldCommit, newCommit, todo, rows, answer, steady>>
    BY <1>13 DEF Collected, readVars
  <2>2. \A p \in steady : Found(p)
    BY <2>1 DEF Kept, ToBeRead, ToBeListed
  <2> QED BY <1>1, <1>2, <2>1, <2>2, KeptInRows
<1> QED
  BY <1>4, <1>5, <1>6, <1>7, <1>9, <1>11, <1>12, <1>13, KeptByInventory, KeptByReading
  DEF Collect

LEMMA KeptStep == Shape /\ Kept /\ [Next]_vars => Kept'
<1> SUFFICES ASSUME Shape, Kept, [Next]_vars PROVE Kept'
  OBVIOUS
<1>1. CASE OthersStep \/ UNCHANGED vars
  <2>1. UNCHANGED <<commits, head, index, disk, request, oldCommit, newCommit, todo, rows, steady>>
    BY <1>1, OthersFrame DEF vars, collectionVars, repoVars, readVars
  <2>2. UNCHANGED <<pc, answer>>
    BY <1>1, OthersFrame DEF vars, collectionVars
  <2> QED BY <2>1, <2>2, KeptFrame
<1> QED BY <1>1, Steps, KeptByUser, KeptByCollecting, KeptByReview

-----------------------------------------------------------------------------
(* The theorems. *)
IInv == Shape /\ OldSides /\ Kept /\ Diffs /\ Scoped /\ DialectsAreOfTheFile /\ PolicyEditIsShown

LEMMA InitIInv == InitReview => IInv
<1> SUFFICES ASSUME InitReview PROVE IInv
  OBVIOUS
<1>1. Shape
  BY RepositoryAssumption
  DEF InitReview, Init, Shape, Repository, Collection, Contexts, Staged, Stages, Empty, Tree,
      NoAnswer, Collecting, Reviewing
<1>2. Kept
  BY DEF InitReview, Init, Kept, Served, NoAnswer
<1>3. OldSides /\ Diffs /\ Scoped /\ DialectsAreOfTheFile /\ PolicyEditIsShown
  BY DEF InitReview, Init, OldSides, Diffs, Scoped, Scopes, DialectsAreOfTheFile,
         PolicyEditIsShown, Served, NoAnswer
<1> QED BY <1>1, <1>2, <1>3 DEF IInv

LEMMA StepIInv == IInv /\ [Next]_vars => IInv'
BY ShapeStep, OldSidesStep, KeptStep, DiffsStep, ScopedStep, DialectsStep, PolicyStep DEF IInv

LEMMA Invariance == Spec => []IInv
BY InitIInv, StepIInv, PTL DEF Spec

(* The types are right, and the scope of the dialects is entered exactly    *)
(* while a file is being matched.                                           *)
THEOREM TypeCorrect == Spec => []TypeOK
<1>1. IInv => TypeOK
  <2> SUFFICES ASSUME IInv PROVE TypeOK
    OBVIOUS
  <2> USE DEF IInv, Shape
  <2>1. /\ \A c \in DOMAIN commits : commits[c] \in Tree
        /\ {head, upstream} \subseteq DOMAIN commits
        /\ {oldCommit, newCommit} \subseteq DOMAIN commits \cup {0}
    BY DEF Repository, Collection
  <2>2. {index, disk, baseline} \subseteq Tree /\ staged \subseteq Path /\ steady \subseteq Path
    BY DEF Repository, Collection, Contexts
  <2>3. ASSUME NEW i \in DOMAIN rows PROVE rows[i].old \in Source /\ rows[i].new \in Source
    <3>1. rows[i] \in RowSet
      BY RowLanguages
    <3> QED BY <3>1 DEF RowSet
  <2>4. pc \in Stages /\ Len(diffs) <= Len(rows)
    BY DEF Collection, Diffs
  <2>5. (scope # NoScope <=> pc = "match") /\ (answer # NoAnswer <=> pc = "done")
    BY DEF Scoped, Contexts
  <2> QED BY <2>1, <2>2, <2>3, <2>4, <2>5 DEF Contexts, TypeOK
<1> QED BY <1>1, Invariance, PTL

(* Every change that stays is in the rows, however the repository moves     *)
(* between the first git command and the last read.                         *)
THEOREM ChangesAreKept == Spec => []NoChangeIsLost
<1>1. IInv => NoChangeIsLost
  BY DEF IInv, Kept, Found, Reviewing, NoChangeIsLost
<1> QED BY <1>1, Invariance, PTL

(* One commit is the baseline of a live review, for any number of commits   *)
(* made while it is read.                                                   *)
THEOREM OldSidesAreConsistent == Spec => []OldSidesAreOfOneCommit
<1>1. IInv => OldSidesAreOfOneCommit
  <2> SUFFICES ASSUME IInv, Live
               PROVE  \E c \in DOMAIN commits : \A i \in DOMAIN rows :
                        rows[i].old # Absent => rows[i].old = commits[c][rows[i].oldPath]
    BY DEF OldSidesAreOfOneCommit
  <2>1. DOMAIN commits = 1..Len(commits) /\ Len(commits) >= 1 /\ Len(commits) \in Nat
        /\ oldCommit \in 0..Len(commits)
    BY DEF IInv, Shape, Repository, Collection
  <2>2. CASE oldCommit >= 1
    BY <2>1, <2>2 DEF IInv, OldSides
  <2>3. CASE ~ oldCommit >= 1
    BY <2>1, <2>3 DEF IInv, OldSides
  <2> QED BY <2>2, <2>3
<1> QED BY <1>1, Invariance, PTL

(* No file is dropped, taken for another, or passed off as understood.      *)
THEOREM ServedReviewIsWhole == Spec => []ServedIsWhole
<1>1. IInv => ServedIsWhole
  BY DEF IInv, Diffs, ServedIsWhole, RowLanguage
<1> QED BY <1>1, Invariance, PTL

(* An edit of the policy under its own name is always shown.                *)
THEOREM PolicyEditsAreShown == Spec => []PolicyEditIsShown
<1>1. IInv => PolicyEditIsShown
  BY DEF IInv
<1> QED BY <1>1, Invariance, PTL

(* Trees are matched with the dialects of their own file.                   *)
THEOREM DialectsAreConsistent == Spec => []DialectsAreOfTheFile
<1>1. IInv => DialectsAreOfTheFile
  BY DEF IInv
<1> QED BY <1>1, Invariance, PTL
=============================================================================
