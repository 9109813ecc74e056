--------------------------- MODULE SourceCollection ---------------------------
(****************************************************************************)
(* The changed sources of a review: a repository somebody works in, and the *)
(* collection of its changes by one git command and one file read after the *)
(* other (git_source.rs, commit_plumbing.rs).  Nothing locks the repository *)
(* meanwhile: files are edited, added, committed and pushed between any two *)
(* steps.                                                                   *)
(*                                                                          *)
(* request.mode says which changes are asked for:                           *)
(*   tree       new_ref "": HEAD against the working tree                   *)
(*   staged     ":staged": HEAD against the index                           *)
(*   between    ":unpushed", or two refs, here the upstream and HEAD        *)
(*   certified  the collector of diff_working_tree_python_commit_json       *)
(*   single     one file against the text of an editor (live_handle_diff)   *)
(****************************************************************************)
EXTENDS Naturals, Sequences, FiniteSets, SequencesExt

CONSTANTS
  Path,          \* the files of the repository
  Content,       \* what a file may hold
  Absent,        \* no such file; its source is the empty text
  Kind,          \* of a content: "text", "nul" (a NUL byte), "magic", "invalid"
  Similar,       \* pairs of contents git takes for a rename
  Language,      \* of a path: "python", "wasm", "none" (no bundled parser)
  Base,          \* the files of the first commit
  Request,       \* what may be asked for: [mode, guarded], single: path, content too
  MaxUserSteps   \* bound on what happens to the repository

Tree == [Path -> Content \cup {Absent}]

ASSUME RepositoryAssumption ==
  /\ IsFiniteSet(Path)
  /\ Absent \notin Content
  /\ Kind \in [Content -> {"text", "nul", "magic", "invalid"}]
  /\ Similar \subseteq Content \X Content
  /\ Language \in [Path -> {"python", "wasm", "none"}]
  /\ Base \in Tree

Modes == {"tree", "staged", "between", "certified", "single"}

ASSUME RequestAssumption ==
  \A r \in Request :
    /\ r.mode \in Modes
    /\ r.mode = "single" => r.path \in Path /\ r.content \in Content

VARIABLES
  commits,    \* every commit there has been, as a tree
  head,       \* the commit HEAD names
  upstream,   \* the commit the upstream branch names
  index,      \* the staged tree
  disk,       \* the working tree
  pc,         \* where the review is
  request,    \* what it was asked for
  oldCommit,  \* the commit its old ref was resolved to
  newCommit,  \* the commit its new ref was resolved to
  staged,     \* the paths it labels as staged
  baseline,   \* the old sources read in one go (certified)
  todo,       \* the entries of the inventory that are still to be read
  rows,       \* the changed sources
  answer,     \* what the review ended with
  steady,     \* the paths changed and tracked alike since it began; not in the code
  steps       \* how often the repository has changed, for the bound

repoVars == <<commits, head, upstream, index, disk, steps>>
readVars == <<request, oldCommit, newCommit, staged, baseline, todo, rows, steady>>
collectionVars == <<repoVars, pc, readVars, answer>>

NoAnswer == [kind |-> "none"]
Empty == [p \in Path |-> Absent]

Init ==
  /\ commits = <<Base>>
  /\ head = 1
  /\ upstream = 1
  /\ index = Base
  /\ disk = Base
  /\ pc = "idle"
  /\ request = [mode |-> "none", guarded |-> FALSE]
  /\ oldCommit = 0
  /\ newCommit = 0
  /\ staged = {}
  /\ baseline = Empty
  /\ todo = <<>>
  /\ rows = <<>>
  /\ answer = NoAnswer
  /\ steady = {}
  /\ steps = 0

Mode == request.mode

-----------------------------------------------------------------------------
(****************************************************************************)
(* Git.                                                                     *)
(****************************************************************************)

(* The working tree as git diff sees it: tracked files only. *)
Tracked == [p \in Path |-> IF index[p] = Absent THEN Absent ELSE disk[p]]

Deleted(old, new) == {p \in Path : old[p] # Absent /\ new[p] = Absent}
Added(old, new) == {p \in Path : old[p] = Absent /\ new[p] # Absent}
Modified(old, new) ==
  {p \in Path : old[p] # Absent /\ new[p] # Absent /\ old[p] # new[p]}

Renamable(old, new) ==
  {r \in Deleted(old, new) \X Added(old, new) : <<old[r[1]], new[r[2]]>> \in Similar}

(* Git pairs deleted files with added ones as far as it can; which, if there *)
(* is a choice, is its own affair.                                          *)
Renames(old, new) ==
  LET candidates == Renamable(old, new)
      injective(R) == \A r, s \in R : r[1] = s[1] <=> r[2] = s[2]
  IN  {R \in SUBSET candidates :
         injective(R) /\ \A r \in candidates \ R : ~ injective(R \cup {r})}

Entry(code, old, new) == [code |-> code, old |-> old, new |-> new]

(* The records of git diff --name-status -z. *)
NameStatus(old, new, R) ==
  {Entry("R", r[1], r[2]) : r \in R}
  \cup {Entry("D", p, p) : p \in Deleted(old, new) \ {r[1] : r \in R}}
  \cup {Entry("A", p, p) : p \in Added(old, new) \ {r[2] : r \in R}}
  \cup {Entry("M", p, p) : p \in Modified(old, new)}

-----------------------------------------------------------------------------
(****************************************************************************)
(* What the review is to find, at this moment.                              *)
(****************************************************************************)
OldTree == commits[IF Mode = "certified" THEN head ELSE oldCommit]

NewTree ==
  CASE Mode = "tree" -> disk
    [] Mode = "certified" -> Tracked
    [] Mode = "staged" -> index
    [] OTHER -> commits[newCommit]

KindOf(c) == IF c = Absent THEN "text" ELSE Kind[c]

IsText(c) == KindOf(c) = "text"

Changed == {p \in Path : OldTree[p] # NewTree[p] /\ IsText(OldTree[p]) /\ IsText(NewTree[p])}

(* A step of the user: paths that become unchanged, opaque, tracked or      *)
(* untracked are no longer expected, nor is a deletion that git took for a  *)
(* rename to what is opaque by now.                                         *)
StaysExpected(p) ==
  /\ p \in Changed'
  /\ index'[p] = Absent <=> index[p] = Absent
  /\ \A i \in DOMAIN todo : todo[i].old = p => IsText(NewTree'[todo[i].new])

UserStep ==
  /\ steps < MaxUserSteps
  /\ steps' = steps + 1
  /\ UNCHANGED <<pc, request, oldCommit, newCommit, staged, baseline, todo, rows, answer>>
  /\ steady' = {p \in steady : StaysExpected(p)}

Edit(p, c) ==
  /\ disk[p] # c
  /\ disk' = [disk EXCEPT ![p] = c]
  /\ UNCHANGED <<commits, head, upstream, index>>
  /\ UserStep

Add(p) ==
  /\ index[p] # disk[p]
  /\ index' = [index EXCEPT ![p] = disk[p]]
  /\ UNCHANGED <<commits, head, upstream, disk>>
  /\ UserStep

(* git rm --cached *)
Untrack(p) ==
  /\ index[p] # Absent
  /\ index' = [index EXCEPT ![p] = Absent]
  /\ UNCHANGED <<commits, head, upstream, disk>>
  /\ UserStep

Commit ==
  /\ index # commits[head]
  /\ commits' = Append(commits, index)
  /\ head' = Len(commits')
  /\ UNCHANGED <<upstream, index, disk>>
  /\ UserStep

Push ==
  /\ upstream # head
  /\ upstream' = head
  /\ UNCHANGED <<commits, head, index, disk>>
  /\ UserStep

User ==
  \/ \E p \in Path : Add(p) \/ Untrack(p) \/ \E c \in Content \cup {Absent} : Edit(p, c)
  \/ Commit
  \/ Push

-----------------------------------------------------------------------------
(****************************************************************************)
(* The collection.                                                          *)
(****************************************************************************)
Goto(l) == pc' = l

Start(r) ==
  /\ pc = "idle"
  /\ request' = r
  /\ Goto(IF r.mode = "certified" THEN "inventory" ELSE "resolve")
  /\ UNCHANGED <<repoVars, oldCommit, newCommit, staged, baseline, todo, rows, answer, steady>>

(* An error of the collector: a live review falls back. *)
CollectionFails ==
  /\ answer' = [kind |-> IF Mode = "certified" THEN "error" ELSE "fallback"]
  /\ Goto("done")
  /\ UNCHANGED <<repoVars, readVars>>

(* resolve_commit of the old ref, rev-parse @{u}.  What is changed now is   *)
(* what the collection has to find.                                         *)
ResolveOld ==
  /\ pc = "resolve"
  /\ Mode # "single"
  /\ oldCommit' = IF Mode = "between" THEN upstream ELSE head
  /\ Goto(CASE Mode = "between" -> "resolveNew"
            [] Mode = "tree" -> "labels"
            [] OTHER -> "inventory")
  /\ UNCHANGED <<repoVars, request, newCommit, staged, baseline, todo, rows, answer>>
  /\ steady' = IF Mode = "between" THEN {} ELSE Changed'

ResolveNew ==
  /\ pc = "resolveNew"
  /\ newCommit' = head
  /\ Goto("inventory")
  /\ UNCHANGED <<repoVars, request, oldCommit, staged, baseline, todo, rows, answer>>
  /\ steady' = Changed'

(* read_live_git_blob_strict: a path the commit does not have is an         *)
(* addition; what is no text fails.                                         *)
ReadEditor ==
  /\ pc = "resolve"
  /\ Mode = "single"
  /\ oldCommit' = head
  /\ LET old == commits[head][request.path]
     IN  IF KindOf(old) \in {"invalid", "magic"}
         THEN answer' = [kind |-> "error"] /\ Goto("done") /\ UNCHANGED rows
         ELSE /\ rows' = <<[old |-> old, new |-> request.content, oldPath |-> request.path,
                            newPath |-> request.path, staging |-> ""]>>
              /\ Goto("parsers")
              /\ UNCHANGED answer
  /\ UNCHANGED <<repoVars, request, newCommit, staged, baseline, todo, steady>>

(* git diff --cached --name-only: before the inventory, or after it. *)
Labels ==
  /\ pc = "labels"
  /\ staged' = {p \in Path : index[p] # OldTree[p]}
  /\ Goto(IF Mode = "certified" THEN "baseline" ELSE "inventory")
  /\ UNCHANGED <<repoVars, request, oldCommit, newCommit, baseline, todo, rows, answer, steady>>

Seen == IF Mode = "tree" THEN Tracked ELSE NewTree

OnlyPython(entries) ==
  \A e \in entries : Language[e.old] = "python" \/ Language[e.new] = "python"

(* A rename is excluded for either of its sides: of a path that git takes   *)
(* for one side, nothing is expected if the other is opaque.                *)
WithText(entries) ==
  {p \in Path : \A e \in entries :
     p \in {e.old, e.new} => IsText(OldTree[e.old]) /\ IsText(NewTree[e.new])}

Inventory ==
  /\ pc = "inventory"
  /\ \E R \in Renames(OldTree, Seen) :
       LET entries == NameStatus(OldTree, Seen, R)
       IN  IF Mode = "certified" /\ ~ OnlyPython(entries) THEN CollectionFails
           ELSE /\ todo' = SetToSeq(entries)
                /\ steady' = IF Mode = "certified" THEN Changed
                             ELSE steady \cap WithText(entries)
                /\ Goto(CASE Mode # "certified" -> "read"
                          [] Mode = "certified" /\ entries = {} -> "commit"
                          [] OTHER -> "labels")
                /\ UNCHANGED <<repoVars, request, oldCommit, newCommit, staged, baseline,
                               rows, answer>>

(* read_commit_paths_batch_rust: one cat-file, which names the ref again. *)
ReadBaseline ==
  /\ pc = "baseline"
  /\ IF \E i \in DOMAIN todo : todo[i].code # "A" /\ commits[head][todo[i].old] = Absent
     THEN CollectionFails
     ELSE /\ baseline' = commits[head]
          /\ Goto("read")
          /\ UNCHANGED <<repoVars, request, oldCommit, newCommit, staged, todo, rows,
                         answer, steady>>

(* Mutant: the blob is read under the name of the ref. *)
OldBlobByRef(p) == IF Mode = "certified" THEN baseline[p] ELSE commits[head][p]

(* read_blob_bytes_at_rev of the commit that was resolved. *)
OldBlob(p) == IF Mode = "certified" THEN baseline[p] ELSE commits[oldCommit][p]

OldSource(e) == IF e.code \in {"A", "U"} THEN Absent ELSE OldBlob(e.old)

(* The file on disk, the blob in the index, the blob of the commit. *)
NewSource(e) ==
  IF e.code = "D" THEN Absent
  ELSE IF Mode = "certified" THEN disk[e.new] ELSE NewTree[e.new]

(* decode_changed_source, from_utf8 behind the NUL test, read_to_string:    *)
(* bytes that are no source exclude the file or fail the collection.        *)
Rejects(old, new) ==
  LET kinds == {KindOf(old), KindOf(new)}
  IN  CASE Mode = "tree" -> "invalid" \in kinds
        [] Mode = "certified" -> {"invalid", "magic"} \cap kinds # {}
        [] OTHER -> "nul" \notin kinds /\ {"invalid", "magic"} \cap kinds # {}

Excludes(old, new) ==
  LET kinds == {KindOf(old), KindOf(new)}
  IN  CASE Mode = "tree" -> {"nul", "magic"} \cap kinds # {}
        [] Mode = "certified" -> FALSE
        [] OTHER -> "nul" \in kinds

IsStaged(e) ==
  \/ Mode = "staged"
  \/ Mode = "certified" /\ {e.old, e.new} \cap staged # {}
  \/ Mode = "tree" /\ e.new \in staged

Staging(e) ==
  IF e.code = "U" THEN "untracked"
  ELSE IF Mode = "between" THEN ""
  ELSE IF IsStaged(e) THEN "staged" ELSE "unstaged"

Row(e) ==
  [old |-> OldSource(e), new |-> NewSource(e), oldPath |-> e.old, newPath |-> e.new,
   staging |-> Staging(e)]

AddRows(new) ==
  /\ rows' = rows \o new
  /\ todo' = Tail(todo)
  /\ UNCHANGED <<repoVars, pc, request, oldCommit, newCommit, staged, baseline, answer, steady>>

(* Mutant: a file that is gone by now is passed over. *)
ReadEntryLenient ==
  /\ pc \in {"read", "readUntracked"}
  /\ todo # <<>>
  /\ LET e == Head(todo)
     IN  IF e.code # "D" /\ NewSource(e) = Absent THEN AddRows(<<>>)
         ELSE IF Rejects(OldSource(e), NewSource(e)) THEN CollectionFails
         ELSE AddRows(IF Excludes(OldSource(e), NewSource(e)) THEN <<>> ELSE <<Row(e)>>)

(* One entry: both its sides are read and decoded. *)
ReadEntry ==
  /\ pc \in {"read", "readUntracked"}
  /\ todo # <<>>
  /\ LET e == Head(todo)
     IN  IF \/ e.code # "D" /\ NewSource(e) = Absent
            \/ Rejects(OldSource(e), NewSource(e))
         THEN CollectionFails
         ELSE AddRows(IF Excludes(OldSource(e), NewSource(e)) THEN <<>> ELSE <<Row(e)>>)

(* git ls-files --others *)
ListUntracked ==
  /\ pc = "read"
  /\ todo = <<>>
  /\ Mode = "tree"
  /\ todo' = SetToSeq({Entry("U", p, p) : p \in {q \in Path : index[q] = Absent /\ disk[q] # Absent}})
  /\ Goto("readUntracked")
  /\ UNCHANGED <<repoVars, request, oldCommit, newCommit, staged, baseline, rows, answer, steady>>

Collected ==
  /\ todo = <<>>
  /\ pc = IF Mode = "tree" THEN "readUntracked" ELSE "read"
  /\ Goto(IF Mode = "certified" THEN "commit" ELSE "policy")
  /\ UNCHANGED <<repoVars, readVars, answer>>

Collect ==
  \/ \E r \in Request : Start(r)
  \/ ResolveOld \/ ResolveNew \/ ReadEditor
  \/ Labels
  \/ Inventory
  \/ ReadBaseline
  \/ ReadEntry
  \/ ListUntracked
  \/ Collected
=============================================================================
