------------------------------ MODULE LiveReview ------------------------------
(****************************************************************************)
(* A commit review (live_handle_review_impl in live_server.rs), the diff of *)
(* one file with an editor's text (live_handle_diff_impl), and the          *)
(* certified working-tree diff (diff_working_tree_python_commit_json_impl): *)
(* collect the changed sources, load the guardrail policy, find a parser    *)
(* for each file, index the symbols, diff file after file, and answer with  *)
(* the whole commit or not at all.                                          *)
(*                                                                          *)
(* What a parser makes of two sources is any of                             *)
(*   clean       a semantic diff without parse errors                       *)
(*   incomplete  a fallback diff, or one with parse errors                  *)
(*   declined    an error, or a style-only pair of Python sources           *)
(****************************************************************************)
EXTENDS SourceCollection

CONSTANTS
  PolicyPath,   \* intentumdiff.yaml
  Rules,        \* of a content as a policy: "none", "rules", "offspec"
  Dialects,     \* XML dialects: of the schema profiles, of the registry
  NoScope       \* no thread-local dialects

ASSUME ReviewAssumption ==
  /\ PolicyPath \in Path /\ Language[PolicyPath] # "python"
  /\ Rules \in [Content -> {"none", "rules", "offspec"}]
  /\ NoScope \notin Dialects

VARIABLES
  profiles,   \* dialects of the schema profiles in the repository
  registry,   \* USER_XML_DIALECTS
  scope,      \* SCOPED_XML_DIALECTS of the thread of the review
  resolved,   \* the profiles resolved for the current file
  rules,      \* the guardrail policy of the review
  batch,      \* the items of the certified batch
  diffs       \* file_diffs

xmlVars == <<profiles, registry, scope, resolved>>
reviewVars == <<rules, batch, diffs>>
vars == <<collectionVars, xmlVars, reviewVars>>

InitReview ==
  /\ Init
  /\ profiles \in Dialects
  /\ registry \in Dialects
  /\ scope = NoScope
  /\ resolved = NoScope
  /\ rules = "none"
  /\ batch = <<>>
  /\ diffs = <<>>

Outcomes == {"clean", "incomplete", "declined"}

Answer(kind) ==
  /\ answer' = [kind |-> kind]
  /\ Goto("done")
  /\ UNCHANGED <<repoVars, readVars>>

Continue(l) ==
  /\ Goto(l)
  /\ UNCHANGED <<repoVars, readVars, answer>>

-----------------------------------------------------------------------------
(****************************************************************************)
(* The others: the schema profiles are edited, a host registers dialects.   *)
(****************************************************************************)
EditProfiles(d) ==
  /\ profiles # d
  /\ steps < MaxUserSteps
  /\ steps' = steps + 1
  /\ profiles' = d
  /\ UNCHANGED <<commits, head, upstream, index, disk, pc, readVars, answer>>
  /\ UNCHANGED <<registry, scope, resolved, reviewVars>>

(* set_user_xml_dialects *)
SetRegistry(d) ==
  /\ registry # d
  /\ steps < MaxUserSteps
  /\ steps' = steps + 1
  /\ registry' = d
  /\ UNCHANGED <<commits, head, upstream, index, disk, pc, readVars, answer>>
  /\ UNCHANGED <<profiles, scope, resolved, reviewVars>>

-----------------------------------------------------------------------------
(****************************************************************************)
(* load_guardrail_policy_state, once the sources are there; for a single    *)
(* file, once its parser is known.                                          *)
(****************************************************************************)
PolicyAbsent ==
  /\ pc = "policy"
  /\ ~ request.guarded \/ disk[PolicyPath] = Absent
  /\ Continue(IF Mode = "single" THEN "files" ELSE "parsers")
  /\ UNCHANGED <<xmlVars, reviewVars>>

PolicyFound ==
  /\ pc = "policy"
  /\ request.guarded
  /\ disk[PolicyPath] # Absent
  /\ Continue("policyRead")
  /\ UNCHANGED <<xmlVars, reviewVars>>

PolicyIsReadable == disk[PolicyPath] # Absent /\ Rules[disk[PolicyPath]] # "offspec"

PolicyRead ==
  /\ pc = "policyRead"
  /\ PolicyIsReadable
  /\ rules' = Rules[disk[PolicyPath]]
  /\ Continue(IF Mode = "single" THEN "files" ELSE "parsers")
  /\ UNCHANGED <<xmlVars, batch, diffs>>

(* Gone since, unreadable, or off-spec: defer. *)
PolicyDefers ==
  /\ pc = "policyRead"
  /\ ~ PolicyIsReadable
  /\ Answer("fallback")
  /\ UNCHANGED <<xmlVars, reviewVars>>

-----------------------------------------------------------------------------
(****************************************************************************)
(* resolve_parser_for_sources for each row; then                            *)
(* compute_commit_cross_file_changes, which parses every side that is not   *)
(* empty once more.                                                         *)
(****************************************************************************)
RowLanguage(i) == Language[rows[i].newPath]
PythonRows == {i \in DOMAIN rows : RowLanguage(i) = "python"}
Unresolved == {i \in DOMAIN rows : RowLanguage(i) = "none"}

ResolveParsers ==
  /\ pc = "parsers"
  /\ IF Unresolved # {} THEN Answer("fallback")
     ELSE Continue(IF Mode = "single" THEN "policy" ELSE "symbols")
  /\ UNCHANGED <<xmlVars, reviewVars>>

IndexSymbols ==
  /\ pc = "symbols"
  /\ Continue(IF PythonRows = DOMAIN rows THEN "commit" ELSE "batch")
  /\ UNCHANGED <<xmlVars, reviewVars>>

(* "?": a parser that fails there ends the review with an error. *)
IndexSymbolsFails ==
  /\ pc = "symbols"
  /\ \E i \in DOMAIN rows : rows[i].old # Absent \/ rows[i].new # Absent
  /\ Answer("error")
  /\ UNCHANGED <<xmlVars, reviewVars>>

-----------------------------------------------------------------------------
(****************************************************************************)
(* The diff of a file.                                                      *)
(****************************************************************************)

(* Mutant: what was computed is taken for verified. *)
CertifiesAll(outcome) == outcome # "declined"

(* certify_live_diff_value *)
Certifies(outcome) == outcome = "clean"

(* is_guardrail_policy_filename(&f.path) && f.old_content != f.new_content;  *)
(* f.path is the new path.                                                  *)
PolicyViolation(row) ==
  IF request.guarded /\ row.newPath = PolicyPath /\ row.old # row.new
  THEN {"policy_file"} ELSE {}

(* row: whose sources it is of; matched: the dialects its trees were        *)
(* matched with; profile: what its metadata says of the schema.             *)
Diff(i, outcome, matched, violations) ==
  [row |-> i, parser |-> RowLanguage(i), outcome |-> outcome,
   profile |-> resolved, matched |-> matched, violations |-> violations]

PythonDiff(i, outcome) ==
  [Diff(i, outcome, NoScope, {}) EXCEPT !.profile = NoScope]

Serve(all, violations) ==
  /\ answer' = [kind |-> "served", violations |-> violations]
  /\ diffs' = all
  /\ Goto("done")
  /\ UNCHANGED <<repoVars, readVars>>

(* diff_batch_commit_json_impl, commit_json_from_request_files_direct: all  *)
(* Python.  One item that is not complete makes the commit fall back, and a *)
(* live review checks the completeness of each diff.                        *)
CommitAnswer(outcome) ==
  LET all == [i \in DOMAIN rows |-> PythonDiff(i, outcome[i])]
  IN  \/ /\ \E i \in DOMAIN rows :
              \/ outcome[i] = "declined"
              \/ Mode # "certified" /\ ~ Certifies(outcome[i])
         /\ Answer("fallback")
         /\ UNCHANGED diffs
      \/ /\ \A i \in DOMAIN rows :
              /\ outcome[i] # "declined"
              /\ Mode # "certified" => Certifies(outcome[i])
         /\ Serve(all, {})

CommitJson ==
  /\ pc = "commit"
  /\ \E outcome \in [DOMAIN rows -> Outcomes] : CommitAnswer(outcome)
  /\ UNCHANGED <<xmlVars, rules, batch>>

(* diff_batch_impl: a batch for the Python files of a mixed commit.  The    *)
(* items of the others come back as fallbacks.                              *)
Batch ==
  /\ pc = "batch"
  /\ \E outcome \in [PythonRows -> Outcomes] :
       batch' = [i \in DOMAIN rows |->
                   [index |-> i,
                    outcome |-> IF i \in PythonRows THEN outcome[i] ELSE "declined"]]
  /\ Continue("files")
  /\ UNCHANGED <<xmlVars, rules, diffs>>

Current == Len(diffs) + 1

AddDiff(d) == diffs' = Append(diffs, d)

FilePython ==
  /\ pc = "files"
  /\ Current \in PythonRows
  /\ \E item \in Range(batch) :
       /\ item.index = Current
       /\ IF Certifies(item.outcome)
          THEN AddDiff(PythonDiff(Current, item.outcome)) /\ Continue("files")
          ELSE Answer("fallback") /\ UNCHANGED diffs
  /\ UNCHANGED <<xmlVars, rules, batch>>

(* diff_resolved_sources: a batch of one.  Style-only sources, which the    *)
(* batch declines, are served if their tokens agree.                        *)
SinglePython ==
  /\ pc = "files"
  /\ Mode = "single"
  /\ Current \in PythonRows
  /\ \E outcome \in Outcomes, sameTokens \in BOOLEAN :
       IF \/ Certifies(outcome)
          \/ outcome = "declined" /\ sameTokens /\ rows[1].old # rows[1].new
       THEN AddDiff(PythonDiff(Current, "clean")) /\ Continue("files")
       ELSE Answer("fallback") /\ UNCHANGED diffs
  /\ UNCHANGED <<xmlVars, rules, batch>>

(* native_wasm_single_diff fails before the trees are there. *)
FileDeclined ==
  /\ pc = "files"
  /\ Current \in DOMAIN rows \ PythonRows
  /\ Answer("fallback")
  /\ UNCHANGED <<xmlVars, reviewVars>>

(* schema_context::resolve, and the scope for the dialects it found. *)
EnterScope ==
  /\ pc = "files"
  /\ Current \in DOMAIN rows \ PythonRows
  /\ resolved' = profiles
  /\ scope' = profiles
  /\ Continue("match")
  /\ UNCHANGED <<profiles, registry, reviewVars>>

(* Mutant: the process-wide registry decides. *)
MatchingOfRegistry == registry

(* matching_user_xml_dialect *)
Matching == IF scope # NoScope THEN scope ELSE registry

(* Mutant: the scope is left by hand, behind an early return. *)
DropScopeIfClean(outcome) == IF Certifies(outcome) THEN NoScope ELSE scope

(* The drop of _xml_scope, on every way out; nothing was there before. *)
DropScope(outcome) == NoScope

ViolationsOf(i, found) == found \cup PolicyViolation(rows[i])

(* The rest of native_wasm_single_diff, and of the loop of the review.      *)
(* Rules find what they find.                                               *)
FileWasm ==
  /\ pc = "match"
  /\ \E outcome \in Outcomes, found \in SUBSET (IF rules = "rules" THEN {"rule"} ELSE {}) :
       /\ scope' = DropScope(outcome)
       /\ IF Certifies(outcome)
          THEN /\ AddDiff(Diff(Current, outcome, Matching, ViolationsOf(Current, found)))
               /\ Continue("files")
          ELSE Answer("fallback") /\ UNCHANGED diffs
  /\ resolved' = NoScope
  /\ UNCHANGED <<profiles, registry, rules, batch>>

(* Commit-level violations are the union of the files'. *)
Assemble ==
  /\ pc = "files"
  /\ Current > Len(rows)
  /\ Serve(diffs, UNION {diffs[i].violations : i \in DOMAIN diffs})
  /\ UNCHANGED <<xmlVars, rules, batch>>

Review ==
  \/ PolicyAbsent \/ PolicyFound \/ PolicyRead \/ PolicyDefers
  \/ ResolveParsers
  \/ IndexSymbols \/ IndexSymbolsFails
  \/ CommitJson
  \/ Batch
  \/ FilePython \/ SinglePython \/ FileDeclined \/ EnterScope \/ FileWasm
  \/ Assemble

Next ==
  \/ (Collect \/ User) /\ UNCHANGED <<xmlVars, reviewVars>>
  \/ Review
  \/ \E d \in Dialects : EditProfiles(d) \/ SetRegistry(d)

Spec == InitReview /\ [][Next]_vars

-----------------------------------------------------------------------------
(****************************************************************************)
(* Properties.                                                              *)
(****************************************************************************)
Served == answer.kind = "served"
Live == Mode # "certified"

Stages ==
  {"idle", "resolve", "resolveNew", "labels", "inventory", "baseline", "read",
   "readUntracked", "policy", "policyRead", "parsers", "symbols", "commit", "batch",
   "files", "match", "done"}

Source == Content \cup {Absent}

TypeOK ==
  /\ \A c \in DOMAIN commits : commits[c] \in Tree
  /\ {head, upstream} \subseteq DOMAIN commits
  /\ {oldCommit, newCommit} \subseteq DOMAIN commits \cup {0}
  /\ {index, disk, baseline} \subseteq Tree
  /\ pc \in Stages
  /\ staged \subseteq Path /\ steady \subseteq Path
  /\ \A i \in DOMAIN rows : rows[i].old \in Source /\ rows[i].new \in Source
  /\ answer.kind \in {"none", "error", "fallback", "served"}
  /\ answer # NoAnswer <=> pc = "done"
  /\ {profiles, registry} \subseteq Dialects
  /\ scope # NoScope <=> pc = "match"
  /\ rules \in {"none", "rules"}
  /\ Len(diffs) <= Len(rows)

(* A change is not lost: a path whose text differs from the baseline from   *)
(* the first git command to the last read, and which stays tracked or       *)
(* untracked, is a row of what is reviewed, whatever else is edited, added, *)
(* committed or removed meanwhile - or the review is not served.            *)
NoChangeIsLost ==
  Served \/ pc \in {"parsers", "symbols", "batch", "files"}
    => \A p \in steady : \E i \in DOMAIN rows : p \in {rows[i].oldPath, rows[i].newPath}

(* The old sides of a live review are those of one commit, although HEAD    *)
(* and the index move while they are read.                                  *)
OldSidesAreOfOneCommit ==
  Live => \E c \in DOMAIN commits : \A i \in DOMAIN rows :
    rows[i].old # Absent => rows[i].old = commits[c][rows[i].oldPath]

(* A review that is served has one diff for each changed source, in their   *)
(* order, of that source and by its parser, and each a verified one: no     *)
(* file is dropped, taken for another, or passed off as understood.         *)
ServedIsWhole ==
  Served => /\ Len(diffs) = Len(rows)
            /\ \A i \in DOMAIN diffs :
                 /\ diffs[i].row = i
                 /\ diffs[i].parser = Language[rows[i].newPath]
                 /\ Live => diffs[i].outcome = "clean"

(* An edit of the policy is shown in the review it is a part of, whatever   *)
(* rules the policy has, before or after.                                   *)
PolicyEditIsShown ==
  Served /\ Live /\ request.guarded
    => \A i \in DOMAIN rows :
         rows[i].newPath = PolicyPath /\ rows[i].old # rows[i].new
           => "policy_file" \in answer.violations

(* "a change to intentumdiff.yaml itself is an IMMUTABLE violation          *)
(* regardless of rules" (live_server.rs:342), a policy that is edited and   *)
(* renamed in one commit included.                                          *)
PolicyChangeIsShown ==
  Served /\ Live /\ request.guarded
    => \A i \in DOMAIN rows :
         PolicyPath \in {rows[i].oldPath, rows[i].newPath} /\ rows[i].old # rows[i].new
           => "policy_file" \in answer.violations

(* The trees of a file are matched with the dialects its metadata names:    *)
(* those of the profiles read for that file, whatever other threads         *)
(* register and whatever the thread did before.                             *)
DialectsAreOfTheFile == \A i \in DOMAIN diffs : diffs[i].matched = diffs[i].profile
=============================================================================
