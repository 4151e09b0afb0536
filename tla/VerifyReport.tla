----------------------------- MODULE VerifyReport -----------------------------
(***************************************************************************)
(* POST /script-repos/{id}/verify: `run' of services/verify.py, from the   *)
(* ref to the report and its audit row.                                    *)
(*                                                                         *)
(* The ref is resolved as for a pin (module RefResolution).  Then the      *)
(* directory of the plan, and nothing else, is checked out at the commit,  *)
(* and the findings are made from what lies there.                         *)
(*                                                                         *)
(* A tree is a function from the paths of its files; a path is a sequence  *)
(* of names.  The paths a plan or a manifest gives relative to the plan's  *)
(* directory are written out in full.                                      *)
(***************************************************************************)
EXTENDS RefResolution

CONSTANTS TreeOf,        \* the tree of each commit
          PlanPath,      \* script_repos.plan_path, of several repositories
          ManifestName,  \* plimsoll.yaml
          PlanFile,      \* the files that parse as plans
          ManifestFile,  \* those that parse as manifests: the plans they list
          RaisingFile,   \* those whose parser raises what the code does not expect
          Variable,
          NoRow

Path == Seq(STRING) \ {<<>>}

\* What is a file is not a directory.
ASSUME TreeAssumption ==
    /\ DOMAIN TreeOf = Commit
    /\ \A c \in Commit :
         /\ DOMAIN TreeOf[c] \subseteq Path
         /\ \A p, q \in DOMAIN TreeOf[c] : IsPrefix(p, q) => p = q
ASSUME PlanPathAssumption ==
    /\ ManifestName \in STRING
    /\ PlanPath \subseteq Path
    /\ \A p \in PlanPath : Last(p) # ManifestName
ASSUME RaisingAssumption == RaisingFile \cap PlanFile = {} /\ RaisingFile \cap ManifestFile = {}
ASSUME PlanFileAssumption ==
    \A f \in PlanFile :
        f.uses \subseteq Variable /\ f.reads \subseteq Path /\ f.byVariable \in BOOLEAN
ASSUME ManifestFileAssumption ==
    \A m \in ManifestFile : m \in Seq([plan : Path, declares : SUBSET Variable, data : SUBSET Path])

VARIABLES
    path,      \* the plan path of the repository the request is about
    findings,  \* the codes in the report
    audit      \* the row the request leaves in the audit log

verifyVars == <<vars, path, findings, audit>>

Warnings == {"TARGET_UNRESOLVED"}
Errors == {"PLAN_MISSING", "PLAN_UNPARSEABLE", "MANIFEST_INVALID", "PLAN_NOT_DECLARED",
           "DATA_FILE_MISSING", "DATA_FILE_UNDECLARED", "VARIABLE_NOT_DECLARED"}

VerifyTypeOK ==
    /\ TypeOK
    /\ path \in PlanPath
    /\ findings \subseteq Warnings \cup Errors
    /\ audit \in [ok : BOOLEAN, commit : Object] \cup {NoRow}
    /\ audit # NoRow => stage = "pinned"

VerifyInit ==
    /\ Init
    /\ path \in PlanPath
    /\ findings = {}
    /\ audit = NoRow

-----------------------------------------------------------------------------
(***************************************************************************)
(* What is checked out.                                                    *)
(***************************************************************************)
Restricted(tree, paths) == [p \in DOMAIN tree \cap paths |-> tree[p]]

\* Variant: the plan's directory without what lies below it.
CheckedOutFlat(tree, plan) == Restricted(tree, {p \in DOMAIN tree : Front(p) = Front(plan)})

\* `git sparse-checkout set --no-cone DIRECTORY'.  A pattern with a slash names a
\* directory from the root, one without names it at any depth.  The directory
\* of a plan in the root is `.', which as a pattern matches no file at all.
CheckedOut(tree, plan) ==
    LET directory == Front(plan)
    IN  Restricted(tree,
          {p \in DOMAIN tree :
             \/ Len(directory) > 1 /\ IsPrefix(directory, p)
             \/ Len(directory) = 1 /\ \E i \in DOMAIN p : p[i] = directory[1]})

\* The manifest in the plan's directory, or else the nearest above it: a set of
\* one path or none.
FindManifest(files, plan) ==
    LET above == {p \in DOMAIN files : Last(p) = ManifestName /\ IsPrefix(Front(p), plan)}
    IN  {p \in above : \A q \in above : Len(q) <= Len(p)}

(***************************************************************************)
(* The findings.                                                           *)
(***************************************************************************)
PlanFindings(file) ==
    IF file \notin PlanFile THEN {"PLAN_UNPARSEABLE"}
    ELSE IF file.byVariable THEN {"TARGET_UNRESOLVED"}
    ELSE {}

\* A plan is found in the manifest by its file name: the first entry with it, if any.
EntriesNamed(manifest, plan) ==
    LET named == {i \in DOMAIN manifest : Last(manifest[i].plan) = Last(plan)}
    IN  {manifest[i] : i \in {k \in named : \A j \in named : k <= j}}

EntryFindings(entry, file, files) ==
    {code \in Errors :
       \/ code = "DATA_FILE_MISSING" /\ ~(entry.data \subseteq DOMAIN files)
       \/ code = "DATA_FILE_UNDECLARED" /\ ~(file.reads \subseteq entry.data \cup DOMAIN files)
       \/ code = "VARIABLE_NOT_DECLARED" /\ ~(file.uses \subseteq entry.declares)}

ManifestFindings(manifest, plan, files) ==
    LET entries == EntriesNamed(manifest, plan)
    IN  IF manifest \notin ManifestFile THEN {"MANIFEST_INVALID"}
        ELSE IF files[plan] \notin PlanFile THEN {}
        ELSE IF entries = {} THEN {"PLAN_NOT_DECLARED"}
        ELSE UNION {EntryFindings(e, files[plan], files) : e \in entries}

Findings(files, plan) ==
    IF plan \notin DOMAIN files THEN {"PLAN_MISSING"}
    ELSE PlanFindings(files[plan])
         \cup UNION {ManifestFindings(files[m], plan, files) : m \in FindManifest(files, plan)}

\* A port that int() refuses, a date that is none: neither PlanParseError nor
\* ManifestError.  The manifest is read if there is a plan.
Raises(files, plan) ==
    /\ plan \in DOMAIN files
    /\ \E p \in {plan} \cup FindManifest(files, plan) : files[p] \in RaisingFile

Ok == findings \cap Errors = {}

-----------------------------------------------------------------------------
\* REPO_UNREACHABLE ends the request without a report.
ResolveRef ==
    /\ ResolveCommit \/ ResolveName \/ RefuseName \/ FailCheckOut
    /\ UNCHANGED <<path, findings, audit>>

MakeReport ==
    /\ CheckOut
    /\ LET files == CheckedOut(TreeOf[Peeled(sha)], path)
       IN  /\ ~Raises(files, path)
           /\ findings' = Findings(files, path)
    /\ UNCHANGED <<path, audit>>

\* The request ends with 500: no report, no row.
RaiseInReport ==
    /\ FailCheckOut
    /\ Raises(CheckedOut(TreeOf[Peeled(sha)], path), path)
    /\ UNCHANGED <<path, findings, audit>>

\* The second transaction of verify_script_repo; the report is answered after it.
RecordVerification ==
    /\ stage = "pinned" /\ audit = NoRow
    /\ audit' = [ok |-> Ok, commit |-> sha]
    /\ UNCHANGED <<vars, path, findings>>

\* It fails: the report is lost with it.
LoseReport ==
    /\ stage = "pinned" /\ audit = NoRow
    /\ stage' = "failed"
    /\ findings' = {}
    /\ UNCHANGED <<refs, given, sha, meant, path, audit>>

\* The next request, about this repository or another.
VerifyAgain ==
    /\ Again
    /\ stage = "pinned" => audit # NoRow
    /\ path' \in PlanPath
    /\ findings' = {}
    /\ audit' = NoRow

VerifyNext ==
    \/ ResolveRef \/ MakeReport \/ RaiseInReport \/ RecordVerification \/ LoseReport \/ VerifyAgain
    \/ Push /\ UNCHANGED <<path, findings, audit>>

VerifySpec == VerifyInit /\ [][VerifyNext]_verifyVars

-----------------------------------------------------------------------------
\* What docs/architecture/07-script-repos.md and the design of slice 2 ask of a
\* repository: the plan is there and parses, and the manifest that is looked up
\* "in the plan's directory first, then upward to the repository root", if there
\* is any, is valid, lists this plan, declares its variables and declares no data
\* file that is missing, nor leaves out one that is.
Conforms(tree, plan) ==
    /\ plan \in DOMAIN tree
    /\ tree[plan] \in PlanFile
    /\ \A m \in FindManifest(tree, plan) :
         /\ tree[m] \in ManifestFile
         /\ \E i \in DOMAIN tree[m] :
              LET entry == tree[m][i]
              IN  /\ Front(m) \o entry.plan = plan
                  /\ tree[plan].uses \subseteq entry.declares
                  /\ entry.data \subseteq DOMAIN tree
                  /\ tree[plan].reads \subseteq entry.data \cup DOMAIN tree

\* The layout the documentation shows: a manifest, if there is any, is in the plan's
\* directory, which is not the root; the plan's name is in it once, for this plan; and
\* the data that there is lies below that directory too.
LaidOut(tree, plan) ==
    /\ Len(plan) > 1
    /\ (\E m \in DOMAIN tree : Last(m) = ManifestName /\ IsPrefix(Front(m), plan))
         => Front(plan) \o <<ManifestName>> \in DOMAIN tree
    /\ \A m \in FindManifest(tree, plan) :
         tree[m] \in ManifestFile =>
           /\ \A i, j \in DOMAIN tree[m] :
                Last(tree[m][i].plan) = Last(plan) /\ Last(tree[m][j].plan) = Last(plan) => i = j
           /\ \A i \in DOMAIN tree[m] :
                Last(tree[m][i].plan) = Last(plan) =>
                  /\ Front(m) \o tree[m][i].plan = plan
                  /\ \A d \in tree[m][i].data \cap DOMAIN tree : IsPrefix(Front(plan), d)
    /\ plan \in DOMAIN tree /\ tree[plan] \in PlanFile =>
         \A d \in tree[plan].reads \cap DOMAIN tree : IsPrefix(Front(plan), d)

AllLaidOut == \A c \in Commit, plan \in PlanPath : LaidOut(TreeOf[c], plan)

\* The verdict of the report, and of the audit row that stays behind, is the one
\* the whole tree deserves of the commit that the ref meant: the sparse checkout
\* hides nothing the verdict depends on, and a push while the report is made
\* changes nothing about it.
VerdictIsOfTheCommit ==
    stage = "pinned" /\ meant # Absent =>
        /\ Ok <=> Conforms(TreeOf[meant], path)
        /\ audit # NoRow => Peeled(audit.commit) = meant /\ (audit.ok <=> Ok)

=============================================================================
