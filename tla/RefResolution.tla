---------------------------- MODULE RefResolution ----------------------------
(***************************************************************************)
(* From the name of a ref to what is pinned: `resolve_ref' and `fetch_plan'*)
(* of git/client.py, against a Git host whose refs move.                   *)
(*                                                                         *)
(* `git ls-remote URL NAME' lists, in the order of their full names, the   *)
(* refs whose full name *ends with* NAME, component by component, and the  *)
(* code takes the first line.  For an annotated tag that line is the tag   *)
(* object, not the commit it points to.  A full commit id resolves to      *)
(* itself without asking, and only the checkout finds out whether the      *)
(* repository has it.                                                      *)
(*                                                                         *)
(* A full name is a sequence of components; components are numbers, so     *)
(* that they have an order (Git's is the order of bytes).                  *)
(***************************************************************************)
EXTENDS Naturals, Sequences, SequencesExt, FiniteSets

CONSTANTS FullName,  \* the full names a host may have: <<Refs, Heads, ...>>
          Given,     \* the names users give, and commit ids
          Commit,
          Tag,       \* annotated tag objects
          Peel,      \* the commit each of them points to
          Absent

Refs == <<0>>
Heads == <<0, 0>>  \* refs/heads
Tags == <<0, 1>>   \* refs/tags

ASSUME NameAssumption == FullName \subseteq Seq(Nat) /\ Given \subseteq Seq(Nat) \cup Commit
ASSUME ObjectAssumption ==
    /\ Peel \in [Tag -> Commit]
    /\ Commit \cap Tag = {}
    /\ Absent \notin Commit \cup Tag

Object == Commit \cup Tag

VARIABLES
    refs,     \* on the host: the object of each ref
    stage,    \* "idle", "resolved", "pinned" or "failed"
    given,    \* the name the request is about
    sha,      \* what it resolved to
    meant     \* observation only: the commit the name meant at that moment

vars == <<refs, stage, given, sha, meant>>

TypeOK ==
    /\ refs \in [FullName -> Object \cup {Absent}]
    /\ stage \in {"idle", "resolved", "pinned", "failed"}
    /\ given \in Given
    /\ sha \in Object \cup {Absent}
    /\ meant \in Commit \cup {Absent}
    /\ stage \in {"resolved", "pinned"} => sha # Absent

-----------------------------------------------------------------------------
Existing == {f \in FullName : refs[f] # Absent}

\* Component-wise lexicographic order.
Precedes(f, g) ==
    \/ IsStrictPrefix(f, g)
    \/ \E i \in 1 .. Len(f) :
          /\ i <= Len(g)
          /\ SubSeq(f, 1, i - 1) = SubSeq(g, 1, i - 1)
          /\ f[i] < g[i]

Matching(name) == {f \in Existing : IsSuffix(name, f)}

\* Variant: the last line of the answer.
LastListed(name) ==
    {f \in Matching(name) : \A g \in Matching(name) \ {f} : Precedes(g, f)}

\* The first line of `git ls-remote --exit-code URL NAME': a set of one ref or none.
FirstListed(name) ==
    {f \in Matching(name) : \A g \in Matching(name) \ {f} : Precedes(f, g)}

Peeled(o) == IF o \in Tag THEN Peel[o] ELSE o

\* What Git itself takes a name for, in this order: a full name, one from refs/ on, a
\* tag, a branch.
Readings(name) == <<name, Refs \o name, Tags \o name, Heads \o name>>

Meaning(name) ==
    LET taken == {i \in 1 .. 4 : Readings(name)[i] \in Existing}
        first == CHOOSE i \in taken : \A j \in taken : i <= j
    IN  IF taken = {} THEN Absent ELSE Peeled(refs[Readings(name)[first]])

-----------------------------------------------------------------------------
Init ==
    /\ refs \in [FullName -> Object \cup {Absent}]
    /\ \A f \in FullName : refs[f] \in Tag => IsPrefix(Tags, f)
    /\ stage = "idle"
    /\ given \in Given
    /\ sha = Absent
    /\ meant = Absent

\* COMMIT_SHA matches: nobody is asked.
ResolveCommit ==
    /\ stage = "idle"
    /\ given \in Commit
    /\ sha' = given
    /\ meant' = given
    /\ stage' = "resolved"
    /\ UNCHANGED <<refs, given>>

ResolveName ==
    /\ stage = "idle"
    /\ given \notin Commit
    /\ \E f \in FirstListed(given) : sha' = refs[f]
    /\ meant' = Meaning(given)
    /\ stage' = "resolved"
    /\ UNCHANGED <<refs, given>>

\* --exit-code: no ref matches; or Git fails.
RefuseName ==
    /\ stage = "idle"
    /\ given \notin Commit
    /\ stage' = "failed"
    /\ UNCHANGED <<refs, given, sha, meant>>

\* git checkout takes a tag object for its commit.  The row, or the report,
\* names what was resolved.
CheckOut ==
    /\ stage = "resolved"
    /\ stage' = "pinned"
    /\ UNCHANGED <<refs, given, sha, meant>>

\* The clone or the checkout fails: no such commit, or no answer.
FailCheckOut ==
    /\ stage = "resolved"
    /\ stage' = "failed"
    /\ UNCHANGED <<refs, given, sha, meant>>

\* The next request.
Again ==
    /\ stage \in {"pinned", "failed"}
    /\ given' \in Given
    /\ sha' = Absent
    /\ meant' = Absent
    /\ stage' = "idle"
    /\ UNCHANGED refs

Push ==
    /\ \E f \in FullName, o \in Object \cup {Absent} :
         /\ o \in Tag => IsPrefix(Tags, f)
         /\ refs' = [refs EXCEPT ![f] = o]
    /\ UNCHANGED <<stage, given, sha, meant>>

Next ==
    \/ ResolveCommit \/ ResolveName \/ RefuseName \/ CheckOut \/ FailCheckOut \/ Again
    \/ Push

Spec == Init /\ [][Next]_vars

-----------------------------------------------------------------------------
\* Of the refs that a name given by a user can match, the one it means is listed before
\* the others, whichever of them exist.  Nothing in the code sees to it.
NamesSortWell ==
    \A name \in Given \ Commit : \A i \in 1 .. 4 :
        Readings(name)[i] \in FullName =>
          \A g \in FullName \ {Readings(name)[j] : j \in 1 .. i} :
            IsSuffix(name, g) => Precedes(Readings(name)[i], g)

\* What is pinned is what the name meant to Git when it was resolved -- where it
\* meant anything -- and stays so while the host's refs move on.
PinnedIsMeant == stage = "pinned" /\ meant # Absent => Peeled(sha) = meant

\* design of slice 2: "A ref pins to a commit SHA" -- a commit, not a tag object.
PinnedIsCommit == stage = "pinned" => sha \in Commit

=============================================================================
