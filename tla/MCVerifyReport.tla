---------------------------- MODULE MCVerifyReport ----------------------------
EXTENDS VerifyReport

CONSTANTS c1, c2, c3, c4, t1, host, token, Broken, Raising, Data

\* Refs: a branch, one whose name ends with the first's and sorts after it, a tag.
main == <<2>>
release == <<3, 2>>
version == <<4>>

MCFullName == {Heads \o main, Heads \o release, Tags \o version}
MCGiven == {main, release, version, Heads \o main, c1}
OneName == {Heads \o main}
OneGiven == {main}
MCPeel == [t \in Tag |-> c2]

(***************************************************************************)
(* The layout of the documentation: plans, data and manifest in perf/.     *)
(***************************************************************************)
manifest == <<"perf", ManifestName>>
users == <<"perf", "data", "users.csv">>
cards == <<"perf", "data", "cards.csv">>
Plan(name) == <<"perf", name>>

Using(variables, files) == [uses |-> variables, reads |-> files, byVariable |-> variables # {}]
Entry(name, variables, files) == [plan |-> <<name>>, declares |-> variables, data |-> files]

Plans == [name \in {"login", "checkout", "search", "upload", "torn", "odd", "stray"} |->
    CASE name = "login"    -> Using({host}, {})
      [] name = "checkout" -> Using({host, token}, {users})
      [] name = "search"   -> Using({}, {users, cards})
      [] name = "upload"   -> Using({}, {})
      [] name = "torn"     -> Broken
      [] name = "odd"      -> Raising
      [] name = "stray"    -> Using({}, {})]

\* search reads a file that is nowhere, upload declares one; checkout uses a
\* variable its entry leaves out, login leaves out one its entry declares.
Listing == <<Entry("login", {host, token}, {}), Entry("checkout", {host}, {users}),
             Entry("search", {}, {users}), Entry("upload", {}, {cards}), Entry("torn", {}, {})>>

\* One that declares all that is used.
Complete == <<Entry("checkout", {host, token}, {users}), Entry("search", {}, {users})>>

MCPlanPath == {Plan(name) : name \in DOMAIN Plans} \cup {Plan("gone")}

Perf(man) ==
    [p \in {manifest, users} \cup {Plan(name) : name \in DOMAIN Plans} |->
       CASE p = manifest -> man [] p = users -> Data [] OTHER -> Plans[p[2]]]

MCTreeOf ==
    [c \in Commit |-> CASE c = c1 -> Perf(Listing) [] c = c2 -> Perf(Complete)
                        [] c = c3 -> Perf(Broken) [] c = c4 -> Perf(Raising)]

MCPlanFile == {Plans[name] : name \in DOMAIN Plans \ {"torn", "odd"}}
MCManifestFile == {Listing, Complete}

(***************************************************************************)
(* Other layouts: nothing but a plan; a manifest in the root.              *)
(***************************************************************************)
Bare == [p \in {<<"login">>} |-> Plans["login"]]
RootManifest ==
    [p \in {<<ManifestName>>, Plan("stray")} |->
       IF p = Plan("stray") THEN Plans["stray"] ELSE <<Entry("login", {}, {})>>]

BareTreeOf == [c \in Commit |-> Bare]
RootPlan == {<<"login">>}
AboveTreeOf == [c \in Commit |-> RootManifest]
StrayPlan == {Plan("stray")}
AboveManifestFile == {<<Entry("login", {}, {})>>}

=============================================================================
