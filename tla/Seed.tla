--------------------------------- MODULE Seed ---------------------------------
(***************************************************************************)
(* The development seed, seed.py: one transaction of inserts that leave    *)
(* alone what is there already, and one update.  It is run again and again *)
(* -- `make dev' ends with it -- over what people made of its rows in the  *)
(* meantime, and two of its runs may overlap.                              *)
(*                                                                         *)
(* A row is known by what the seed looks for: the name of the pool, of a   *)
(* credential and of the repository; a key or an identifier for the        *)
(* others.  A row that was renamed is no longer that row.                  *)
(***************************************************************************)
EXTENDS Naturals, Sequences

CONSTANTS Run,       \* runs of the seed
          Renamable, \* bound: what people rename, of the pool and the repository
          MaxCopies  \* bound: nothing is inserted beside this many rows of a name

ASSUME RenamableAssumption == Renamable \subseteq {"pool", "repo"}
ASSUME CopiesAssumption == MaxCopies \in Nat

\* The statements after set_config, in their order; "test.pool" is the UPDATE.
Statements == <<"organization", "users", "project", "pool", "token", "variables", "repo",
                "test", "test.pool", "plans", "rules", "policy">>

Row == {Statements[i] : i \in DOMAIN Statements} \ {"test.pool"}

\* ON CONFLICT DO NOTHING names a unique key; the others ask WHERE NOT EXISTS.
Keyed == Row \ {"repo", "plans", "rules"}

\* What the SELECT of an insert joins.
Needs(x) ==
    CASE x = "repo" -> {"project", "token"}
      [] x = "test" -> {"project", "pool"}
      [] x = "plans" -> {"repo"}
      [] OTHER -> {}

\* What an editor can change of a row, and what can be taken away altogether:
\* PATCH with an empty list of rules, DELETE of a credential nothing refers to.
Editable == {"project", "pool", "repo", "test", "plans", "rules"}
Removable == {"rules", "variables"}

VARIABLES
    copies,  \* committed rows of each kind
    edited,  \* the rows that are no longer as the seed made them
    uses,    \* the pool of the test: the one named local-docker, or another
    at,      \* the statement each run has come to; 0: it has not begun
    mine,    \* rows of its own uncommitted transaction
    stamp    \* the pool its UPDATE has given the test

committed == <<copies, edited, uses>>
seedVars == <<committed, at, mine, stamp>>

Pool == {"none", "demo", "other"}

SeedTypeOK ==
    /\ copies \in [Row -> 0 .. MaxCopies]
    /\ edited \subseteq {x \in Editable : copies[x] > 0}
    /\ uses \in Pool
    /\ uses = "none" <=> copies["test"] = 0
    /\ at \in [Run -> 0 .. Len(Statements) + 1]
    /\ mine \in [Run -> SUBSET Row]
    /\ stamp \in [Run -> Pool]

SeedInit ==
    /\ copies = [x \in Row |-> 0]
    /\ edited = {}
    /\ uses = "none"
    /\ at = [s \in Run |-> 0]
    /\ mine = [s \in Run |-> {}]
    /\ stamp = [s \in Run |-> "none"]

-----------------------------------------------------------------------------
Sees(s, x) == copies[x] > 0 \/ x \in mine[s]

\* A key is waited for while another transaction holds an uncommitted row of it.
Settled(s, x) == \A t \in Run \ {s} : x \in Keyed => x \notin mine[t]

Begin(s) ==
    /\ at[s] = 0
    /\ at' = [at EXCEPT ![s] = 1]
    /\ UNCHANGED <<committed, mine, stamp>>

\* Variant: the row is inserted whatever there is.
InsertBlindly(s) ==
    /\ at[s] \in DOMAIN Statements
    /\ LET x == Statements[at[s]]
       IN  /\ x \in Row
           /\ Settled(s, x)
           /\ mine' = [mine EXCEPT ![s] =
                          @ \cup {y \in {x} : /\ y \in Keyed => ~Sees(s, y)
                                              /\ \A n \in Needs(y) : Sees(s, n)}]
    /\ at' = [at EXCEPT ![s] = @ + 1]
    /\ UNCHANGED <<committed, stamp>>

InsertMissing(s) ==
    /\ at[s] \in DOMAIN Statements
    /\ LET x == Statements[at[s]]
       IN  /\ x \in Row
           /\ Settled(s, x)
           /\ mine' = [mine EXCEPT ![s] =
                          @ \cup {y \in {x} : /\ ~Sees(s, y)
                                              /\ \A n \in Needs(y) : Sees(s, n)}]
    /\ at' = [at EXCEPT ![s] = @ + 1]
    /\ UNCHANGED <<committed, stamp>>

\* The UPDATE locks the test's row.  It finds no pool when local-docker was
\* renamed after this run's insert had found it.
StampPool(s) ==
    /\ at[s] \in DOMAIN Statements
    /\ Statements[at[s]] = "test.pool"
    /\ \A t \in Run : stamp[t] = "none"
    /\ stamp' = [stamp EXCEPT ![s] = IF Sees(s, "pool") /\ Sees(s, "test") THEN "demo" ELSE @]
    /\ at' = [at EXCEPT ![s] = @ + 1]
    /\ UNCHANGED <<committed, mine>>

Ended(s) ==
    /\ at' = [at EXCEPT ![s] = 0]
    /\ mine' = [mine EXCEPT ![s] = {}]
    /\ stamp' = [stamp EXCEPT ![s] = "none"]

\* Variant: ON CONFLICT DO UPDATE.
CommitAfresh(s) ==
    /\ at[s] = Len(Statements) + 1
    /\ copies' = [x \in Row |-> IF x \in mine[s] THEN copies[x] + 1 ELSE copies[x]]
    /\ edited' = edited \ Keyed
    /\ uses' = IF stamp[s] # "none" THEN stamp[s] ELSE uses
    /\ Ended(s)

Commit(s) ==
    /\ at[s] = Len(Statements) + 1
    /\ \A x \in mine[s] : copies[x] < MaxCopies
    /\ copies' = [x \in Row |-> IF x \in mine[s] THEN copies[x] + 1 ELSE copies[x]]
    /\ uses' = IF stamp[s] # "none" THEN stamp[s] ELSE uses
    /\ UNCHANGED edited
    /\ Ended(s)

\* A statement fails, or the process ends: nothing of the run stays.
Fail(s) ==
    /\ at[s] # 0
    /\ Ended(s)
    /\ UNCHANGED committed

-----------------------------------------------------------------------------
(***************************************************************************)
(* What people do to the rows in the meantime.                             *)
(***************************************************************************)
\* The test's row is locked from a run's UPDATE of it to the end of the run.
Unlocked(x) == x \in {"test", "plans", "rules"} => \A s \in Run : stamp[s] = "none"

Edit(x) ==
    /\ copies[x] > 0 /\ Unlocked(x)
    /\ edited' = edited \cup {x}
    /\ UNCHANGED <<copies, uses, at, mine, stamp>>

ChoosePool ==
    /\ copies["test"] > 0 /\ Unlocked("test")
    /\ \E pool \in {"demo", "other"} :
         /\ pool = "demo" => copies["pool"] > 0
         /\ uses' = pool
    /\ UNCHANGED <<copies, edited, at, mine, stamp>>

Remove(x) ==
    /\ copies[x] > 0 /\ Unlocked(x)
    /\ copies' = [copies EXCEPT ![x] = 0]
    /\ edited' = edited \ {x}
    /\ UNCHANGED <<uses, at, mine, stamp>>

\* A test keeps the identifier of a pool that is renamed.
Rename(x) ==
    /\ copies[x] > 0
    /\ copies' = [copies EXCEPT ![x] = @ - 1]
    /\ edited' = IF copies[x] = 1 THEN edited \ {x} ELSE edited
    /\ IF x = "pool"
       THEN /\ uses' = IF uses = "demo" THEN "other" ELSE uses
            /\ stamp' = [s \in Run |-> IF stamp[s] = "demo" THEN "other" ELSE stamp[s]]
       ELSE UNCHANGED <<uses, stamp>>
    /\ UNCHANGED <<at, mine>>

People ==
    \/ \E x \in Editable : Edit(x)
    \/ \E x \in Removable : Remove(x)
    \/ \E x \in Renamable : Rename(x)
    \/ ChoosePool

SeedNext == (\E s \in Run : Begin(s) \/ InsertMissing(s) \/ StampPool(s) \/ Commit(s) \/ Fail(s)) \/ People

SeedSpec == SeedInit /\ [][SeedNext]_seedVars

-----------------------------------------------------------------------------
\* The demo is there as a whole or not at all, whichever runs overlap or fail: what
\* people cannot take away is there as soon as anything is.
DemoIsWhole ==
    (\E x \in Row : copies[x] > 0)
      => \A x \in Row \ (Removable \cup Renamable) : copies[x] > 0

\* "Idempotent development seed": however often it runs, and twice at once, there is
\* one of each thing it makes.  The rules are left out: nothing but the lock on the
\* test's row keeps two runs from both missing them, and a run that finds no pool of
\* the name takes no lock.
OneOfEach == \A x \in Row \ {"rules"} : copies[x] <= 1

\* Running it makes one demo, whatever runs overlap, fail or meet people's changes.
DemoStandsOnce == DemoIsWhole /\ OneOfEach

\* A run leaves alone what somebody has changed: it neither undoes the change nor makes
\* the thing a second time beside it (but for the rules, see OneOfEach).  The test's pool
\* is the exception (see NoChangeOnRepeat).
EditsSurvive ==
    [][\A s \in Run : Commit(s) \/ Fail(s) =>
         /\ edited \subseteq edited'
         /\ \A x \in edited \ {"rules"} : copies'[x] = copies[x]]_seedVars

\* apps/api/tests/integration/test_seed.py, "test_seeding_twice_changes_nothing": a
\* run over a demo that is whole leaves it as it is.
NoChangeOnRepeat ==
    [][\A s \in Run :
         Commit(s) /\ (\A x \in Row : copies[x] > 0) => UNCHANGED committed]_seedVars

=============================================================================
