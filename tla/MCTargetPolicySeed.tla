-------------------------- MODULE MCTargetPolicySeed --------------------------
(***************************************************************************)
(* What a run of the seed can meet another process over: the versions of   *)
(* the policy (TargetPolicy, where a Seeding process is that run), and the *)
(* other rows (Seed, which has of the policy only that it is there).  Each *)
(* is followed while the other has not begun, in place of their product.   *)
(***************************************************************************)
EXTENDS TargetPolicy, Seed, TLC

(***************************************************************************)
(* Addresses of four bits, and one family of them for each notation.       *)
(***************************************************************************)
At(n) == [family |-> "v4", number |-> n]
Block(n, size) == [family |-> "v4", number |-> n, size |-> size]

MCText == {<<"demo-target">>, <<"localhost">>, <<"5">>, <<"10">>, <<"a", "test">>, <<"test">>}
MCAddressOf ==
    [t \in MCText |-> CASE t = <<"5">> -> At(5) [] t = <<"10">> -> At(10) [] OTHER -> NoAddress]
MCHostname == {<<"demo-target">>, <<"localhost">>, <<"a", "test">>, <<"test">>}
MCEverything == [f \in Family |-> 16]
MCBlockedName == {<<"localhost">>}
MCBlockedNetwork == {Block(4, 2)}

Net(n, size) == [kind |-> "network", network |-> Block(n, size)]
MCDemoList == {[kind |-> "host", text |-> <<"demo-target">>]}

\* Two lists to accept, and one to refuse: its network holds a blocked one.
MCOffered == {{}, {Net(11, 4), [kind |-> "suffix", text |-> <<"test">>]}, {Net(1, 8)}}

-----------------------------------------------------------------------------

BothInit == Init /\ SeedInit

BothNext ==
    \/ Next /\ SeedInit /\ UNCHANGED seedVars
    \/ SeedNext /\ Init /\ UNCHANGED vars

BothSpec == BothInit /\ [][BothNext]_<<vars, seedVars>>

\* Both are well typed.
BothTypeOK == TypeOK /\ SeedTypeOK

RunSymmetry == Permutations(Request) \cup Permutations(Run)

=============================================================================
