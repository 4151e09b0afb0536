---------------------------- MODULE MCPreflight ----------------------------
EXTENDS Preflight

CONSTANTS A, B, main, tag, c1, c2, c3, c4, c5, v

\* A name under a suffix, and an address in a network: addresses have four bits.
h1 == <<"api", "test">>
h2 == <<"9">>
MCText == {h1, h2, <<"test">>}
MCAddressOf ==
    [t \in MCText |-> IF t = h2 THEN [family |-> "v4", number |-> 9] ELSE NoAddress]
MCEverything == [f \in Family |-> 16]

\* Repository B's history has a plan that does not parse, one whose host is put
\* together from variables, and one with a port that is a digit to str.isdigit and
\* not to int().
MCHolds == [p \in Repo |-> IF p = A THEN {c1, c2} ELSE {c2, c3, c4, c5}]

Sampler(h) == [kind |-> "sampler", host |-> h]
Defaults(h) == [kind |-> "defaults", host |-> h]

\* The defaults stand after the sampler that needs them, and before it.
Literal == [elements |-> <<Sampler(NoHost), Defaults(h1)>>, variables |-> {}]
ByVariable == [elements |-> <<Defaults(v), Sampler(h1), Sampler(NoHost)>>, variables |-> {v}]
Composed == [elements |-> <<Sampler(Mixed)>>, variables |-> {v}]

MCNamedHost == Text \cup Variable \cup {Mixed}
MCContent == {Literal, ByVariable, Composed}
MCPlanAt ==
    [c \in Commit |-> CASE c = c1 -> Literal [] c = c2 -> ByVariable
                        [] c = c3 -> Broken [] c = c4 -> Composed
                        [] c = c5 -> Raising]

Suffix == [kind |-> "suffix", text |-> <<"test">>]
TheNetwork == [kind |-> "network", network |-> [family |-> "v4", number |-> 11, size |-> 4]]
MCAllowLists == {{}, {Suffix}, {Suffix, TheNetwork}}

Pool(generators, held, active) ==
    [generators |-> generators, usersEach |-> 2, held |-> held, active |-> active]

\* Pools with two users free, with one, with fewer than none; one archived, and one
\* whose product is past the largest integer.
MCPools == {NoPool, Pool(1, 0, TRUE), Pool(1, 1, TRUE), Pool(1, 3, TRUE), Pool(1, 0, FALSE),
            Pool(2, 0, TRUE)}

\* The product of this pool's columns is past the largest integer.
WidePools == {Pool(1, 0, TRUE), Pool(2, 0, TRUE)}

MCNameOf == [p \in Repo |-> p]

On(p, ref) == [repo |-> p, ref |-> ref, users |-> 1]

\* One plan, by a commit's id, or plans of two repositories, the other's by a branch
\* or by the id of a commit, which it has or has not.
PlansOfTwo ==
    {<<On(A, c2)>>} \cup {<<On(A, main), On(B, ref)>> : ref \in {main, c1, c4}}

\* Two plans of one repository, at two refs: TestCreate and TestUpdate accept it.
TwoRefs == {<<On(A, main), On(A, tag)>>}

=============================================================================
