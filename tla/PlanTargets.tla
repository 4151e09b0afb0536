------------------------------ MODULE PlanTargets ------------------------------
(***************************************************************************)
(* Which hosts a plan is said to reach: `parse_plan' of plans/jmx.py, on   *)
(* the elements that name hosts, in the order of the document.  Defaults   *)
(* give a host to the samplers that name none.                             *)
(***************************************************************************)
EXTENDS Naturals, Sequences

CONSTANTS NamedHost, NoHost

ASSUME NoHostAssumption == NoHost \notin NamedHost

Element == [kind : {"defaults", "sampler"}, host : NamedHost \cup {NoHost}]

Of(kind, plan) == {i \in DOMAIN plan : plan[i].kind = kind}

\* The loop's `defaults' when it has come to element i: the last that has a host.
DefaultAt(plan, i) ==
    LET seen == {j \in Of("defaults", plan) : j <= i /\ plan[j].host # NoHost}
    IN  IF seen = {} THEN NoHost
        ELSE plan[CHOOSE j \in seen : \A k \in seen : k <= j].host

HostOf(plan, i) == IF plan[i].host # NoHost THEN plan[i].host ELSE DefaultAt(plan, i)

\* PlanSummary.targets.  The last defaults are a target whether or not a sampler
\* has used them by then.
Targets(plan) ==
    ({HostOf(plan, i) : i \in Of("sampler", plan)} \cup {DefaultAt(plan, Len(plan))})
        \ {NoHost}

\* JMeter merges the defaults in a sampler's scope into it wherever they stand;
\* taking all of them for in scope errs on the large side.
Reached(plan) ==
    LET own == {plan[i].host : i \in Of("sampler", plan)}
        given == {plan[i].host : i \in Of("defaults", plan)}
    IN  (own \cup (IF NoHost \in own THEN given ELSE {})) \ {NoHost}

\* At most one defaults element of the plan names a host.
OneDefault(plan) ==
    \A i, j \in Of("defaults", plan) :
        plan[i].host # NoHost /\ plan[j].host # NoHost => i = j

=============================================================================
