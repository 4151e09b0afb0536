------------------------------- MODULE Allowlist -------------------------------
(***************************************************************************)
(* What an allowlist permits, and which lists are accepted:                *)
(* `validate_entries' and `matches_allowlist' of services/target_policy.py.*)
(*                                                                         *)
(* A text is the sequence of its labels, trimmed and in lower case.        *)
(* Addresses are numbers, and a network is the block of addresses of one   *)
(* family that share a prefix, given by an address of it and its size.     *)
(***************************************************************************)
EXTENDS Integers, Sequences

CONSTANTS Text,          \* the hosts and entries that are written
          Family,        \* IPv4 and IPv6
          Size,          \* sizes of networks: the powers of two
          Everything,    \* of each family: the size of the network of all addresses
          AddressOf,     \* the address a text denotes, or NoAddress
          NoAddress,
          Hostname,      \* the texts HOSTNAME matches
          BlockedName,
          BlockedNetwork

Address == [family : Family, number : Nat]
Network == [family : Family, number : Nat, size : Size]

\* An entry with a slash is a network or a path; another is a text, or a suffix
\* when it begins with a dot.
Entry == [kind : {"network"}, network : Network]
         \cup [kind : {"path"}]
         \cup [kind : {"padded", "host", "suffix"}, text : Text]

ASSUME TextAssumption == Text \subseteq Seq(STRING) \ {<<>>}
ASSUME SizeAssumption == Size \subseteq Nat \ {0} /\ Everything \in [Family -> Size]
ASSUME AddressAssumption ==
    /\ AddressOf \in [Text -> Address \cup {NoAddress}]
    /\ NoAddress \notin Address
ASSUME BlockedAssumption == BlockedName \subseteq Text /\ BlockedNetwork \subseteq Network

-----------------------------------------------------------------------------
(***************************************************************************)
(* The library `ipaddress'.  ip_network(strict=False) masks the host bits. *)
(***************************************************************************)
Lowest(n) == n.number - (n.number % n.size)
Highest(n) == Lowest(n) + n.size - 1

\* No address belongs to a network of the other family.
Contains(n, a) == n.family = a.family /\ Lowest(n) <= a.number /\ a.number <= Highest(n)

Bound(n, number) == [family |-> n.family, number |-> number]

\* Variant: only the other network's addresses are looked for.
OverlapsOneWay(m, n) ==
    Contains(n, Bound(m, Lowest(m))) \/ Contains(n, Bound(m, Highest(m)))

Overlaps(m, n) ==
    \/ Contains(n, Bound(m, Lowest(m))) \/ Contains(n, Bound(m, Highest(m)))
    \/ Contains(m, Bound(n, Lowest(n))) \/ Contains(m, Bound(n, Highest(n)))

BlockedAddress(a) == \E b \in BlockedNetwork : Contains(b, a)

-----------------------------------------------------------------------------
\* `_is_address'.
IsAddress(t) == AddressOf[t] # NoAddress

ValidNetwork(n) ==
    /\ n.size # Everything[n.family]
    /\ \A b \in BlockedNetwork : ~Overlaps(n, b)

ValidText(t) ==
    /\ t \notin BlockedName
    /\ IF IsAddress(t) THEN ~BlockedAddress(AddressOf[t]) ELSE t \in Hostname

ValidEntry(e) ==
    \/ e.kind = "network" /\ ValidNetwork(e.network)
    \/ e.kind \in {"host", "suffix"} /\ ValidText(e.text)

\* validate_entries refuses the whole list for one entry.
ValidEntries(list) == \A e \in list : ValidEntry(e)

-----------------------------------------------------------------------------
\* The host is the suffix, or ends with it after a dot.
EndsWith(host, suffix) ==
    /\ Len(suffix) <= Len(host)
    /\ \A i \in 1 .. Len(suffix) : host[Len(host) - Len(suffix) + i] = suffix[i]

EntryMatches(host, e) ==
    CASE e.kind = "network" -> IsAddress(host) /\ Contains(e.network, AddressOf[host])
      [] e.kind = "suffix" -> EndsWith(host, e.text)
      [] e.kind = "host" -> host = e.text
      [] OTHER -> FALSE

\* matches_allowlist: an empty list permits nothing.
MatchesAllowlist(host, list) == \E e \in list : EntryMatches(host, e)

-----------------------------------------------------------------------------
(***************************************************************************)
(* What the two operations promise.                                        *)
(***************************************************************************)
\* The hosts an entry stands for: the block of addresses with its prefix, the
\* domain and every name under it, or the text itself.
Permits(e) ==
    CASE e.kind = "network" ->
           {t \in Text : /\ IsAddress(t)
                         /\ AddressOf[t].family = e.network.family
                         /\ AddressOf[t].number \div e.network.size
                              = e.network.number \div e.network.size}
      [] e.kind = "suffix" -> {t \in Text : \E i \in DOMAIN t : SubSeq(t, i, Len(t)) = e.text}
      [] OTHER -> {e.text}

\* The addresses every generator blocks: a list that was accepted permits none of
\* them, neither through a network nor by being written out.  A suffix is judged
\* as the text it is, so the hosts that end with it are not considered.
KeepsBlocked(list) ==
    \A host \in Text :
        IsAddress(host) /\ BlockedAddress(AddressOf[host]) =>
            \A e \in list :
                EntryMatches(host, e) => e.kind = "suffix" /\ e.text # host

=============================================================================
