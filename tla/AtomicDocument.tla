---------------------------- MODULE AtomicDocument ----------------------------
(***************************************************************************)
(* What a performance test promises its editors: it is one document under  *)
(* one version number, and an edit replaces exactly the document its       *)
(* author was looking at.                                                  *)
(***************************************************************************)
EXTENDS Naturals

CONSTANTS Document,  \* records with (at least) a `version'
          NoDoc      \* no edit has been made yet

VARIABLES current,   \* the document as it stands
          basis      \* the document the author of the last edit had in hand

Init ==
    /\ current \in {d \in Document : d.version = 1}
    /\ basis = NoDoc

Edit ==
    /\ current' \in {d \in Document : d.version = current.version + 1}
    /\ basis' = current

Next == Edit

Spec == Init /\ [][Next]_<<current, basis>>

=============================================================================
