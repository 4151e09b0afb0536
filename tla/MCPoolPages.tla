----------------------------- MODULE MCPoolPages -----------------------------
(***************************************************************************)
(* Pools being created, changed and archived (ResourceLifecycle), and the  *)
(* pages they are listed in (KeysetPaging), for which only the insertion   *)
(* of rows matters: created_at and id are never changed.  Each is followed *)
(* while the other has not begun, in place of their product.               *)
(***************************************************************************)
EXTENDS MCResourceLifecycle, KeysetPaging

BothInit == Init /\ WalkInit

BothNext ==
    \/ Next /\ WalkInit /\ UNCHANGED walkVars
    \/ WalkNext /\ Init /\ UNCHANGED vars

BothSpec == BothInit /\ [][BothNext]_<<vars, walkVars>>

\* Both are well typed.
BothTypeOK == TypeOK /\ WalkTypeOK

=============================================================================
