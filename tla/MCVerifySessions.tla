--------------------------- MODULE MCVerifySessions ---------------------------
(***************************************************************************)
(* What one verify says (VerifyReport), and what several requests, such as *)
(* verify, do to the connections they share (Sessions).  Each is followed  *)
(* while the other has not begun, in place of their product.               *)
(***************************************************************************)
EXTENDS MCVerifyReport, Sessions

\* The names and the trees of the runs are such as the theorems are about.
ASSUME InstanceAssumption == NamesSortWell /\ AllLaidOut

BothInit == VerifyInit /\ SessionInit

\* One of the initial states of a verify is enough for the sessions to begin in.
NobodyVerifies ==
    VerifyInit /\ refs = [f \in FullName |-> Absent] /\ given = main /\ path = Plan("login")

BothNext ==
    \/ VerifyNext /\ SessionInit /\ UNCHANGED sessionVars
    \/ SessionNext /\ NobodyVerifies /\ UNCHANGED verifyVars

BothSpec == BothInit /\ [][BothNext]_<<verifyVars, sessionVars>> /\ SessionFairness

\* Both are well typed.
BothTypeOK == VerifyTypeOK /\ SessionTypeOK

=============================================================================
