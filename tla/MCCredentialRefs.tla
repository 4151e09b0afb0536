--------------------------- MODULE MCCredentialRefs ---------------------------
EXTENDS CredentialRefs

\* Every credential competes for the one name.
SameName == [c \in Credential |-> CHOOSE n \in Name : TRUE]

=============================================================================
