--------------------------- MODULE MCAuthSessions ---------------------------
\* Small instances of AuthSessions.
EXTENDS AuthSessions, TLC

\* Users and requests are interchangeable: no definition tells two of them apart.
AuthSymmetry == Permutations(Users) \union Permutations(Requests)
=============================================================================
