-------------------------- MODULE MCPreparedWorker --------------------------
EXTENDS PreparedWorker, TLC

CONSTANTS j1, j2, a1, a2

\* Two jobs for one account.
SameAccount == [j \in Job |-> a1]

\* One job for an account, and one for whatever account is free.
OneAuto == [j \in Job |-> IF j = j1 THEN a1 ELSE AutoAccount]
=============================================================================
