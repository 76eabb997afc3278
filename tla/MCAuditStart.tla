---------------------------- MODULE MCAuditStart ----------------------------
EXTENDS AuditStart

CONSTANTS desktop, bridge, m1, s1, e1

\* An operator's starts on the desktop, and the starts of a prepared execution.
Homes == [c \in Caller |-> IF c = s1 THEN bridge ELSE desktop]
Keys  == [c \in Caller |-> IF c = s1 THEN e1 ELSE NoSource]
=============================================================================
