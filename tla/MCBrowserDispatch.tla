------------------------- MODULE MCBrowserDispatch -------------------------
EXTENDS BrowserDispatch, TLC

\* The job states that the widget in resources/ reports.
WidgetStates ==
  {"ARTIFACT_FETCHED", "ATTACHED", "START_PREPARED", "STARTED", "AUDITING",
   "FINALIZING", "RETRYABLE", "BLOCKED"}

\* With the return of retryable work to the line, which the endpoint accepts.
RequeueStates == WidgetStates \cup {"QUEUED"}

\* Workers older than the widget also report COMPLETE.
LegacyStates == WidgetStates \cup {"COMPLETE"}

\* Every state that the transition endpoint accepts.
AllStates ==
  LegacyStates \cup {"QUEUED", "LEASED", "FAILED", "CANCELLED"}

\* Only the reports that lead to the boundary and away from it.
FenceStates == {"ARTIFACT_FETCHED", "ATTACHED", "START_PREPARED", "BLOCKED"}

\* Windows, and receipts, are interchangeable.
Interchangeable == Permutations(Worker) \cup Permutations(Token)
=============================================================================
