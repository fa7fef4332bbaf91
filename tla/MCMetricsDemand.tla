--------------------------- MODULE MCMetricsDemand --------------------------
\* Model-checking instance of MetricsDemand: the budgets of outside events.
EXTENDS MetricsDemand

CONSTANTS Lease, Other, Read, Change, Any

EventBudget ==
  [lease |-> Lease, other |-> Other, read |-> Read, change |-> Change, any |-> Any]
=============================================================================
