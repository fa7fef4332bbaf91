--------------------------- MODULE MCClusterRuntime ---------------------------
\* Model-checking instances of ClusterRuntime: the budgets of outside events.
EXTENDS ClusterRuntime

CONSTANTS Auth, Transport, Scope, Kubeconfig, Select, Permission, Tab, Fault, Any

EventBudget ==
  [auth |-> Auth, transport |-> Transport, scope |-> Scope,
   kubeconfig |-> Kubeconfig, select |-> Select, permission |-> Permission,
   tab |-> Tab, fault |-> Fault, any |-> Any]
=============================================================================
