------------------------------ MODULE MCScreens ------------------------------
EXTENDS Screens, TLC

Tenant == INSTANCE TenantDashboard
Admin == INSTANCE AdminDashboards

AllScreens == Tenant!TenantScreens \cup Admin!AdminScreens

\* Bound: one row is changed and deleted after it was created; the others are created,
\* opened, and sent calls that fail.
OneRowChanges == \E r \in Rows : \A q \in Rows \ {r} : server[q] <= 1

Symmetric == Permutations(Rows) \cup Permutations(Loads) \cup Permutations(Calls)
=============================================================================
