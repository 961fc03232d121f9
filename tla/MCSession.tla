------------------------------ MODULE MCSession ------------------------------
EXTENDS Session, TLC

CONSTANTS a1, b1, k1, alice, bob

AllApps == {TenantDashboard, AdminDashboard, MahuAdmin, CustomerAccount}
Owned == [s \in Sessions |-> IF s = b1 THEN bob ELSE alice]

Symmetric == Permutations(Tabs)
=============================================================================
