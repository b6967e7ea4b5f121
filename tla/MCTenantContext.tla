--------------------------- MODULE MCTenantContext ---------------------------
\* Instances of TenantContext for TLC: model values for the identities.  A
\* task refers to one transaction client at most, and to none while it waits:
\* with as many of them as tasks a new one is never missing.
EXTENDS TenantContext, FiniteSets

ASSUME EnoughClients == Cardinality(Txn) >= Cardinality(Task)
=============================================================================
