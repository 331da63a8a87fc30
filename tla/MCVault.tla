------------------------------- MODULE MCVault -------------------------------
\* The vault with a database that opens whenever it is asked for.
EXTENDS Vault

MCDatabaseOpens == {TRUE}
=============================================================================
