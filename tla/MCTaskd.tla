------------------------------ MODULE MCTaskd ------------------------------
EXTENDS TaskDaemon
=============================================================================
