------------------------------ MODULE MCCache ------------------------------
\* The cache of a desktop client, for TLC.
EXTENDS CacheWriter
=============================================================================
