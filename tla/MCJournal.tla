----------------------------- MODULE MCJournal -----------------------------
\* OutputJournal for TLC.
EXTENDS OutputJournal
=============================================================================
