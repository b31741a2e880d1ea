---------------------------- MODULE MCController ----------------------------
\* AttachmentController for TLC.
EXTENDS AttachmentController
=============================================================================
