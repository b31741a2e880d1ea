--------------------------- MODULE MCAttachments ---------------------------
\* Attachments for TLC: all three parameter sets are interchangeable.
EXTENDS Attachments, TLC

Symmetry ==
    Permutations(Attachment) \cup Permutations(Terminal) \cup Permutations(Session)
=============================================================================
