--------------------------- MODULE MCContactAdd ---------------------------
\* ContactAdd has no parameters: the subtasks are those of the source.
EXTENDS ContactAdd
=============================================================================
