---------------------------- MODULE MCMemoryOutbox ----------------------------
\* Instances of MemoryOutbox: the op of a turn and the op of a prompt locale.
EXTENDS MemoryOutbox

CONSTANTS turn, locale
=============================================================================
