---------------------------- MODULE MCMemoryJournal ----------------------------
\* Instances of MemoryJournal: two view files with one entry each.
EXTENDS MemoryJournal

CONSTANTS trust, habit, reflections, persona

MCFileOf == [e \in Entries |-> IF e = trust THEN reflections ELSE persona]
=============================================================================
