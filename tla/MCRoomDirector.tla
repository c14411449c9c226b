---------------------------- MODULE MCRoomDirector ----------------------------
\* Instances of RoomDirector: more visitors than the director remembers.
EXTENDS RoomDirector

CONSTANTS ann, ben, cat
=============================================================================
