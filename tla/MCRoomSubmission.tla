--------------------------- MODULE MCRoomSubmission ---------------------------
\* Instances of RoomSubmission: one visitor with two connections.
EXTENDS RoomSubmission

CONSTANTS visitor, tab1, tab2, ask

MCOwnerOf == [c \in Connections |-> visitor]
=============================================================================
