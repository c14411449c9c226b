----------------------------- MODULE MCRoomSpeech -----------------------------
\* Instances of RoomSpeech: two replies share the worker.
EXTENDS RoomSpeech

CONSTANTS first, second
=============================================================================
