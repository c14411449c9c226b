----------------------------- MODULE MCRoomReplay -----------------------------
EXTENDS RoomReplay, TLC
ConnSymmetry == Permutations(Conns)
=============================================================================
