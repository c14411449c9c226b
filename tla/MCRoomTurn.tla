------------------------------ MODULE MCRoomTurn ------------------------------
EXTENDS RoomTurn, TLC
TurnSymmetry == Permutations(Messages) \cup Permutations(Admins)
=============================================================================
