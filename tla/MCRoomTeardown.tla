--------------------------- MODULE MCRoomTeardown ---------------------------
EXTENDS RoomTeardown
=============================================================================
