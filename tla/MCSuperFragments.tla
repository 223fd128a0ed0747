--------------------------- MODULE MCSuperFragments ---------------------------
EXTENDS SuperFragments

MCFedSourceIds == { << 1 >>, << 2, 1 >>, << 1, 2, 1 >>, << 1, GTP >> }
MCBlockRooms == {8, 20, 24, 48}
MCPayloadSizes == {0, 1, 3}
MCLogNormalSizes == {1, 2}
MCFirstEventNumbers == {1, LastEventNumber}
=============================================================================
