--------------------------- MODULE MCMediaStream ---------------------------
EXTENDS MediaStream
CONSTANTS pcmu
=============================================================================
