---------------------------- MODULE MCRingBuffer ----------------------------
EXTENDS RingBuffer
CONSTANTS low, high
MCBlocks == {<<low>>, <<high>>, <<high, low>>, <<low, low, high>>}
=============================================================================
