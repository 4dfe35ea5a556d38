-------------------------- MODULE MCS5BNegotiation --------------------------
EXTENDS S5BNegotiation
=============================================================================
