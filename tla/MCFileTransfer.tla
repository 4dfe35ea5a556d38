-------------------------- MODULE MCFileTransfer --------------------------
EXTENDS FileTransfer
=============================================================================
