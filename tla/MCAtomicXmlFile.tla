-------------------------- MODULE MCAtomicXmlFile --------------------------
EXTENDS AtomicXmlFile
=============================================================================
