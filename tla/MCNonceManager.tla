--------------------------- MODULE MCNonceManager ---------------------------
EXTENDS NonceManager
=============================================================================
