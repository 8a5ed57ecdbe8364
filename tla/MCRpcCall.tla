------------------------------ MODULE MCRpcCall ------------------------------
EXTENDS RpcCall
=============================================================================
