----------------------------- MODULE MCRpcServer -----------------------------
EXTENDS RpcServer, TLC

ServerSymmetry == Permutations(Conns) \cup Permutations(Streams) \cup Permutations(Callers)
=============================================================================
