---------------------------- MODULE MCBmcClient ----------------------------
EXTENDS BmcClient
CONSTANTS s1, s2
MCLists == {<<>>, <<s1>>, <<s1, s2>>}
MCPorts == {-1, 0, 16992, MaxUint32, MaxUint32 + 1}
=============================================================================
