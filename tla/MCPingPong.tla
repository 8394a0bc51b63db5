----------------------------- MODULE MCPingPong -----------------------------
EXTENDS PingPong

GameValues == 0..10
NoStatus == {}
=============================================================================
