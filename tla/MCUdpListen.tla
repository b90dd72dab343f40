---------------------------- MODULE MCUdpListen -----------------------------
EXTENDS UdpListen
=============================================================================
