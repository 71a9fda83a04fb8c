----------------------------- MODULE MCLanHost -----------------------------
EXTENDS LanHost
=============================================================================
