----------------------------- MODULE MCNetplay -----------------------------
EXTENDS Netplay
=============================================================================
