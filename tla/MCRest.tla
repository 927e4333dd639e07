------------------------------- MODULE MCRest -------------------------------
EXTENDS RestProperties, TLC

CONSTANTS ann, bob, nobody

MCUsers == {ann, bob}
MCAccounts == {ann}
Announced_Or_Closed == {"length", "close"}
=============================================================================
