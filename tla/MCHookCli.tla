----------------------------- MODULE MCHookCli ------------------------------
EXTENDS HookCli
Three == 1..3
Four == 1..4
=============================================================================
