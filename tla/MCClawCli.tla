----------------------------- MODULE MCClawCli ------------------------------
EXTENDS ClawCli
Us == {Me}
Four == 1..4
=============================================================================
