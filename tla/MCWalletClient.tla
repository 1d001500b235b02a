---------------------------- MODULE MCWalletClient ----------------------------
(* Instances of WalletClient for TLC.                                      *)
EXTENDS WalletClient

=============================================================================
