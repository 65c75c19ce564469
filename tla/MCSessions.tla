----------------------------- MODULE MCSessions -----------------------------
(* Few accounts, names and connections, for TLC.                            *)
EXTENDS Sessions

MCAccounts == {"a", "b"}
MCNames == {"m", "n"}
=============================================================================
