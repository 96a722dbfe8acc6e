----------------------------- MODULE MCNetworkTcp -----------------------------
(* NetworkTcp with its initial sequence numbers: the first wraps at once.  *)
EXTENDS NetworkTcp

McIsns == <<61, 30>>
=============================================================================
