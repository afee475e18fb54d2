------------------------------ MODULE MCCoverage ------------------------------
(* Instances of Coverage small enough for TLC.                              *)
EXTENDS Coverage, TLC

CONSTANTS k1, k2, a, b

\* A server first, whose handlers the stop of the datagram socket waits for.
MCTcp == {1}
MCTimeout == (1 :> 1) @@ (2 :> 2)

\* Two calls for one correlation, or for two.
MCOneCorr == (k1 :> a) @@ (k2 :> a)
MCAssignments == {MCOneCorr, (k1 :> a) @@ (k2 :> b)}

\* A pair that shares a receiver, one that shares nothing, and every other profile.
MCRequests == {
    {"tcp_connect", "tcp_tagged"}, {"dns_udp", "tls_handshake"},
    {"udp_tagged"}, {"http_exchange"}, {"dns_tcp"}, {"ssh_banner"}}
=============================================================================
