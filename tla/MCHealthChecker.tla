--------------------------- MODULE MCHealthChecker ---------------------------
(* Instance of HealthChecker: two upstreams of different transports. *)
EXTENDS HealthChecker

MCLabel == {"plain", "tls"}
MCTransport == [l \in MCLabel |-> IF l = "plain" THEN "dns" ELSE "dot"]

\* the instance for the verdict on a removed upstream
MCLabelDoH == {"tls", "https"}
MCTransportDoH == [l \in MCLabelDoH |-> IF l = "tls" THEN "dot" ELSE "doh"]
=============================================================================
