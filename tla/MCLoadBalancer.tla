--------------------------- MODULE MCLoadBalancer ---------------------------
(* One client whose requests overlap, and upstreams that come and go. *)
EXTENDS LoadBalancer

CONSTANTS u1, u2, r1, r2, ip

MCUpstreams == {u1, u2}
MCRequests == {r1, r2}
MCIps == {ip}
MCIpOf == [r \in MCRequests |-> ip]
MCHashOf == [a \in MCIps |-> 1]
\* What method hash does, method random may do.
MCMethods == {"conn", "random"}
MCRetryMaxes == {2}
=============================================================================
