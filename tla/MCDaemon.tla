------------------------------ MODULE MCDaemon ------------------------------
(* Small instances of Daemon for TLC.                                      *)
EXTENDS Daemon, TLC

CONSTANTS c1, c2, h1, h2, site, geo, all, net

Zero == [p \in Prefixes |-> 0]
One(S) == [p \in Prefixes |-> IF p \in S THEN 1 ELSE 0]

\* All traffic through server 1.
Full == [id |-> "id1", pub |-> "k1", host |-> h1, ranges |-> {all},
         plain |-> One({h1}), cidr |-> Zero, ks |-> TRUE]
\* The same server with a site that bypasses the tunnel (split tunneling).
Split == [Full EXCEPT !.plain = One({h1, site})]
\* And with an entry of a GeoIP list, an address with a prefix length.
Geo == [Split EXCEPT !.cidr = One({geo})]
\* Another server, with another client key.
Other == [id |-> "id2", pub |-> "k2", host |-> h2, ranges |-> {all},
          plain |-> One({h2}), cidr |-> Zero, ks |-> TRUE]
\* The first server with another client key.
Reissued == [Full EXCEPT !.id = "id2"]

\* The first server with a new key of its own, and an entry of the GeoIP list.
Rekeyed == [Full EXCEPT !.pub = "k2", !.cidr = One({geo})]

SeqConfigs == {Full, Geo, Other}
FaultConfigs == {Full, Geo, Reissued}
TwoConfigs == {Full, Reissued}
KeyedConfigs == {Full, Reissued, Rekeyed}

Sockets == Permutations(Clients)

\* All variables but told, which no guard and none of the run's properties read.
Untold == <<stack, conn, excl, timer, asserted, hostVars, faults>>
=============================================================================
