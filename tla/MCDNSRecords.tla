---------------------------- MODULE MCDNSRecords ----------------------------
(***************************************************************************)
(* An instance of DNSRecords: one domain at a provider that lists relative *)
(* names page by page, one at Cloudflare.                                  *)
(***************************************************************************)
EXTENDS DNSRecords

CONSTANTS da, dc, n1, n2, v1, v2

R(n, v, t) == [name |-> n, value |-> v, ttl |-> t]
E(i, n, v, t) == [id |-> i, name |-> n, value |-> v, ttl |-> t]
Both(a, c) == [d \in {da, dc} |-> IF d = da THEN a ELSE c]

MCDefaultTTL == Both(9, 1)

\* One value each; two values of one name, one with the default ttl; a file
\* without the second domain.
MCFiles == {Both(<<R(n1, v1, 6)>>, <<R(n1, v1, 6)>>),
            Both(<<R(n1, v1, 0), R(n1, v2, 6)>>, <<>>),
            [d \in {da} |-> <<R(n1, v2, 6), R(n2, v1, 6)>>]}

\* Nothing; a page that is full; two values of one name.
MCZones == {Both({}, {}),
            Both({E(1, n1, v1, 6), E(2, n2, v2, 6)}, {E(3, n1, v2, 6)}),
            Both({E(1, n1, v1, 6), E(2, n1, v2, 6)}, {E(3, n1, v1, 6)})}
=============================================================================
