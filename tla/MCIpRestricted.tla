---------------------------- MODULE MCIpRestricted ----------------------------
(* TLC instances of IpRestricted. *)
EXTENDS IpRestricted, TLC

CONSTANTS s1, g1, g2, ip1, ip2, padded

OneSession   == {s1}
TwoGroups    == {g1, g2}
TwoAddresses == {ip1, ip2}

\* "ip1,ip2" and "ip2, ip1", with a space behind the comma.
Lists == {{ip1, ip2}, {ip2, padded}}

=============================================================================
