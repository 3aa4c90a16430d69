------------------------ MODULE MC_ConnectorRegistry ------------------------
EXTENDS ConnectorRegistry, TLC

CONSTANTS c1, c2, m1, m2, m3, t1, t2, t3, h1, h2

\* c1 connects twice on each plane, c2 once
OwnerTable == [x \in Streams |-> IF x \in {m3, t3} THEN c2 ELSE c1]

\* one certificate per connector
SerialTable == [x \in Streams |-> IF x \in {m3, t3} THEN 2 ELSE 1]

\* no application of two connectors; c1 announces another list on m2
AppsTable == [m \in Mgmt |-> IF m = m3 THEN {"wiki"}
                             ELSE IF m = m2 THEN {"git"} ELSE {"git", "docs"}]

TwoConnectors == {c1, c2}
OneConnector  == {c1}
TwoSerials    == {1, 2}
ThreeMgmt     == {m1, m2, m3}
TwoMgmt       == {m1, m2}
OneMgmt       == {m1}
ThreeTunnels  == {t1, t2, t3}
TwoTunnels    == {t1, t2}
Applications  == {"git", "docs", "wiki"}
NoHandlers    == {}
OneHandler    == {h1}
TwoHandlers   == {h1, h2}

\* c1's tunnels differ in nothing but their names
Alike == Permutations({t1, t2})
=============================================================================
