-------------------------- MODULE MC_UserSessions ---------------------------
EXTENDS UserSessions, TLC

CONSTANTS s1, s2, b1, b2, r1, l1, h1

OneLogin      == {s1}
TwoLogins     == {s1, s2}
TwoCallbacks  == {b1, b2}
OneRequest    == {r1}
OneLogout     == {l1}
OneHandler    == {h1}

\* callbacks differ in nothing but their names
Alike == Permutations({b1, b2})
\* and so do logins
Symmetric == {p @@ q : p \in Alike, q \in Permutations({s1, s2})}
=============================================================================
