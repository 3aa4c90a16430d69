---------------------------- MODULE MC_AdminAuth ----------------------------
(***************************************************************************)
(* Model values and bounds for AdminAuth.                                  *)
(***************************************************************************)
EXTENDS AdminAuth, TLC

CONSTANTS t1, t2, a1, c1, c2

OneTab   == {t1}
OneAdmin == {a1}
TwoCalls == {c1, c2}
AllKinds == Requests

(* For larger instances: two tabs, three rows, and the requests of a page. *)
TwoTabs   == {t1, t2}
PageKinds == {"list", "login", "verify"}
=============================================================================
