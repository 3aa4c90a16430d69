-------------------------- MODULE AdminAuth_proofs --------------------------
(***************************************************************************)
(* Proofs about the sessions of the administrators, for any number of      *)
(* tabs, requests, calls, rows and faults: every variable keeps its kind,  *)
(* the renewal of the tokens implements RefreshFlight, and the rotation of *)
(* the cookie neither loses the session nor makes a tab refuse itself.     *)
(***************************************************************************)
EXTENDS AdminAuth, FiniteSetTheorems, TLAPS

(* There is a tab, and no more than so many calls at once.                 *)
SomeTabs == Tabs # {} /\ IsFiniteSet(Calls)

ReqType == [at : {"idle", "waiting", "sent", "answered"}, token : Rows]

(* The calls that may still create a row have room for it.                 *)
Creating == {c \in Calls : call[c].at \in {"sent", "read", "revoked"}}
RoomKept == issued + Cardinality(Creating) <= MaxSessions

(* A code is only typed for somebody.                                      *)
CodeOfSomeone ==
  \A t \in Tabs : "verify" \in Kinds /\ req[t]["verify"].at # "idle" => form[t] # NoAdmin

Inv == TypeOK /\ RoomKept /\ CodeOfSomeone

LEMMA Zero == MaxSessions \in Nat /\ 0 \in Rows /\ MaxFaults \in Nat
BY BoundsAssumption DEF Rows

LEMMA Values ==
  ASSUME SomeTabs
  PROVE  /\ Free \in CallType /\ Free.at = "free" /\ Free.kept = FALSE
         /\ SignedOut \in Persisted
         /\ Idle \in ReqType /\ Idle.at = "idle"
         /\ NoReqs \in [Kinds -> ReqType]
<1>1. (CHOOSE t \in Tabs : TRUE) \in Tabs
  BY DEF SomeTabs
<1>2. Free \in CallType /\ Free.at = "free" /\ Free.kept = FALSE
  BY <1>1, Zero DEF Free, CallType
<1>3. SignedOut \in Persisted
  BY Zero DEF SignedOut, Persisted
<1>4. Idle \in ReqType /\ Idle.at = "idle"
  BY Zero DEF Idle, ReqType
<1> QED
  BY <1>2, <1>3, <1>4 DEF NoReqs

(* No step but the start of a renewal adds to the calls that may create a  *)
(* row.                                                                    *)
LEMMA LessRoomNeeded ==
  ASSUME SomeTabs, TypeOK, RoomKept, issued' = issued, Creating' \subseteq Creating
  PROVE  RoomKept'
<1>1. IsFiniteSet(Creating)
  BY FS_Subset DEF SomeTabs, Creating
<1>2. /\ IsFiniteSet(Creating') /\ Cardinality(Creating') <= Cardinality(Creating)
      /\ Cardinality(Creating') \in Nat /\ Cardinality(Creating) \in Nat
  BY <1>1, FS_Subset, FS_CardinalityType
<1> QED
  BY <1>2, Zero DEF RoomKept, TypeOK, Rows

LEMMA InitKept == ASSUME SomeTabs, Init PROVE Inv
<1>1. TypeOK
  BY Values, Zero DEF Init, TypeOK, ReqType, Rows
<1>2. RoomKept
  <2>1. Creating = {}
    BY Values DEF Init, Creating
  <2> QED
    BY <2>1, FS_EmptySet, Zero DEF RoomKept, Init
<1>3. CodeOfSomeone
  BY Values DEF Init, CodeOfSomeone, NoReqs
<1> QED
  BY <1>1, <1>2, <1>3 DEF Inv
-----------------------------------------------------------------------------
(* What the steps of a tab have in common.                                 *)

LEMMA StoreSet ==
  ASSUME TypeOK, NEW t \in Tabs, NEW s \in Persisted, SetStore(t, s)
  PROVE  disk' \in Persisted /\ store' \in [Tabs -> Persisted]
BY DEF SetStore, TypeOK

(* A page that goes away drops its requests, and keeps no call.            *)
LEMMA Unloads ==
  ASSUME SomeTabs, TypeOK, NEW t \in Tabs, Unload(t)
  PROVE  /\ page' \in [Tabs -> {"app", "login", "loading"}]
         /\ form' \in [Tabs -> Admins \cup {NoAdmin}]
         /\ req' \in [Tabs -> [Kinds -> ReqType]]
         /\ call' \in [Calls -> CallType] /\ lost' \in SUBSET Rows
         /\ \A c \in Calls : /\ call'[c].at = call[c].at /\ call'[c].tab = call[c].tab
                             /\ call'[c].kept = (call[c].kept /\ call[c].tab # t)
         /\ \A u \in Tabs \ {t} : req'[u] = req[u] /\ form'[u] = form[u]
         /\ \A k \in Kinds : req'[t][k] = Idle
<1>1. /\ page \in [Tabs -> {"app", "login", "loading"}]
      /\ form \in [Tabs -> Admins \cup {NoAdmin}]
      /\ req \in [Tabs -> [Kinds -> ReqType]]
      /\ call \in [Calls -> CallType] /\ lost \in SUBSET Rows
  BY DEF TypeOK, ReqType
<1>2. \A c \in Calls :
        LET r == [call[c] EXCEPT !.kept = @ /\ call[c].tab # t] IN
        /\ r \in CallType /\ r.at = call[c].at /\ r.tab = call[c].tab
        /\ r.kept = (call[c].kept /\ call[c].tab # t)
  BY <1>1 DEF CallType
<1>3. call' = [c \in Calls |-> [call[c] EXCEPT !.kept = @ /\ call[c].tab # t]]
  BY DEF Unload
<1>4. Abandoned(t) \subseteq Rows
  BY <1>1 DEF Abandoned, Kept, CallType
<1>5. lost' \in SUBSET Rows
  BY <1>1, <1>4 DEF Unload
<1>6. req' \in [Tabs -> [Kinds -> ReqType]] /\ \A k \in Kinds : req'[t][k] = Idle
  BY <1>1, Values DEF Unload, NoReqs
<1>7. /\ call' \in [Calls -> CallType]
      /\ \A c \in Calls : /\ call'[c].at = call[c].at /\ call'[c].tab = call[c].tab
                          /\ call'[c].kept = (call[c].kept /\ call[c].tab # t)
  BY <1>2, <1>3
<1>8. /\ page' \in [Tabs -> {"app", "login", "loading"}]
      /\ form' \in [Tabs -> Admins \cup {NoAdmin}]
      /\ \A u \in Tabs \ {t} : req'[u] = req[u] /\ form'[u] = form[u]
  BY <1>1 DEF Unload
<1> QED
  BY <1>5, <1>6, <1>7, <1>8

(* The redirect either unloads the page or ends the requests rs and the    *)
(* calls cs of a page that is on the sign-in form already.                 *)
LEMMA Clears ==
  ASSUME SomeTabs, TypeOK, NEW t \in Tabs, NEW rs, NEW cs \in SUBSET Calls,
         ClearAuthAndRedirect(t, rs, cs)
  PROVE  /\ disk' \in Persisted /\ store' \in [Tabs -> Persisted]
         /\ page' \in [Tabs -> {"app", "login", "loading"}]
         /\ form' \in [Tabs -> Admins \cup {NoAdmin}]
         /\ req' \in [Tabs -> [Kinds -> ReqType]]
         /\ call' \in [Calls -> CallType] /\ lost' \in SUBSET Rows
         /\ \A c \in Calls : call'[c].at = call[c].at /\ call'[c].tab = call[c].tab
         /\ \A u \in Tabs \ {t} : req'[u] = req[u] /\ form'[u] = form[u]
         /\ \/ /\ \A c \in Calls : call'[c].kept = (call[c].kept /\ call[c].tab # t)
               /\ \A k \in Kinds : req'[t][k] = Idle
            \/ /\ \A c \in Calls : call'[c].kept = (call[c].kept /\ c \notin cs)
               /\ \A k \in Kinds : req'[t][k] = IF k \in rs THEN Idle ELSE req[t][k]
               /\ form' = form
<1>1. disk' \in Persisted /\ store' \in [Tabs -> Persisted]
  BY Values, StoreSet DEF ClearAuthAndRedirect
<1>2. CASE Unload(t)
  BY <1>1, <1>2, Unloads
<1>3. CASE /\ req' = [req EXCEPT ![t] = [k \in Kinds |-> IF k \in rs THEN Idle ELSE @[k]]]
           /\ call' = [c \in Calls |-> IF c \in cs THEN [call[c] EXCEPT !.kept = FALSE] ELSE call[c]]
           /\ lost' = lost \cup {call[c].old : c \in cs}
           /\ UNCHANGED <<page, form>>
  <2>1. req \in [Tabs -> [Kinds -> ReqType]] /\ call \in [Calls -> CallType]
    BY DEF TypeOK, ReqType
  <2>2. \A c \in Calls :
          LET r == [call[c] EXCEPT !.kept = FALSE] IN
          r \in CallType /\ r.at = call[c].at /\ r.tab = call[c].tab /\ ~r.kept
    BY <2>1 DEF CallType
  <2>3. /\ call' \in [Calls -> CallType]
        /\ \A c \in Calls : /\ call'[c].at = call[c].at /\ call'[c].tab = call[c].tab
                            /\ call'[c].kept = (call[c].kept /\ c \notin cs)
    BY <1>3, <2>1, <2>2 DEF CallType
  <2>4. lost' \in SUBSET Rows
    BY <1>3, <2>1 DEF TypeOK, CallType
  <2>5. /\ req' \in [Tabs -> [Kinds -> ReqType]]
        /\ \A u \in Tabs \ {t} : req'[u] = req[u]
        /\ \A k \in Kinds : req'[t][k] = IF k \in rs THEN Idle ELSE req[t][k]
    BY <1>3, <2>1, Values
  <2>6. /\ page' \in [Tabs -> {"app", "login", "loading"}]
        /\ form' \in [Tabs -> Admins \cup {NoAdmin}] /\ form' = form
    BY <1>3 DEF TypeOK
  <2> QED
    BY <1>1, <2>3, <2>4, <2>5, <2>6
<1> QED
  BY <1>2, <1>3 DEF ClearAuthAndRedirect
-----------------------------------------------------------------------------
(* Every step keeps the kinds, the room and the codes.                     *)

LEMMA SendKept ==
  ASSUME SomeTabs, Inv, NEW t \in Tabs, NEW k \in Kinds, Send(t, k) PROVE Inv'
<1>1. /\ TypeOK /\ RoomKept /\ CodeOfSomeone
      /\ req \in [Tabs -> [Kinds -> ReqType]] /\ call \in [Calls -> CallType]
  BY DEF Inv, TypeOK, ReqType
<1>2. \A r \in ReqType : [req EXCEPT ![t][k] = r] \in [Tabs -> [Kinds -> ReqType]]
  BY <1>1
<1>3. k = "verify" => form[t] # NoAdmin
  BY DEF Send, SendRequest, JoinRefresh, StartRefresh, MaySend
<1>4. PICK r \in ReqType : req' = [req EXCEPT ![t][k] = r]
  <2>1. [at |-> "waiting", token |-> 0] \in ReqType /\ [at |-> "sent", token |-> store[t].token] \in ReqType
    BY <1>1, Zero DEF ReqType, TypeOK, Persisted
  <2> QED
    BY <2>1 DEF Send, SendRequest, JoinRefresh, StartRefresh
<1>5. req' \in [Tabs -> [Kinds -> ReqType]]
  BY <1>2, <1>4
<1>6. UNCHANGED <<serverVars, cookie, disk, store, page, form, lost, faults>>
  BY DEF Send, SendRequest, JoinRefresh, StartRefresh
<1>7. CodeOfSomeone'
  BY <1>1, <1>3, <1>4, <1>6 DEF CodeOfSomeone
<1>8. CASE UNCHANGED call
  <2>1. TypeOK'
    BY <1>1, <1>5, <1>6, <1>8 DEF TypeOK, ReqType, serverVars
  <2>2. RoomKept'
    BY <1>1, <1>6, <1>8, LessRoomNeeded DEF serverVars, Creating
  <2> QED
    BY <1>7, <2>1, <2>2 DEF Inv
<1>9. ASSUME NEW c \in Calls, StartRefresh(t, k, c) PROVE Inv'
  <2> DEFINE new == [at |-> "sent", tab |-> t, old |-> cookie, new |-> 0, kept |-> TRUE]
  <2>1. new \in CallType /\ new.at = "sent"
    BY <1>1, Zero DEF CallType, TypeOK
  <2>2. call' = [call EXCEPT ![c] = new] /\ call[c].at = "free" /\ Room
    BY <1>9 DEF StartRefresh
  <2> HIDE DEF new
  <2>3. call' \in [Calls -> CallType]
    BY <1>1, <2>1, <2>2
  <2>4. TypeOK'
    BY <1>1, <1>5, <1>6, <2>3 DEF TypeOK, ReqType, serverVars
  <2>5. Creating' = Creating \cup {c} /\ c \notin Creating
    BY <1>1, <2>1, <2>2 DEF Creating
  <2>6. IsFiniteSet(Creating)
    BY FS_Subset DEF SomeTabs, Creating
  <2>7. Cardinality(Creating') = Cardinality(Creating) + 1 /\ Cardinality(Creating) \in Nat
    BY <2>5, <2>6, FS_AddElement, FS_CardinalityType
  <2>8. issued + Cardinality(Creating) < MaxSessions /\ issued' = issued /\ issued \in Nat
    BY <1>1, <1>6, <2>2, Zero DEF Room, Creating, serverVars, TypeOK, Rows
  <2>9. RoomKept'
    BY <2>7, <2>8, Zero DEF RoomKept
  <2> QED
    BY <1>7, <2>4, <2>9 DEF Inv
<1> QED
  BY <1>8, <1>9 DEF Send, SendRequest, JoinRefresh

(* The INSERT of a row.                                                    *)
LEMMA Creates ==
  ASSUME TypeOK, NEW a \in Admins \cup {NoAdmin}, NEW p \in Nat, NEW st \in {"live", "unsaved"},
         issued < MaxSessions, CreateSession(a, p, st)
  PROVE  /\ issued' = issued + 1 /\ issued' \in Rows
         /\ status' \in [Rows -> {"none", "live", "rotated", "revoked", "unsaved"}]
         /\ owner' \in [Rows -> Admins \cup {NoAdmin}]
         /\ since' \in [Rows -> Nat]
<1>1. issued' = issued + 1 /\ issued' \in Rows
  BY Zero DEF CreateSession, TypeOK, Rows
<1> QED
  BY <1>1 DEF CreateSession, TypeOK

LEMMA RedirectKept ==
  ASSUME SomeTabs, Inv, NEW t \in Tabs, NEW rs, NEW cs \in SUBSET Calls,
         ClearAuthAndRedirect(t, rs, cs), UNCHANGED <<serverVars, cookie>>, faults' \in Nat
  PROVE  Inv'
<1>1. TypeOK /\ RoomKept /\ CodeOfSomeone
  BY DEF Inv
<1>2. TypeOK'
  BY <1>1, Clears DEF TypeOK, ReqType, serverVars
<1>3. RoomKept'
  <2>1. Creating' = Creating
    BY <1>1, Clears DEF Creating
  <2> QED
    BY <1>1, <2>1, LessRoomNeeded DEF serverVars
<1>4. CodeOfSomeone'
  <2>1. /\ \A u \in Tabs \ {t} : req'[u] = req[u] /\ form'[u] = form[u]
        /\ \/ \A k \in Kinds : req'[t][k] = Idle
           \/ /\ \A k \in Kinds : req'[t][k] \in {Idle, req[t][k]}
              /\ form' = form
    BY <1>1, Clears
  <2> QED
    BY <1>1, <2>1, Values DEF CodeOfSomeone
<1> QED
  BY <1>2, <1>3, <1>4 DEF Inv

(* A step that only ends a request of a tab, or changes its token.         *)
LEMMA RequestKept ==
  ASSUME SomeTabs, Inv, NEW t \in Tabs, NEW k \in Kinds, NEW r \in ReqType,
         req' = [req EXCEPT ![t][k] = r],
         \A u \in Tabs : form'[u] = NoAdmin => form[u] = NoAdmin \/ (u = t /\ k = "verify" /\ r = Idle),
         form' \in [Tabs -> Admins \cup {NoAdmin}],
         disk' \in Persisted, store' \in [Tabs -> Persisted], cookie' \in Rows,
         page' \in [Tabs -> {"app", "login", "loading"}],
         status' \in [Rows -> {"none", "live", "rotated", "revoked", "unsaved"}],
         k = "verify" /\ r # Idle => req[t]["verify"].at # "idle",
         UNCHANGED <<issued, owner, since, age, rotator, password, changing, call, lost, faults>>
  PROVE  Inv'
<1>1. /\ TypeOK /\ RoomKept /\ CodeOfSomeone /\ req \in [Tabs -> [Kinds -> ReqType]]
  BY DEF Inv, TypeOK, ReqType
<1>2. req' \in [Tabs -> [Kinds -> ReqType]]
  BY <1>1
<1>3. TypeOK'
  BY <1>1, <1>2 DEF TypeOK, ReqType
<1>4. RoomKept'
  BY <1>1, LessRoomNeeded DEF Creating
<1>5. CodeOfSomeone'
  BY <1>1, Values DEF CodeOfSomeone
<1> QED
  BY <1>3, <1>4, <1>5 DEF Inv

LEMMA AnswerKept ==
  ASSUME SomeTabs, Inv, NEW t \in Tabs, NEW k \in Kinds, Answer(t, k) PROVE Inv'
<1>1. /\ TypeOK /\ RoomKept /\ CodeOfSomeone
      /\ req \in [Tabs -> [Kinds -> ReqType]] /\ req[t][k] \in ReqType
      /\ store[t] \in Persisted /\ form[t] \in Admins \cup {NoAdmin}
  BY DEF Inv, TypeOK, ReqType
<1>2. Idle \in ReqType /\ Idle.at = "idle"
  BY Values
<1>3. CASE Unauthorized(t, k)
  BY <1>1, <1>3, RedirectKept DEF Unauthorized, TypeOK
<1>4. CASE AnswerOther(t, k)
  <2>1. req' = [req EXCEPT ![t][k] = Idle]
    BY <1>4 DEF AnswerOther
  <2>2. UNCHANGED <<serverVars, call, cookie, disk, store, page, form, lost, faults>>
    BY <1>4 DEF AnswerOther
  <2> QED
    BY <1>1, <1>2, <2>1, <2>2, RequestKept DEF serverVars, TypeOK
<1>5. CASE k = "me" /\ AnswerMe(t)
  <2>1. req' = [req EXCEPT ![t][k] = Idle]
    BY <1>5 DEF AnswerMe
  <2>2. [store[t] EXCEPT !.user = owner[req[t]["me"].token]] \in Persisted
    BY <1>1, <1>5 DEF Persisted, TypeOK, ReqType
  <2>3. disk' \in Persisted /\ store' \in [Tabs -> Persisted]
    BY <1>1, <1>5, <2>2, StoreSet DEF AnswerMe
  <2>4. UNCHANGED <<serverVars, call, cookie, page, form, lost, faults>>
    BY <1>5 DEF AnswerMe
  <2> QED
    BY <1>1, <1>2, <2>1, <2>3, <2>4, RequestKept DEF serverVars, TypeOK
<1>6. CASE k = "login" /\ \E a \in Admins : AnswerLogin(t, a)
  <2>1. PICK a \in Admins : AnswerLogin(t, a)
    BY <1>6
  <2>2. req' = [req EXCEPT ![t][k] = Idle] /\ form' = [form EXCEPT ![t] = a]
    BY <1>6, <2>1 DEF AnswerLogin
  <2>3. /\ form' \in [Tabs -> Admins \cup {NoAdmin}]
        /\ \A u \in Tabs : form'[u] = NoAdmin => form[u] = NoAdmin
    BY <1>1, <2>2, AdminsAssumption DEF TypeOK
  <2>4. UNCHANGED <<serverVars, call, cookie, disk, store, page, lost, faults>>
    BY <2>1 DEF AnswerLogin
  <2> QED
    BY <1>1, <1>2, <2>2, <2>3, <2>4, RequestKept DEF serverVars, TypeOK
<1>7. CASE k = "verify" /\ VerifyOTPLogin(t)
  <2>1. /\ req[t]["verify"].at = "sent" /\ Room
        /\ CreateSession(form[t], password[form[t]], "live")
        /\ req' = [req EXCEPT ![t][k] = [at |-> "answered", token |-> issued']]
        /\ UNCHANGED <<age, rotator, password, changing, call, cookie, disk, store,
                       page, form, lost, faults>>
    BY <1>7 DEF VerifyOTPLogin
  <2>2. form[t] \in Admins /\ password[form[t]] \in Nat
    BY <1>1, <1>7, <2>1 DEF CodeOfSomeone, TypeOK
  <2>3. /\ issued + Cardinality(Creating) < MaxSessions
        /\ Cardinality(Creating) \in Nat /\ issued \in Nat
    <3>1. IsFiniteSet(Creating)
      BY FS_Subset DEF SomeTabs, Creating
    <3> QED
      BY <1>1, <2>1, <3>1, FS_CardinalityType, Zero DEF Room, Creating, TypeOK, Rows
  <2>4. issued < MaxSessions
    BY <2>3, Zero
  <2>5. /\ issued' = issued + 1 /\ issued' \in Rows
        /\ status' \in [Rows -> {"none", "live", "rotated", "revoked", "unsaved"}]
        /\ owner' \in [Rows -> Admins \cup {NoAdmin}]
        /\ since' \in [Rows -> Nat]
    BY <1>1, <2>1, <2>2, <2>4, Creates
  <2>6. [at |-> "answered", token |-> issued'] \in ReqType
    BY <2>5 DEF ReqType
  <2>7. req' \in [Tabs -> [Kinds -> ReqType]]
    BY <1>1, <2>1, <2>6
  <2>8. TypeOK'
    BY <1>1, <2>1, <2>5, <2>7 DEF TypeOK, ReqType
  <2>9. RoomKept'
    BY <2>1, <2>3, <2>5, Zero DEF RoomKept, Creating
  <2>10. CodeOfSomeone'
    BY <1>1, <1>7, <2>1 DEF CodeOfSomeone
  <2> QED
    BY <2>8, <2>9, <2>10 DEF Inv
<1>8. CASE k = "verify" /\ AnswerVerify(t)
  <2>1. req' = [req EXCEPT ![t][k] = Idle] /\ cookie' = req[t][k].token
    BY <1>8 DEF AnswerVerify
  <2>2. [user |-> form[t], token |-> req[t][k].token, authed |-> TRUE] \in Persisted
    BY <1>1 DEF Persisted, ReqType
  <2>3. disk' \in Persisted /\ store' \in [Tabs -> Persisted]
    BY <1>1, <1>8, <2>2, StoreSet DEF AnswerVerify
  <2>4. /\ form' \in [Tabs -> Admins \cup {NoAdmin}]
        /\ \A u \in Tabs : u # t => form'[u] = form[u]
        /\ page' \in [Tabs -> {"app", "login", "loading"}]
    BY <1>1, <1>8 DEF AnswerVerify, TypeOK
  <2>5. UNCHANGED <<serverVars, call, lost, faults>> /\ cookie' \in Rows
    BY <1>1, <1>8, <2>1 DEF AnswerVerify, ReqType
  <2> QED
    BY <1>1, <1>2, <1>8, <2>1, <2>3, <2>4, <2>5, RequestKept DEF serverVars, TypeOK
<1>9. CASE k = "logout" /\ AnswerLogout(t)
  <2>1. req' = [req EXCEPT ![t][k] = Idle]
    BY <1>9 DEF AnswerLogout
  <2>2. disk' \in Persisted /\ store' \in [Tabs -> Persisted]
    BY <1>1, <1>9, Values, StoreSet DEF AnswerLogout
  <2>3. /\ status' \in [Rows -> {"none", "live", "rotated", "revoked", "unsaved"}]
        /\ page' \in [Tabs -> {"app", "login", "loading"}]
    BY <1>1, <1>9 DEF AnswerLogout, TypeOK
  <2>4. UNCHANGED <<issued, owner, since, age, rotator, password, changing, call,
                    cookie, form, lost, faults>>
    BY <1>9 DEF AnswerLogout
  <2> QED
    BY <1>1, <1>2, <2>1, <2>2, <2>3, <2>4, RequestKept DEF TypeOK
<1> QED
  BY <1>3, <1>4, <1>5, <1>6, <1>7, <1>8, <1>9 DEF Answer

(* A step of one call, which creates no row and makes no request.          *)
LEMMA OneCallKept ==
  ASSUME SomeTabs, Inv, NEW c \in Calls, NEW r \in CallType, call' = [call EXCEPT ![c] = r],
         r.at \in {"sent", "read", "revoked"} => c \in Creating,
         status' \in [Rows -> {"none", "live", "rotated", "revoked", "unsaved"}],
         rotator' \in [Rows -> SUBSET Tabs], lost' \in SUBSET Rows, faults' \in Nat,
         UNCHANGED <<issued, owner, since, age, password, changing, cookie, tabVars>>
  PROVE  Inv'
<1>1. TypeOK /\ RoomKept /\ CodeOfSomeone /\ call \in [Calls -> CallType]
  BY DEF Inv, TypeOK
<1>2. call' \in [Calls -> CallType]
  BY <1>1
<1>3. TypeOK'
  BY <1>1, <1>2 DEF TypeOK, tabVars
<1>4. Creating' \subseteq Creating
  BY <1>1 DEF Creating
<1>5. RoomKept'
  BY <1>1, <1>4, LessRoomNeeded
<1>6. CodeOfSomeone'
  BY <1>1 DEF CodeOfSomeone, tabVars
<1> QED
  BY <1>3, <1>5, <1>6 DEF Inv

(* The INSERT of a renewal, whether it leaves a row or not.                *)
LEMMA IssueKept ==
  ASSUME SomeTabs, Inv, NEW c \in Calls, NEW st \in {"live", "unsaved"},
         call[c].at = "revoked", CreateSession(owner[call[c].old], since[call[c].old], st),
         call' = [call EXCEPT ![c] = [@ EXCEPT !.at = "ok", !.new = issued']], faults' \in Nat,
         UNCHANGED <<age, rotator, password, changing, cookie, tabVars, lost>>
  PROVE  Inv'
<1>1. /\ TypeOK /\ RoomKept /\ CodeOfSomeone
      /\ call \in [Calls -> CallType] /\ call[c] \in CallType
  BY DEF Inv, TypeOK
<1>2. owner[call[c].old] \in Admins \cup {NoAdmin} /\ since[call[c].old] \in Nat
  BY <1>1 DEF TypeOK, CallType
<1>3. IsFiniteSet(Creating) /\ c \in Creating
  BY FS_Subset DEF SomeTabs, Creating
<1>4. /\ Cardinality(Creating) \in Nat
      /\ Cardinality(Creating \ {c}) = Cardinality(Creating) - 1
      /\ Cardinality(Creating \ {c}) \in Nat
  BY <1>3, FS_RemoveElement, FS_CardinalityType
<1>5. issued \in Nat /\ issued < MaxSessions
  BY <1>1, <1>4, Zero DEF RoomKept, TypeOK, Rows
<1>6. /\ issued' = issued + 1 /\ issued' \in Rows
      /\ status' \in [Rows -> {"none", "live", "rotated", "revoked", "unsaved"}]
      /\ owner' \in [Rows -> Admins \cup {NoAdmin}]
      /\ since' \in [Rows -> Nat]
  BY <1>1, <1>2, <1>5, Creates
<1>7. [call[c] EXCEPT !.at = "ok", !.new = issued'] \in CallType
  BY <1>1, <1>6 DEF CallType
<1>8. call' \in [Calls -> CallType] /\ call'[c].at = "ok" /\ \A d \in Calls \ {c} : call'[d] = call[d]
  BY <1>1, <1>7 DEF CallType
<1>9. TypeOK'
  BY <1>1, <1>6, <1>8 DEF TypeOK, tabVars
<1>10. Creating' = Creating \ {c}
  BY <1>8 DEF Creating
<1>11. RoomKept'
  BY <1>1, <1>4, <1>5, <1>6, <1>10, Zero DEF RoomKept
<1>12. CodeOfSomeone'
  BY <1>1 DEF CodeOfSomeone, tabVars
<1> QED
  BY <1>9, <1>11, <1>12 DEF Inv

(* The requests that waited for a renewal go out with its token.           *)
LEMMA RefreshOkKept ==
  ASSUME SomeTabs, Inv, NEW c \in Calls, RefreshOk(c) PROVE Inv'
<1>1. /\ TypeOK /\ RoomKept /\ CodeOfSomeone
      /\ call \in [Calls -> CallType] /\ call[c] \in CallType
      /\ req \in [Tabs -> [Kinds -> ReqType]] /\ call[c].tab \in Tabs /\ call[c].new \in Rows
  BY DEF Inv, TypeOK, ReqType, CallType
<1> DEFINE t == call[c].tab
           sent == [at |-> "sent", token |-> call[c].new]
<1>2. /\ cookie' = call[c].new
      /\ SetStore(t, [store[t] EXCEPT !.token = call[c].new])
      /\ req' = [req EXCEPT ![t] = [k \in Kinds |-> IF @[k].at = "waiting" THEN sent ELSE @[k]]]
      /\ call' = [call EXCEPT ![c] = Free]
      /\ UNCHANGED <<serverVars, page, form, lost, faults>>
  BY DEF RefreshOk
<1>3. [store[t] EXCEPT !.token = call[c].new] \in Persisted
  BY <1>1 DEF TypeOK, Persisted
<1>4. disk' \in Persisted /\ store' \in [Tabs -> Persisted]
  BY <1>1, <1>2, <1>3, StoreSet
<1>5. sent \in ReqType
  BY <1>1 DEF ReqType
<1>6. /\ req' \in [Tabs -> [Kinds -> ReqType]]
      /\ \A u \in Tabs, k \in Kinds : req'[u][k].at # "idle" => req[u][k].at # "idle"
  BY <1>1, <1>2, <1>5
<1>7. call' \in [Calls -> CallType] /\ Creating' \subseteq Creating
  BY <1>1, <1>2, Values DEF Creating
<1>8. TypeOK'
  BY <1>1, <1>2, <1>4, <1>6, <1>7 DEF TypeOK, ReqType, serverVars
<1>9. RoomKept'
  BY <1>1, <1>2, <1>7, LessRoomNeeded DEF serverVars
<1>10. CodeOfSomeone'
  BY <1>1, <1>2, <1>6 DEF CodeOfSomeone
<1> QED
  BY <1>8, <1>9, <1>10 DEF Inv

LEMMA CallKept ==
  ASSUME SomeTabs, Inv, NEW c \in Calls, CallStep(c) \/ CallFault(c) PROVE Inv'
<1>1. /\ TypeOK /\ RoomKept /\ CodeOfSomeone
      /\ call \in [Calls -> CallType] /\ call[c] \in CallType
      /\ status \in [Rows -> {"none", "live", "rotated", "revoked", "unsaved"}]
      /\ rotator \in [Rows -> SUBSET Tabs] /\ lost \in SUBSET Rows /\ faults \in Nat
      /\ call[c].tab \in Tabs /\ call[c].old \in Rows
  BY DEF Inv, TypeOK, CallType
<1>2. ASSUME NEW at \in {"read", "revoked", "ok", "refused"}
      PROVE  [call[c] EXCEPT !.at = at] \in CallType /\ [call[c] EXCEPT !.at = at].at = at
  BY <1>1 DEF CallType
<1>3. CASE GetSession(c)
  <2>1. PICK at \in {"read", "refused"} : call' = [call EXCEPT ![c].at = at]
    BY <1>3 DEF GetSession
  <2>2. c \in Creating /\ UNCHANGED <<serverVars, cookie, tabVars, lost, faults>>
    BY <1>3 DEF GetSession, Creating
  <2>3. call' = [call EXCEPT ![c] = [call[c] EXCEPT !.at = at]]
    BY <1>1, <2>1
  <2> QED
    BY <1>1, <1>2, <2>2, <2>3, OneCallKept DEF serverVars
<1>4. CASE RevokeSession(c)
  <2>1. /\ call' = [call EXCEPT ![c] = [call[c] EXCEPT !.at = "revoked"]] /\ c \in Creating
        /\ UNCHANGED <<issued, owner, since, age, password, changing, cookie, tabVars, lost, faults>>
    BY <1>1, <1>4 DEF RevokeSession, Creating
  <2>2. status' \in [Rows -> {"none", "live", "rotated", "revoked", "unsaved"}]
    BY <1>1, <1>4 DEF RevokeSession
  <2>3. rotator' \in [Rows -> SUBSET Tabs]
    BY <1>1, <1>4 DEF RevokeSession
  <2> QED
    BY <1>1, <1>2, <2>1, <2>2, <2>3, OneCallKept
<1>5. CASE IssueTokens(c)
  BY <1>1, <1>5, IssueKept DEF IssueTokens
<1>6. CASE IssueUnsaved(c)
  <2>1. faults' \in Nat
    BY <1>1, <1>6 DEF IssueUnsaved
  <2> QED
    BY <1>6, <2>1, IssueKept DEF IssueUnsaved
<1>7. CASE QueryFails(c)
  <2>1. /\ call' = [call EXCEPT ![c] = [call[c] EXCEPT !.at = "refused"]]
        /\ UNCHANGED <<serverVars, cookie, tabVars>> /\ faults' \in Nat
    BY <1>1, <1>7 DEF QueryFails
  <2>2. lost' \in SUBSET Rows
    BY <1>1, <1>7 DEF QueryFails
  <2> QED
    BY <1>1, <1>2, <2>1, <2>2, OneCallKept DEF serverVars
<1>8. CASE EndStray(c)
  BY <1>1, <1>8, Values, OneCallKept DEF EndStray, serverVars
<1>9. CASE RefreshRefused(c)
  BY <1>1, <1>9, RedirectKept DEF RefreshRefused
<1>10. CASE LoseAnswer(c)
  BY <1>1, <1>10, RedirectKept DEF LoseAnswer
<1> QED
  BY <1>3, <1>4, <1>5, <1>6, <1>7, <1>8, <1>9, <1>10, RefreshOkKept DEF CallStep, CallFault

(* The pages, the clock and the password.                                  *)
LEMMA PageKept ==
  ASSUME SomeTabs, Inv, NEW t \in Tabs, Reload(t) \/ Load(t) PROVE Inv'
<1>1. TypeOK /\ RoomKept /\ CodeOfSomeone
  BY DEF Inv
<1>2. CASE Reload(t)
  <2>1. Unload(t) /\ UNCHANGED <<serverVars, cookie, disk, store, faults>>
    BY <1>2 DEF Reload
  <2>2. TypeOK'
    BY <1>1, <2>1, Unloads DEF TypeOK, ReqType, serverVars
  <2>3. Creating' = Creating
    BY <1>1, <2>1, Unloads DEF Creating
  <2>4. RoomKept'
    BY <1>1, <2>1, <2>3, LessRoomNeeded DEF serverVars
  <2>5. /\ \A u \in Tabs \ {t} : req'[u] = req[u] /\ form'[u] = form[u]
        /\ \A k \in Kinds : req'[t][k] = Idle
    BY <1>1, <2>1, Unloads
  <2>6. CodeOfSomeone'
    BY <1>1, <2>5, Values DEF CodeOfSomeone
  <2> QED
    BY <2>2, <2>4, <2>6 DEF Inv
<1>3. CASE Load(t)
  <2>1. TypeOK'
    BY <1>1, <1>3 DEF Load, TypeOK, RequireAuth, serverVars
  <2>2. RoomKept' /\ CodeOfSomeone'
    BY <1>1, <1>3, LessRoomNeeded DEF Load, serverVars, Creating, CodeOfSomeone
  <2> QED
    BY <2>1, <2>2 DEF Inv
<1> QED
  BY <1>2, <1>3

LEMMA RowKept ==
  ASSUME SomeTabs, Inv,
         \/ \E n \in 1..MaxSessions : Grow(n) \/ Lapse(n)
         \/ \E a \in Admins : UpdateAdminPassword(a) \/ RevokeAllAdminSessions(a)
  PROVE  Inv'
<1>1. TypeOK /\ RoomKept /\ CodeOfSomeone
  BY DEF Inv
<1>2. UNCHANGED <<issued, owner, since, rotator, call, cookie, tabVars, lost, faults>>
  BY DEF Grow, Lapse, UpdateAdminPassword, RevokeAllAdminSessions
<1>3. /\ age' \in [Rows -> {"fresh", "ending", "expired"}]
      /\ status' \in [Rows -> {"none", "live", "rotated", "revoked", "unsaved"}]
      /\ password' \in [Admins -> Nat] /\ changing' \in SUBSET Admins
  <2>1. CASE \E n \in 1..MaxSessions : Grow(n)
    BY <1>1, <2>1 DEF Grow, TypeOK
  <2>2. CASE \E n \in 1..MaxSessions : Lapse(n)
    BY <1>1, <2>2 DEF Lapse, TypeOK
  <2>3. CASE \E a \in Admins : UpdateAdminPassword(a)
    BY <1>1, <2>3 DEF UpdateAdminPassword, TypeOK
  <2>4. CASE \E a \in Admins : RevokeAllAdminSessions(a)
    BY <1>1, <2>4 DEF RevokeAllAdminSessions, TypeOK
  <2> QED
    BY <2>1, <2>2, <2>3, <2>4
<1>4. TypeOK'
  BY <1>1, <1>2, <1>3 DEF TypeOK, tabVars
<1>5. RoomKept' /\ CodeOfSomeone'
  BY <1>1, <1>2, LessRoomNeeded DEF Creating, CodeOfSomeone, tabVars
<1> QED
  BY <1>4, <1>5 DEF Inv

LEMMA StepKept == ASSUME SomeTabs, Inv, [Next]_vars PROVE Inv'
<1>1. CASE UNCHANGED vars
  BY <1>1 DEF vars, serverVars, Inv, TypeOK, RoomKept, Creating, CodeOfSomeone
<1>2. CASE Next
  BY <1>2, SendKept, AnswerKept, CallKept, PageKept, RowKept DEF Next
<1> QED
  BY <1>1, <1>2

(* Every variable keeps its kind; a row is never created past the bound,   *)
(* and a code is only checked for an administrator whose password was.     *)
THEOREM AdminTypeCorrect == ASSUME SomeTabs PROVE Spec => []TypeOK
<1>1. Init => Inv
  BY InitKept
<1>2. Inv /\ [Next]_vars => Inv'
  BY StepKept
<1>3. Inv => TypeOK
  BY DEF Inv
<1> QED
  BY <1>1, <1>2, <1>3, PTL DEF Spec
-----------------------------------------------------------------------------
(* The renewal implements RefreshFlight.                                   *)

(* A page keeps calls that are under way only, one at most, and one        *)
(* exactly when requests wait for it.                                      *)
FlightInv ==
  /\ \A c \in Calls : call[c].kept => call[c].at # "free"
  /\ \A t \in Tabs : \A c, d \in Kept(t) : c = d
  /\ \A t \in Tabs : Waiting(t) # {} <=> Kept(t) # {}

waitingOf == [t \in Tabs |-> Waiting(t)]
flyingOf  == {t \in Tabs : Kept(t) # {}}

(* A step that keeps the calls of every page and the requests behind them. *)
LEMMA Aside ==
  ASSUME FlightInv,
         \A c \in Calls : /\ call'[c].kept = call[c].kept
                          /\ call[c].kept => call'[c].tab = call[c].tab /\ call'[c].at # "free",
         \A t \in Tabs, k \in Kinds : req'[t][k].at = "waiting" <=> req[t][k].at = "waiting"
  PROVE  FlightInv' /\ UNCHANGED <<waitingOf, flyingOf>>
<1>1. ASSUME NEW t \in Tabs PROVE Kept(t)' = Kept(t)
  <2>1. \A c \in Calls : (call'[c].kept /\ call'[c].tab = t) <=> (call[c].kept /\ call[c].tab = t)
    OBVIOUS
  <2> QED
    BY <2>1 DEF Kept
<1>2. \A t \in Tabs : Waiting(t)' = Waiting(t)
  BY DEF Waiting
<1>3. \A c \in Calls : call'[c].kept => call'[c].at # "free"
  OBVIOUS
<1>4. \A t \in Tabs : \A c, d \in Kept(t)' : c = d
  BY <1>1 DEF FlightInv
<1>5. \A t \in Tabs : Waiting(t)' # {} <=> Kept(t)' # {}
  BY <1>1, <1>2 DEF FlightInv
<1>6. FlightInv'
  BY <1>3, <1>4, <1>5 DEF FlightInv
<1> QED
  BY <1>1, <1>2, <1>6 DEF waitingOf, flyingOf

(* A step that adds a request to the one call of its page, or makes both.  *)
LEMMA Joins ==
  ASSUME FlightInv, NEW t \in Tabs, NEW k \in Kinds, k \notin Waiting(t),
         \A u \in Tabs \ {t} : Kept(u)' = Kept(u) /\ Waiting(u)' = Waiting(u),
         Waiting(t)' = Waiting(t) \cup {k}, Kept(t)' # {},
         \A c, d \in Kept(t)' : c = d,
         \A c \in Calls : call'[c].kept => call'[c].at # "free"
  PROVE  FlightInv' /\ Flight!Join(t, k)
<1>1. FlightInv'
  <2>1. \A u \in Tabs : \A c, d \in Kept(u)' : c = d
    BY DEF FlightInv
  <2>2. \A u \in Tabs : Waiting(u)' # {} <=> Kept(u)' # {}
    BY DEF FlightInv
  <2> QED
    BY <2>1, <2>2 DEF FlightInv
<1>2. waitingOf' = [waitingOf EXCEPT ![t] = @ \cup {k}] /\ flyingOf' = flyingOf \cup {t}
  BY DEF waitingOf, flyingOf
<1> QED
  BY <1>1, <1>2 DEF Flight!Join, waitingOf, flyingOf

(* A step that ends the call of a page, and lets every request behind it   *)
(* go.                                                                     *)
LEMMA Lands ==
  ASSUME FlightInv, NEW t \in Tabs,
         \A u \in Tabs \ {t} : Kept(u)' = Kept(u) /\ Waiting(u)' = Waiting(u),
         Waiting(t)' = {}, Kept(t)' = {},
         \A c \in Calls : call'[c].kept => call'[c].at # "free"
  PROVE  /\ FlightInv'
         /\ Flight!Land(t) \/ UNCHANGED <<waitingOf, flyingOf>>
<1>1. FlightInv'
  BY DEF FlightInv
<1>2. waitingOf' = [waitingOf EXCEPT ![t] = {}] /\ flyingOf' = flyingOf \ {t}
  BY DEF waitingOf, flyingOf
<1>3. CASE t \in flyingOf
  BY <1>1, <1>2, <1>3 DEF Flight!Land, waitingOf, flyingOf
<1>4. CASE t \notin flyingOf
  <2>1. Waiting(t) = {}
    BY <1>4 DEF FlightInv, flyingOf
  <2>2. waitingOf' = waitingOf /\ flyingOf' = flyingOf
    BY <1>2, <1>4, <2>1 DEF waitingOf
  <2> QED
    BY <1>1, <2>2
<1> QED
  BY <1>3, <1>4

FlightStep == Flight!Next \/ UNCHANGED <<waitingOf, flyingOf>>

LEMMA SendFlight ==
  ASSUME SomeTabs, TypeOK, FlightInv, NEW t \in Tabs, NEW k \in Kinds, Send(t, k)
  PROVE  FlightInv' /\ FlightStep
<1>1. req \in [Tabs -> [Kinds -> ReqType]] /\ call \in [Calls -> CallType]
  BY DEF TypeOK, ReqType
<1>2. CASE SendRequest(t, k)
  <2>1. /\ req[t][k] = Idle /\ UNCHANGED call
        /\ req' = [req EXCEPT ![t][k] = [at |-> "sent", token |-> store[t].token]]
    BY <1>2 DEF SendRequest
  <2>2. \A u \in Tabs, j \in Kinds : req'[u][j].at = "waiting" <=> req[u][j].at = "waiting"
    BY <1>1, <2>1, Values
  <2> QED
    BY <2>1, <2>2, Aside DEF FlightInv, FlightStep
<1>3. ASSUME req[t][k] = Idle, req' = [req EXCEPT ![t][k] = [at |-> "waiting", token |-> 0]]
      PROVE  /\ k \notin Waiting(t) /\ Waiting(t)' = Waiting(t) \cup {k}
             /\ \A u \in Tabs \ {t} : Waiting(u)' = Waiting(u)
  BY <1>1, <1>3, Values DEF Waiting
<1>4. CASE JoinRefresh(t, k)
  <2>1. /\ req[t][k] = Idle /\ UNCHANGED call /\ Kept(t) # {}
        /\ req' = [req EXCEPT ![t][k] = [at |-> "waiting", token |-> 0]]
    BY <1>4 DEF JoinRefresh
  <2>2. \A u \in Tabs : Kept(u)' = Kept(u)
    BY <2>1 DEF Kept
  <2>3. FlightInv' /\ Flight!Join(t, k)
    BY <1>3, <2>1, <2>2, Joins DEF FlightInv
  <2> QED
    BY <2>3 DEF FlightStep, Flight!Next
<1>5. ASSUME NEW c \in Calls, StartRefresh(t, k, c) PROVE FlightInv' /\ FlightStep
  <2> DEFINE new == [at |-> "sent", tab |-> t, old |-> cookie, new |-> 0, kept |-> TRUE]
  <2>1. /\ req[t][k] = Idle /\ Kept(t) = {} /\ call[c].at = "free"
        /\ req' = [req EXCEPT ![t][k] = [at |-> "waiting", token |-> 0]]
        /\ call' = [call EXCEPT ![c] = new]
    BY <1>5 DEF StartRefresh
  <2>2. new.at = "sent" /\ new.tab = t /\ new.kept
    OBVIOUS
  <2> HIDE DEF new
  <2>3. ~call[c].kept
    BY <2>1 DEF FlightInv
  <2>4. call'[c] = new /\ \A d \in Calls \ {c} : call'[d] = call[d]
    BY <1>1, <2>1
  <2>5. Kept(t)' = {c} /\ \A u \in Tabs \ {t} : Kept(u)' = Kept(u)
    BY <2>1, <2>2, <2>3, <2>4 DEF Kept
  <2>6. \A d \in Calls : call'[d].kept => call'[d].at # "free"
    BY <2>2, <2>4 DEF FlightInv
  <2>7. FlightInv' /\ Flight!Join(t, k)
    BY <1>3, <2>1, <2>5, <2>6, Joins
  <2> QED
    BY <2>7 DEF FlightStep, Flight!Next
<1> QED
  BY <1>2, <1>4, <1>5 DEF Send

(* The redirect after requests that were sent came to nothing (no call     *)
(* ends), or after a call did, with every request behind it.               *)
LEMMA RedirectFlight ==
  ASSUME SomeTabs, TypeOK, FlightInv, NEW t \in Tabs, NEW rs, NEW cs \in SUBSET Calls,
         ClearAuthAndRedirect(t, rs, cs),
         \/ cs = {} /\ rs \cap Waiting(t) = {}
         \/ Kept(t) = cs /\ rs = Waiting(t)
  PROVE  FlightInv' /\ FlightStep
<1>1. req \in [Tabs -> [Kinds -> ReqType]] /\ call \in [Calls -> CallType]
  BY DEF TypeOK, ReqType
<1>2. /\ \A c \in Calls : call'[c].at = call[c].at /\ call'[c].tab = call[c].tab
      /\ \A u \in Tabs \ {t} : req'[u] = req[u]
      /\ \/ /\ \A c \in Calls : call'[c].kept = (call[c].kept /\ call[c].tab # t)
            /\ \A k \in Kinds : req'[t][k] = Idle
         \/ /\ \A c \in Calls : call'[c].kept = (call[c].kept /\ c \notin cs)
            /\ \A k \in Kinds : req'[t][k] = IF k \in rs THEN Idle ELSE req[t][k]
  BY Clears
<1>3. \A c \in Calls : call'[c].kept => call'[c].at # "free"
  BY <1>1, <1>2 DEF FlightInv, CallType
<1>4. \A u \in Tabs \ {t} : Waiting(u)' = Waiting(u)
  BY <1>2 DEF Waiting
<1>5. CASE /\ \A c \in Calls : call'[c].kept = (call[c].kept /\ call[c].tab # t)
           /\ \A k \in Kinds : req'[t][k] = Idle
  <2>1. Waiting(t)' = {}
    BY <1>5, Values DEF Waiting
  <2>2. Kept(t)' = {} /\ \A u \in Tabs \ {t} : Kept(u)' = Kept(u)
    BY <1>2, <1>5 DEF Kept
  <2> QED
    BY <1>3, <1>4, <2>1, <2>2, Lands DEF FlightStep, Flight!Next
<1>6. CASE /\ \A c \in Calls : call'[c].kept = (call[c].kept /\ c \notin cs)
           /\ \A k \in Kinds : req'[t][k] = IF k \in rs THEN Idle ELSE req[t][k]
  <2>1. CASE cs = {} /\ rs \cap Waiting(t) = {}
    <3>1. \A u \in Tabs, k \in Kinds : req'[u][k].at = "waiting" <=> req[u][k].at = "waiting"
      BY <1>2, <1>6, <2>1, Values DEF Waiting
    <3>2. \A c \in Calls : call'[c].kept = call[c].kept
      BY <1>1, <1>6, <2>1 DEF CallType
    <3> QED
      BY <1>2, <1>3, <3>1, <3>2, Aside DEF FlightStep
  <2>2. CASE Kept(t) = cs /\ rs = Waiting(t)
    <3>1. Waiting(t)' = {}
      BY <1>6, <2>2, Values DEF Waiting
    <3>2. Kept(t)' = {}
      BY <1>2, <1>6, <2>2 DEF Kept
    <3>3. \A u \in Tabs \ {t} : Kept(u)' = Kept(u)
      BY <1>2, <1>6, <2>2 DEF Kept
    <3> QED
      BY <1>3, <1>4, <3>1, <3>2, <3>3, Lands DEF FlightStep, Flight!Next
  <2> QED
    BY <2>1, <2>2
<1> QED
  BY <1>2, <1>5, <1>6

LEMMA AnswerFlight ==
  ASSUME SomeTabs, TypeOK, FlightInv, NEW t \in Tabs, NEW k \in Kinds, Answer(t, k)
  PROVE  FlightInv' /\ FlightStep
<1>1. req \in [Tabs -> [Kinds -> ReqType]] /\ Idle.at = "idle"
  BY Values DEF TypeOK, ReqType
<1>2. CASE Unauthorized(t, k)
  <2>1. {k} \cap Waiting(t) = {} /\ ClearAuthAndRedirect(t, {k}, {})
    BY <1>2 DEF Unauthorized, Waiting
  <2> QED
    BY <2>1, RedirectFlight
<1>3. CASE ~Unauthorized(t, k)
  <2>1. PICK r : /\ req' = [req EXCEPT ![t][k] = r] /\ r.at # "waiting"
                 /\ req[t][k].at # "waiting" /\ UNCHANGED call
    <3>1. CASE AnswerOther(t, k)
      BY <1>1, <3>1 DEF AnswerOther
    <3>2. CASE k = "me" /\ AnswerMe(t)
      BY <1>1, <3>2 DEF AnswerMe
    <3>3. CASE k = "login" /\ \E a \in Admins : AnswerLogin(t, a)
      BY <1>1, <3>3 DEF AnswerLogin
    <3>4. CASE k = "verify" /\ (VerifyOTPLogin(t) \/ AnswerVerify(t))
      BY <1>1, <3>4 DEF VerifyOTPLogin, AnswerVerify
    <3>5. CASE k = "logout" /\ AnswerLogout(t)
      BY <1>1, <3>5 DEF AnswerLogout
    <3> QED
      BY <1>3, <3>1, <3>2, <3>3, <3>4, <3>5 DEF Answer
  <2>2. \A u \in Tabs, j \in Kinds : req'[u][j].at = "waiting" <=> req[u][j].at = "waiting"
    BY <1>1, <2>1
  <2> QED
    BY <2>1, <2>2, Aside DEF FlightInv, FlightStep
<1> QED
  BY <1>2, <1>3

LEMMA CallFlight ==
  ASSUME SomeTabs, TypeOK, FlightInv, NEW c \in Calls, CallStep(c) \/ CallFault(c)
  PROVE  FlightInv' /\ FlightStep
<1>1. /\ req \in [Tabs -> [Kinds -> ReqType]] /\ call \in [Calls -> CallType]
      /\ call[c] \in CallType /\ call[c].tab \in Tabs
  BY DEF TypeOK, ReqType, CallType
<1>0. PICK t \in Tabs : t = call[c].tab
  BY <1>1
<1>2. call[c].kept => Kept(t) = {c}
  BY <1>0, <1>1 DEF FlightInv, Kept
(* The steps of the control plane, and the end of a call nobody keeps.     *)
<1>3. ASSUME NEW r \in CallType, call' = [call EXCEPT ![c] = r], UNCHANGED req,
             r.kept = call[c].kept, r.kept => r.tab = t /\ r.at # "free"
      PROVE  FlightInv' /\ FlightStep
  <2>1. call'[c] = r /\ \A d \in Calls \ {c} : call'[d] = call[d]
    BY <1>1, <1>3
  <2>2. \A d \in Calls : /\ call'[d].kept = call[d].kept
                         /\ call[d].kept => call'[d].tab = call[d].tab /\ call'[d].at # "free"
    BY <1>0, <1>3, <2>1 DEF FlightInv
  <2> QED
    BY <1>3, <2>2, Aside DEF FlightStep
<1>4. CASE GetSession(c) \/ RevokeSession(c) \/ QueryFails(c)
  <2>1. PICK at \in {"read", "revoked", "refused"} : call' = [call EXCEPT ![c].at = at]
    BY <1>4 DEF GetSession, RevokeSession, QueryFails
  <2>2. UNCHANGED req
    BY <1>4 DEF GetSession, RevokeSession, QueryFails, tabVars
  <2> DEFINE r == [call[c] EXCEPT !.at = at]
  <2>3. r \in CallType /\ r.kept = call[c].kept /\ r.tab = t /\ r.at # "free"
    BY <1>0, <1>1, <2>1 DEF CallType
  <2>4. call' = [call EXCEPT ![c] = r]
    BY <1>1, <2>1
  <2> QED
    BY <1>3, <2>2, <2>3, <2>4
<1>5. CASE IssueTokens(c) \/ IssueUnsaved(c)
  <2>1. call' = [call EXCEPT ![c] = [@ EXCEPT !.at = "ok", !.new = issued']] /\ UNCHANGED req
    BY <1>5 DEF IssueTokens, IssueUnsaved, tabVars
  <2> DEFINE r == [call[c] EXCEPT !.at = "ok", !.new = issued']
  <2>2. r.kept = call[c].kept /\ r.tab = t /\ r.at = "ok"
    BY <1>0, <1>1 DEF CallType
  <2>3. call'[c] = r /\ \A d \in Calls \ {c} : call'[d] = call[d]
    BY <1>1, <2>1
  <2>4. \A d \in Calls : /\ call'[d].kept = call[d].kept
                         /\ call[d].kept => call'[d].tab = call[d].tab /\ call'[d].at # "free"
    BY <1>0, <2>2, <2>3 DEF FlightInv
  <2> QED
    BY <2>1, <2>4, Aside DEF FlightStep
<1>6. CASE EndStray(c)
  <2>1. call' = [call EXCEPT ![c] = Free] /\ UNCHANGED req /\ call[c].kept = FALSE
    BY <1>1, <1>6 DEF EndStray, tabVars, CallType
  <2> QED
    BY <1>3, <2>1, Values
<1>7. CASE RefreshRefused(c) \/ LoseAnswer(c)
  <2>1. call[c].kept /\ ClearAuthAndRedirect(t, Waiting(t), {c})
    BY <1>0, <1>7 DEF RefreshRefused, LoseAnswer
  <2> QED
    BY <1>1, <1>2, <2>1, RedirectFlight
<1>8. CASE RefreshOk(c)
  <2> DEFINE sent == [at |-> "sent", token |-> call[c].new]
  <2>1. /\ call[c].kept /\ call' = [call EXCEPT ![c] = Free]
        /\ req' = [req EXCEPT ![t] = [k \in Kinds |-> IF @[k].at = "waiting" THEN sent ELSE @[k]]]
    BY <1>0, <1>8 DEF RefreshOk
  <2>2. sent.at = "sent"
    OBVIOUS
  <2> HIDE DEF sent
  <2>3. /\ \A u \in Tabs \ {t} : req'[u] = req[u]
        /\ \A k \in Kinds : req'[t][k].at # "waiting"
    BY <1>0, <1>1, <2>1, <2>2
  <2>4. call'[c] = Free /\ \A d \in Calls \ {c} : call'[d] = call[d]
    BY <1>1, <2>1
  <2>5. Waiting(t)' = {} /\ \A u \in Tabs \ {t} : Waiting(u)' = Waiting(u)
    BY <2>3 DEF Waiting
  <2>6. Kept(t)' = {} /\ \A u \in Tabs \ {t} : Kept(u)' = Kept(u)
    <3>1. call[c].kept /\ call[c].tab = t /\ call'[c].kept = FALSE
      BY <1>0, <2>1, <2>4, Values
    <3>2. \A d \in Calls \ {c} : call[d].kept => call[d].tab # t
      BY <1>2, <3>1 DEF Kept
    <3> QED
      BY <2>4, <3>1, <3>2 DEF Kept
  <2>7. \A d \in Calls : call'[d].kept => call'[d].at # "free"
    BY <2>4, Values DEF FlightInv
  <2> QED
    BY <1>1, <2>5, <2>6, <2>7, Lands DEF FlightStep, Flight!Next
<1> QED
  BY <1>4, <1>5, <1>6, <1>7, <1>8 DEF CallStep, CallFault

LEMMA StepFlight ==
  ASSUME SomeTabs, TypeOK, FlightInv, [Next]_vars PROVE FlightInv' /\ FlightStep
<1>1. ASSUME UNCHANGED <<call, req>> PROVE FlightInv' /\ FlightStep
  BY <1>1, Aside DEF FlightInv, FlightStep
<1>2. ASSUME NEW t \in Tabs, Reload(t) PROVE FlightInv' /\ FlightStep
  <2>1. Unload(t)
    BY <1>2 DEF Reload
  <2>2. /\ \A c \in Calls : /\ call'[c].at = call[c].at /\ call'[c].tab = call[c].tab
                            /\ call'[c].kept = (call[c].kept /\ call[c].tab # t)
        /\ \A u \in Tabs \ {t} : req'[u] = req[u]
        /\ \A k \in Kinds : req'[t][k].at = "idle"
    BY <2>1, Unloads, Values
  <2>3. Waiting(t)' = {} /\ \A u \in Tabs \ {t} : Waiting(u)' = Waiting(u)
    BY <2>2 DEF Waiting
  <2>4. Kept(t)' = {} /\ \A u \in Tabs \ {t} : Kept(u)' = Kept(u)
    BY <2>2 DEF Kept
  <2>5. \A c \in Calls : call'[c].kept => call'[c].at # "free"
    BY <2>2 DEF FlightInv, TypeOK, CallType
  <2> QED
    BY <2>3, <2>4, <2>5, Lands DEF FlightStep, Flight!Next
<1>3. ASSUME NEW t \in Tabs, Load(t) PROVE UNCHANGED <<call, req>>
  BY <1>3 DEF Load
<1>4. ASSUME NEW n \in 1..MaxSessions, Grow(n) \/ Lapse(n) PROVE UNCHANGED <<call, req>>
  BY <1>4 DEF Grow, Lapse, tabVars
<1>5. ASSUME NEW a \in Admins, UpdateAdminPassword(a) \/ RevokeAllAdminSessions(a)
      PROVE  UNCHANGED <<call, req>>
  BY <1>5 DEF UpdateAdminPassword, RevokeAllAdminSessions, tabVars
<1>6. CASE UNCHANGED vars
  BY <1>1, <1>6 DEF vars
<1> QED
  BY <1>1, <1>2, <1>3, <1>4, <1>5, <1>6, SendFlight, AnswerFlight, CallFlight DEF Next

LEMMA InitFlight == ASSUME SomeTabs, Init PROVE FlightInv /\ Flight!Init
<1>1. \A c \in Calls : call[c].kept = FALSE
  BY Values DEF Init
<1>2. \A t \in Tabs, k \in Kinds : req[t][k].at = "idle"
  BY Values DEF Init, NoReqs
<1>3. \A t \in Tabs : Kept(t) = {} /\ Waiting(t) = {}
  BY <1>1, <1>2 DEF Kept, Waiting
<1>4. FlightInv
  BY <1>1, <1>3 DEF FlightInv
<1>5. Flight!Init
  BY <1>3 DEF Flight!Init
<1> QED
  BY <1>4, <1>5

(* However the pages, the control plane and the network interleave, one    *)
(* call renews the token of a tab and lets every request behind it go: the *)
(* handling of refreshPromise implements RefreshFlight.                    *)
THEOREM SharesFlightHolds == ASSUME SomeTabs PROVE Spec => SharesFlight
<1>1. Init => FlightInv /\ Flight!Init
  BY InitFlight
<1>2. TypeOK /\ FlightInv /\ [Next]_vars => FlightInv'
  BY StepFlight
<1>3. TypeOK /\ FlightInv /\ [Next]_vars => [Flight!Next]_(Flight!flightVars)
  BY StepFlight DEF FlightStep, Flight!flightVars, waitingOf, flyingOf
<1> QED
  BY <1>1, <1>2, <1>3, AdminTypeCorrect, PTL DEF Spec, SharesFlight, Flight!Spec

(* A tab has one call to /auth/refresh under way at most, and exactly when *)
(* requests wait for it: no request waits for a promise that was dropped.  *)
THEOREM WaitersShareOneCallHolds == ASSUME SomeTabs PROVE Spec => []WaitersShareOneCall
<1>1. Init => FlightInv
  BY InitFlight
<1>2. TypeOK /\ FlightInv /\ [Next]_vars => FlightInv'
  BY StepFlight
<1>3. FlightInv => WaitersShareOneCall
  <2>1. ASSUME FlightInv, NEW t \in Tabs PROVE Cardinality(Kept(t)) <= 1
    <3>1. CASE Kept(t) = {}
      BY <3>1, FS_EmptySet
    <3>2. CASE \E c \in Calls : Kept(t) = {c}
      <4>1. PICK c \in Calls : Kept(t) = {c}
        BY <3>2
      <4>2. Cardinality({c}) = 1
        BY FS_Singleton
      <4> QED
        BY <4>1, <4>2
    <3> QED
      BY <2>1, <3>1, <3>2 DEF FlightInv, Kept
  <2> QED
    BY <2>1 DEF FlightInv, WaitersShareOneCall
<1> QED
  BY <1>1, <1>2, <1>3, AdminTypeCorrect, PTL DEF Spec
-----------------------------------------------------------------------------
(* The rows of a browser.  A row that was just created is on the way to a  *)
(* tab, by the answer of a renewal or of a login, and becomes the cookie   *)
(* once at most: until then no call has it as its old row, so nothing      *)
(* rotates it, and a row that was the cookie never comes back.             *)

Answered(t) == "verify" \in Kinds /\ req[t]["verify"].at = "answered"
Brought(t)  == req[t]["verify"].token
Renewed(c)  == call[c].at = "ok"

NewRow(n) ==
  /\ n \in 1..issued /\ n # cookie /\ status[n] # "rotated"
  /\ \A c \in Calls : call[c].old # n

RowsNew ==
  /\ cookie <= issued
  /\ \A c \in Calls : call[c].old <= issued
  /\ \A c \in Calls : Renewed(c) => NewRow(call[c].new)
  /\ \A t \in Tabs : Answered(t) => NewRow(Brought(t))
  /\ \A c, d \in Calls : Renewed(c) /\ Renewed(d) /\ call[c].new = call[d].new => c = d
  /\ \A t, u \in Tabs : Answered(t) /\ Answered(u) /\ Brought(t) = Brought(u) => t = u
  /\ \A c \in Calls, t \in Tabs : Renewed(c) /\ Answered(t) => call[c].new # Brought(t)

(* A call that nobody waits for any more has its row among the lost ones.  *)
LostWhenDropped ==
  \A c \in Calls : call[c].at # "free" => call[c].kept \/ call[c].old \in lost

(* The call that rotated the cookie's row, and brings another.             *)
ReplacedBy(c) ==
  /\ call[c].kept /\ call[c].old = cookie /\ call[c].at \in {"revoked", "ok"}
  /\ rotator[cookie] = {call[c].tab}

CookieRotated ==
  status[cookie] = "rotated" => cookie \in lost \/ \E c \in Calls : ReplacedBy(c)

(* A row that a call of this very tab rotated was rotated by this call.    *)
OwnRotation ==
  \A c \in Calls :
    call[c].kept /\ status[call[c].old] = "rotated" /\ call[c].tab \in rotator[call[c].old] =>
      call[c].old \in lost \/ call[c].at \in {"revoked", "ok"}

TokenInv == RowsNew /\ LostWhenDropped /\ CookieRotated /\ OwnRotation

(* What the calls and the tabs are, and are after a step.                  *)
LEMMA CallFields ==
  ASSUME TypeOK, NEW c \in Calls
  PROVE  /\ call[c].at \in {"free", "sent", "read", "revoked", "ok", "refused"}
         /\ call[c].tab \in Tabs /\ call[c].old \in Rows /\ call[c].new \in Rows
         /\ call[c].kept \in BOOLEAN /\ cookie \in Rows /\ issued \in Rows
BY DEF TypeOK, CallType

(* A call that its tab has forgotten.                                      *)
Dropped(r) == [r EXCEPT !.kept = FALSE]

LEMMA DroppedFields ==
  ASSUME NEW r \in CallType
  PROVE  /\ Dropped(r).at = r.at /\ Dropped(r).tab = r.tab
         /\ Dropped(r).old = r.old /\ Dropped(r).new = r.new /\ Dropped(r).kept = FALSE
BY DEF Dropped, CallType

(* The redirect and the page that goes away leave the calls where they     *)
(* are, lose the rows of those they drop and end requests only.            *)
LEMMA Drops ==
  ASSUME SomeTabs, TypeOK, NEW t \in Tabs,
         \/ Unload(t)
         \/ \E rs \in SUBSET Kinds, cs \in SUBSET Calls : ClearAuthAndRedirect(t, rs, cs)
  PROVE  /\ lost \subseteq lost'
         /\ \A c \in Calls : /\ call'[c].at = call[c].at /\ call'[c].tab = call[c].tab
                             /\ call'[c].old = call[c].old /\ call'[c].new = call[c].new
                             /\ call'[c].kept => call[c].kept
                             /\ call[c].kept /\ ~call'[c].kept => call[c].old \in lost'
         /\ \A u \in Tabs, k \in Kinds : req'[u][k] \in {req[u][k], Idle}
<1>1. /\ call \in [Calls -> CallType] /\ req \in [Tabs -> [Kinds -> ReqType]]
  BY DEF TypeOK, ReqType
<1>2. CASE Unload(t)
  <2>1. call' = [c \in Calls |-> [call[c] EXCEPT !.kept = @ /\ call[c].tab # t]]
    BY <1>2 DEF Unload
  <2>2. lost' = lost \cup Abandoned(t)
    BY <1>2 DEF Unload
  <2>3. \A c \in Calls :
          LET r == [call[c] EXCEPT !.kept = @ /\ call[c].tab # t] IN
          /\ r.at = call[c].at /\ r.tab = call[c].tab /\ r.old = call[c].old /\ r.new = call[c].new
          /\ r.kept = (call[c].kept /\ call[c].tab # t)
    BY <1>1 DEF CallType
  <2>4. \A c \in Calls : /\ call'[c].at = call[c].at /\ call'[c].tab = call[c].tab
                         /\ call'[c].old = call[c].old /\ call'[c].new = call[c].new
                         /\ call'[c].kept = (call[c].kept /\ call[c].tab # t)
    BY <2>1, <2>3
  <2>5. \A c \in Calls : call[c].kept /\ call[c].tab = t => call[c].old \in lost'
    BY <2>2 DEF Abandoned, Kept
  <2>6. \A u \in Tabs, k \in Kinds : req'[u][k] \in {req[u][k], Idle}
    BY <1>1, <1>2 DEF Unload, NoReqs
  <2> QED
    BY <2>2, <2>4, <2>5, <2>6
<1>3. CASE ~Unload(t)
  <2>1. PICK rs \in SUBSET Kinds, cs \in SUBSET Calls :
          /\ req' = [req EXCEPT ![t] = [k \in Kinds |-> IF k \in rs THEN Idle ELSE @[k]]]
          /\ call' = [c \in Calls |-> IF c \in cs THEN [call[c] EXCEPT !.kept = FALSE] ELSE call[c]]
          /\ lost' = lost \cup {call[c].old : c \in cs}
    BY <1>3 DEF ClearAuthAndRedirect
  <2>3. ASSUME NEW c \in Calls
        PROVE  /\ call'[c].at = call[c].at /\ call'[c].tab = call[c].tab
               /\ call'[c].old = call[c].old /\ call'[c].new = call[c].new
               /\ call'[c].kept = (call[c].kept /\ c \notin cs)
    <3>1. call[c] \in CallType /\ call[c].kept \in BOOLEAN
      BY <1>1 DEF CallType
    <3>2. CASE c \in cs
      <4>1. call'[c] = Dropped(call[c])
        BY <2>1, <3>2 DEF Dropped
      <4>2. /\ call'[c].at = call[c].at /\ call'[c].tab = call[c].tab
            /\ call'[c].old = call[c].old /\ call'[c].new = call[c].new
            /\ call'[c].kept = FALSE
        BY DroppedFields, <3>1, <4>1, Zenon
      <4> QED
        BY <3>2, <4>2
    <3>3. CASE c \notin cs
      <4>1. call'[c] = call[c]
        BY <2>1, <3>3
      <4> QED
        BY <3>1, <3>3, <4>1
    <3> QED
      BY <3>2, <3>3
  <2>4. \A c \in cs : call[c].old \in lost'
    BY <2>1
  <2>5. \A u \in Tabs, k \in Kinds : req'[u][k] \in {req[u][k], Idle}
    BY <1>1, <2>1
  <2> QED
    BY <2>1, <2>3, <2>4, <2>5
<1> QED
  BY <1>2, <1>3

(* A step that creates, rotates and starts nothing, and brings no row to a *)
(* tab; it may drop calls.                                                 *)
LEMMA QuietTokens ==
  ASSUME TypeOK, TokenInv, lost \subseteq lost', UNCHANGED <<issued, rotator, cookie>>,
         \A n \in Rows : status'[n] = "rotated" => status[n] = "rotated",
         \A c \in Calls : /\ call'[c].at = call[c].at /\ call'[c].tab = call[c].tab
                          /\ call'[c].old = call[c].old /\ call'[c].new = call[c].new
                          /\ call'[c].kept => call[c].kept
                          /\ call[c].kept /\ ~call'[c].kept => call[c].old \in lost',
         \A t \in Tabs : Answered(t)' => Answered(t) /\ Brought(t)' = Brought(t)
  PROVE  TokenInv'
<1>1. \A n \in Rows : NewRow(n) => NewRow(n)'
  BY DEF NewRow, TokenInv
<1>2. /\ \A c \in Calls : Renewed(c)' <=> Renewed(c)
      /\ \A c \in Calls : call[c].new \in Rows
      /\ \A t \in Tabs : Answered(t) => Brought(t) \in Rows
  <2>1. \A c \in Calls : call[c].new \in Rows
    BY CallFields
  <2>2. \A t \in Tabs : Answered(t) => Brought(t) \in Rows
    BY DEF TypeOK, Answered, Brought
  <2> QED
    BY <2>1, <2>2 DEF Renewed
<1>3. RowsNew'
  BY <1>1, <1>2 DEF RowsNew, TokenInv
<1>4. LostWhenDropped'
  BY DEF LostWhenDropped, TokenInv
<1>5. \A c \in Calls : ReplacedBy(c) => ReplacedBy(c)' \/ cookie \in lost'
  BY DEF ReplacedBy
<1>6. CookieRotated'
  BY <1>5, CallFields DEF CookieRotated, TokenInv, TypeOK
<1>7. OwnRotation'
  BY CallFields DEF OwnRotation, TokenInv
<1> QED
  BY <1>3, <1>4, <1>6, <1>7 DEF TokenInv

(* The redirect, or a page that goes away.                                 *)
LEMMA DropTokens ==
  ASSUME SomeTabs, TypeOK, TokenInv, NEW t \in Tabs,
         \/ Unload(t)
         \/ \E rs \in SUBSET Kinds, cs \in SUBSET Calls : ClearAuthAndRedirect(t, rs, cs),
         UNCHANGED <<serverVars, cookie>>
  PROVE  TokenInv'
<1>1. \A u \in Tabs : Answered(u)' => Answered(u) /\ Brought(u)' = Brought(u)
  BY Drops, Values DEF Answered, Brought
<1>2. UNCHANGED <<issued, rotator, cookie, status>>
  BY DEF serverVars
<1> QED
  BY <1>1, <1>2, Drops, QuietTokens

(* The INSERT of a row: nothing knows its number.                          *)
LEMMA NextRow ==
  ASSUME TypeOK, TypeOK', TokenInv, NEW a, NEW p, NEW st \in {"live", "unsaved"},
         NEW row, row = issued',
         CreateSession(a, p, st), UNCHANGED <<cookie, rotator>>,
         \A c \in Calls : call'[c].old = call[c].old
  PROVE  /\ NewRow(row)' /\ row \in Rows
         /\ \A n \in Rows : NewRow(n) => NewRow(n)' /\ n # row
         /\ cookie' <= issued' /\ \A c \in Calls : call'[c].old <= issued'
         /\ \A n \in Rows : status'[n] = "rotated" => status[n] = "rotated"
<1>1. issued' = issued + 1 /\ issued \in Nat /\ issued' \in Rows
  BY Zero DEF CreateSession, TypeOK, Rows
<1>2. status' = [status EXCEPT ![issued'] = st]
  BY DEF CreateSession
<1>3. status'[issued'] = st /\ \A n \in Rows : n # row => status'[n] = status[n]
  BY <1>1, <1>2 DEF TypeOK
<1>4. /\ cookie <= issued /\ cookie \in Nat
      /\ \A c \in Calls : call[c].old <= issued /\ call[c].old \in Nat
  <2>1. cookie <= issued /\ \A c \in Calls : call[c].old <= issued
    BY DEF TokenInv, RowsNew
  <2>2. cookie \in Rows /\ \A c \in Calls : call[c].old \in Rows
    BY CallFields DEF TypeOK
  <2>3. Rows \subseteq Nat
    BY Zero DEF Rows
  <2> QED
    BY <2>1, <2>2, <2>3
<1>5. cookie' <= issued' /\ \A c \in Calls : call'[c].old <= issued'
  BY <1>1, <1>4
<1>6. NewRow(row)'
  <2>1. row # cookie' /\ \A c \in Calls : call'[c].old # row
    BY <1>1, <1>4
  <2>2. status'[row] # "rotated" /\ row \in 1..issued'
    BY <1>1, <1>3
  <2> QED
    BY <2>1, <2>2 DEF NewRow
<1>7. \A n \in Rows : NewRow(n) => NewRow(n)' /\ n # row
  <2>1. \A n \in Rows : NewRow(n) => n \in 1..issued' /\ n # row /\ status'[n] = status[n]
    BY <1>1, <1>3 DEF NewRow
  <2> QED
    BY <2>1 DEF NewRow
<1>8. \A n \in Rows : status'[n] = "rotated" => status[n] = "rotated"
  BY <1>3
<1> QED
  BY <1>1, <1>5, <1>6, <1>7, <1>8

(* The code of a login was right, and a row was created for it.            *)
LEMMA VerifyTokens ==
  ASSUME TypeOK, TypeOK', TokenInv, NEW t \in Tabs, VerifyOTPLogin(t), "verify" \in Kinds
  PROVE  TokenInv'
<1>1. /\ CreateSession(form[t], password[form[t]], "live")
      /\ req[t]["verify"].at = "sent"
      /\ req' = [req EXCEPT ![t]["verify"] = [at |-> "answered", token |-> issued']]
      /\ UNCHANGED <<rotator, call, cookie, lost>>
  BY DEF VerifyOTPLogin
<1>0. PICK row : row = issued'
  OBVIOUS
<1>2. /\ NewRow(row)' /\ row \in Rows
      /\ \A n \in Rows : NewRow(n) => NewRow(n)' /\ n # row
      /\ cookie' <= issued' /\ \A c \in Calls : call'[c].old <= issued'
      /\ \A n \in Rows : status'[n] = "rotated" => status[n] = "rotated"
  BY <1>0, <1>1, NextRow
<1>3. /\ Brought(t)' = row /\ Answered(t)'
      /\ \A u \in Tabs \ {t} : Brought(u)' = Brought(u) /\ (Answered(u)' <=> Answered(u))
  BY <1>0, <1>1 DEF Brought, Answered, TypeOK
<1>4. \A c \in Calls : /\ call'[c] = call[c] /\ (Renewed(c)' <=> Renewed(c))
                       /\ call[c].new \in Rows
  BY <1>1, CallFields DEF Renewed
<1>5. \A u \in Tabs : Answered(u) => Brought(u) \in Rows
  BY DEF TypeOK, Answered, Brought
<1>6. RowsNew'
  <2>1. cookie' <= issued' /\ \A c \in Calls : call'[c].old <= issued'
    BY <1>2
  <2>2. \A c \in Calls : Renewed(c)' => NewRow(call[c].new)' /\ call[c].new # row
    BY <1>2, <1>4 DEF TokenInv, RowsNew
  <2>3. \A u \in Tabs \ {t} : Answered(u)' => NewRow(Brought(u))' /\ Brought(u) # row
    BY <1>2, <1>3, <1>5 DEF TokenInv, RowsNew
  <2>4. ASSUME NEW u \in Tabs, Answered(u)' PROVE NewRow(Brought(u))'
    <3>1. CASE u = t
      <4>1. Brought(u)' = row
        BY <1>3, <3>1
      <4> QED
        BY <1>2, <4>1 DEF NewRow
    <3>2. CASE u # t
      <4>1. Brought(u)' = Brought(u) /\ NewRow(Brought(u))'
        BY <1>3, <2>3, <2>4, <3>2
      <4> QED
        BY <4>1
    <3> QED
      BY <3>1, <3>2
  <2>5. \A u, v \in Tabs : Answered(u)' /\ Answered(v)' /\ Brought(u)' = Brought(v)' => u = v
    BY <1>3, <2>3 DEF TokenInv, RowsNew
  <2>6. \A c \in Calls, u \in Tabs : Renewed(c)' /\ Answered(u)' => call'[c].new # Brought(u)'
    BY <1>3, <1>4, <2>2 DEF TokenInv, RowsNew
  <2>7. \A c, d \in Calls : Renewed(c)' /\ Renewed(d)' /\ call'[c].new = call'[d].new => c = d
    BY <1>4 DEF TokenInv, RowsNew
  <2>8. \A c \in Calls : Renewed(c)' => NewRow(call[c].new)'
    BY <2>2
  <2> QED
    BY <1>1, <2>1, <2>4, <2>5, <2>6, <2>7, <2>8 DEF RowsNew
<1>7. LostWhenDropped'
  BY <1>1 DEF TokenInv, LostWhenDropped
<1>8. CookieRotated'
  BY <1>1, <1>2 DEF TokenInv, CookieRotated, ReplacedBy, TypeOK
<1>9. OwnRotation'
  BY <1>1, <1>2, CallFields DEF TokenInv, OwnRotation
<1> QED
  BY <1>6, <1>7, <1>8, <1>9 DEF TokenInv

(* A row that was on the way becomes the cookie: the row of a login.       *)
LEMMA SignInTokens ==
  ASSUME SomeTabs, TypeOK, TypeOK', TokenInv, NEW t \in Tabs, AnswerVerify(t), "verify" \in Kinds
  PROVE  TokenInv'
<1>1. /\ Answered(t) /\ cookie' = Brought(t)
      /\ req' = [req EXCEPT ![t]["verify"] = Idle]
      /\ UNCHANGED <<serverVars, call, lost>>
  BY DEF AnswerVerify, Answered, Brought
<1>2. UNCHANGED <<issued, status, rotator>>
  BY <1>1 DEF serverVars
<1>3. /\ ~Answered(t)'
      /\ \A u \in Tabs \ {t} : Brought(u)' = Brought(u) /\ (Answered(u)' <=> Answered(u))
  BY <1>1, Values DEF Brought, Answered, TypeOK
<1>4. NewRow(Brought(t)) /\ \A n : NewRow(n) /\ n # Brought(t) => NewRow(n)'
  BY <1>1, <1>2 DEF TokenInv, RowsNew, NewRow
<1>5. RowsNew'
  <2>1. cookie' <= issued' /\ \A c \in Calls : call'[c].old <= issued'
    BY <1>1, <1>2, <1>4 DEF TokenInv, RowsNew, NewRow
  <2>2. \A c \in Calls : Renewed(c)' => NewRow(call[c].new)'
    <3>1. \A c \in Calls : Renewed(c)' => NewRow(call[c].new) /\ call[c].new # Brought(t)
      BY <1>1 DEF TokenInv, RowsNew, Renewed
    <3> QED
      BY <1>1, <1>4, <3>1 DEF NewRow
  <2>3. \A u \in Tabs : Answered(u)' => NewRow(Brought(u))'
    BY <1>1, <1>3, <1>4 DEF TokenInv, RowsNew
  <2>4. \A u, v \in Tabs : Answered(u)' /\ Answered(v)' /\ Brought(u)' = Brought(v)' => u = v
    BY <1>3 DEF TokenInv, RowsNew
  <2>5. \A c \in Calls, u \in Tabs : Renewed(c)' /\ Answered(u)' => call'[c].new # Brought(u)'
    BY <1>1, <1>3 DEF TokenInv, RowsNew, Renewed
  <2>6. \A c, d \in Calls : Renewed(c)' /\ Renewed(d)' /\ call'[c].new = call'[d].new => c = d
    BY <1>1 DEF TokenInv, RowsNew, Renewed
  <2> QED
    BY <2>1, <2>2, <2>3, <2>4, <2>5, <2>6 DEF RowsNew
<1>6. LostWhenDropped'
  BY <1>1 DEF TokenInv, LostWhenDropped
<1>7. CookieRotated'
  BY <1>1, <1>2, <1>4 DEF CookieRotated, NewRow
<1>8. OwnRotation'
  BY <1>1, <1>2 DEF TokenInv, OwnRotation
<1> QED
  BY <1>5, <1>6, <1>7, <1>8 DEF TokenInv

(* A call that takes a step of its own and keeps its rows, or ends.        *)
LEMMA OneCallRows ==
  ASSUME TypeOK, RowsNew, NEW c \in Calls, NEW r \in CallType, call' = [call EXCEPT ![c] = r],
         r.old \in {0, call[c].old}, r.at = "ok" => Renewed(c) /\ r.new = call[c].new,
         \A n \in Rows : NewRow(n) => status'[n] # "rotated",
         UNCHANGED <<issued, cookie, req>>
  PROVE  RowsNew'
<1>1. call'[c] = r /\ \A d \in Calls \ {c} : call'[d] = call[d]
  BY DEF TypeOK
<1>2. \A d \in Calls : /\ call'[d].old \in {0, call[d].old}
                       /\ Renewed(d)' => Renewed(d) /\ call'[d].new = call[d].new
  BY <1>1 DEF Renewed
<1>3. \A u \in Tabs : (Answered(u)' <=> Answered(u)) /\ Brought(u)' = Brought(u)
  BY DEF Answered, Brought
<1>4. \A n \in Rows : NewRow(n) => NewRow(n)'
  BY <1>2 DEF NewRow
<1>5. cookie' <= issued' /\ \A d \in Calls : call'[d].old <= issued'
  BY <1>2, Zero DEF RowsNew, TypeOK, Rows
<1>6. \A d \in Calls : call[d].new \in Rows
  BY CallFields
<1>7. \A u \in Tabs : Answered(u) => Brought(u) \in Rows
  BY DEF TypeOK, Answered, Brought
<1>8. \A d \in Calls : Renewed(d)' => NewRow(call[d].new)' /\ call'[d].new = call[d].new
  BY <1>2, <1>4, <1>6 DEF RowsNew
<1>9. \A u \in Tabs : Answered(u)' => NewRow(Brought(u))'
  BY <1>3, <1>4, <1>7 DEF RowsNew
<1>10. \A d, e \in Calls : Renewed(d)' /\ Renewed(e)' /\ call'[d].new = call'[e].new => d = e
  BY <1>2 DEF RowsNew
<1>11. \A d \in Calls, u \in Tabs : Renewed(d)' /\ Answered(u)' => call'[d].new # Brought(u)'
  BY <1>2, <1>3 DEF RowsNew
<1>12. \A u, v \in Tabs : Answered(u)' /\ Answered(v)' /\ Brought(u)' = Brought(v)' => u = v
  BY <1>3 DEF RowsNew
<1> QED
  BY <1>5, <1>8, <1>9, <1>10, <1>11, <1>12 DEF RowsNew

(* A renewal starts with the cookie as its old row.  Had this tab rotated  *)
(* it, its call would still be kept.                                       *)
LEMMA StartTokens ==
  ASSUME TypeOK, TokenInv, NEW t \in Tabs, NEW k \in Kinds, NEW c \in Calls, StartRefresh(t, k, c)
  PROVE  TokenInv'
<1> DEFINE new == [at |-> "sent", tab |-> t, old |-> cookie, new |-> 0, kept |-> TRUE]
<1>1. /\ call[c].at = "free" /\ Kept(t) = {} /\ call' = [call EXCEPT ![c] = new]
      /\ req[t][k] = Idle /\ req' = [req EXCEPT ![t][k] = [at |-> "waiting", token |-> 0]]
      /\ UNCHANGED <<serverVars, cookie, lost>>
  BY DEF StartRefresh
<1>2. new.at = "sent" /\ new.tab = t /\ new.old = cookie /\ new.kept
  OBVIOUS
<1> HIDE DEF new
<1>3. call'[c] = new /\ \A d \in Calls \ {c} : call'[d] = call[d]
  BY <1>1 DEF TypeOK
<1>4. UNCHANGED <<issued, status, rotator, cookie, lost>>
  BY <1>1 DEF serverVars
<1>5. \A u \in Tabs : Answered(u)' => Answered(u) /\ Brought(u)' = Brought(u)
  BY <1>1 DEF Answered, Brought, TypeOK
<1>6. \A d \in Calls : Renewed(d)' => Renewed(d) /\ call'[d] = call[d]
  BY <1>2, <1>3 DEF Renewed
<1>7. \A n : NewRow(n) => NewRow(n)'
  BY <1>2, <1>3, <1>4 DEF NewRow
<1>8. RowsNew'
  <2>1. cookie' <= issued' /\ \A d \in Calls : call'[d].old <= issued'
    BY <1>2, <1>3, <1>4 DEF TokenInv, RowsNew
  <2>2. \A d \in Calls : Renewed(d)' => NewRow(call[d].new)' /\ call'[d].new = call[d].new
    BY <1>6, <1>7 DEF TokenInv, RowsNew
  <2>3. \A u \in Tabs : Answered(u)' => NewRow(Brought(u))'
    BY <1>5, <1>7 DEF TokenInv, RowsNew
  <2> QED
    BY <1>5, <1>6, <2>1, <2>2, <2>3 DEF TokenInv, RowsNew
<1>9. LostWhenDropped'
  BY <1>2, <1>3, <1>4 DEF TokenInv, LostWhenDropped
<1>10. CookieRotated'
  <2>1. \A d \in Calls : ReplacedBy(d) => ReplacedBy(d)'
    BY <1>1, <1>3, <1>4 DEF ReplacedBy
  <2> QED
    BY <1>4, <2>1 DEF TokenInv, CookieRotated
<1>11. status[cookie] = "rotated" /\ t \in rotator[cookie] => cookie \in lost
  BY <1>1 DEF TokenInv, CookieRotated, ReplacedBy, Kept
<1>12. OwnRotation'
  BY <1>2, <1>3, <1>4, <1>11 DEF TokenInv, OwnRotation
<1> QED
  BY <1>8, <1>9, <1>10, <1>12 DEF TokenInv

(* A query that only reads, or fails: after the UPDATE, the row is lost.   *)
LEMMA QueryTokens ==
  ASSUME TypeOK, TokenInv, NEW c \in Calls, GetSession(c) \/ QueryFails(c)
  PROVE  TokenInv'
<1>1. PICK at \in {"read", "refused"} : call' = [call EXCEPT ![c].at = at]
  BY DEF GetSession, QueryFails
<1> DEFINE r == [call[c] EXCEPT !.at = at]
<1>2. /\ r \in CallType /\ r.at = at /\ r.tab = call[c].tab
      /\ r.old = call[c].old /\ r.new = call[c].new /\ r.kept = call[c].kept
  <2>1. call[c] \in CallType /\ at \in {"read", "refused"}
    BY <1>1 DEF TypeOK
  <2> QED
    BY <2>1 DEF CallType
<1>3. call' = [call EXCEPT ![c] = r]
  BY <1>1 DEF TypeOK
<1> HIDE DEF r
<1>4. call'[c] = r /\ \A d \in Calls \ {c} : call'[d] = call[d]
  BY <1>3 DEF TypeOK
<1>5. UNCHANGED <<issued, status, rotator, cookie, req>> /\ lost \subseteq lost'
  BY DEF GetSession, QueryFails, serverVars, tabVars
<1>6. /\ call[c].at \in {"sent", "read", "revoked"}
      /\ call[c].at = "revoked" => call[c].old \in lost'
  BY DEF GetSession, QueryFails
<1>7. RowsNew'
  BY <1>2, <1>3, <1>5, OneCallRows DEF TokenInv, NewRow
<1>8. LostWhenDropped'
  BY <1>2, <1>4, <1>5, <1>6 DEF TokenInv, LostWhenDropped
<1>9. CookieRotated'
  <2>1. \A d \in Calls : ReplacedBy(d) => ReplacedBy(d)' \/ cookie \in lost'
    BY <1>4, <1>5, <1>6 DEF ReplacedBy
  <2> QED
    BY <1>5, <2>1 DEF TokenInv, CookieRotated
<1>10. OwnRotation'
  BY <1>2, <1>4, <1>5, <1>6 DEF TokenInv, OwnRotation
<1> QED
  BY <1>7, <1>8, <1>9, <1>10 DEF TokenInv

(* The UPDATE: it rotates the row of its own call, for its own tab; no     *)
(* other call of the tab is kept.                                          *)
LEMMA RevokeTokens ==
  ASSUME TypeOK, TokenInv, FlightInv, NEW c \in Calls, RevokeSession(c)
  PROVE  TokenInv'
<1> DEFINE r == [call[c] EXCEPT !.at = "revoked"]
<1>1. /\ r \in CallType /\ r.at = "revoked" /\ r.tab = call[c].tab
      /\ r.old = call[c].old /\ r.new = call[c].new /\ r.kept = call[c].kept
  <2>1. call[c] \in CallType
    BY DEF TypeOK
  <2>2. \A q \in CallType :
          LET u == [q EXCEPT !.at = "revoked"] IN
          /\ u \in CallType /\ u.at = "revoked" /\ u.tab = q.tab
          /\ u.old = q.old /\ u.new = q.new /\ u.kept = q.kept
    BY DEF CallType
  <2> QED
    BY <2>1, <2>2
<1>2. call[c].at = "read" /\ call' = [call EXCEPT ![c] = r]
  BY DEF RevokeSession, TypeOK
<1> HIDE DEF r
<1>3. call'[c] = r /\ \A d \in Calls \ {c} : call'[d] = call[d]
  BY <1>2 DEF TypeOK
<1>4. UNCHANGED <<issued, cookie, req, lost>>
  BY DEF RevokeSession, tabVars
<1>0. PICK n \in Rows : n = call[c].old
  BY CallFields
<1>5. \/ status' = status /\ rotator' = rotator
      \/ /\ status' = [status EXCEPT ![n] = "rotated"]
         /\ rotator' = [rotator EXCEPT ![n] = {call[c].tab}]
  BY <1>0 DEF RevokeSession
<1>6. /\ \A m \in Rows \ {n} : status'[m] = status[m] /\ rotator'[m] = rotator[m]
      /\ \/ status'[n] = status[n] /\ rotator'[n] = rotator[n]
         \/ status'[n] = "rotated" /\ rotator'[n] = {call[c].tab}
  BY <1>5 DEF TypeOK
<1>7. RowsNew'
  <2>1. \A m \in Rows : NewRow(m) => status'[m] # "rotated"
    BY <1>0, <1>6 DEF NewRow
  <2> QED
    BY <1>1, <1>2, <1>4, <2>1, OneCallRows DEF TokenInv
<1>8. LostWhenDropped'
  BY <1>1, <1>2, <1>3, <1>4 DEF TokenInv, LostWhenDropped
<1>9. call[c].kept \/ n \in lost
  BY <1>0, <1>2 DEF TokenInv, LostWhenDropped
<1>10. CookieRotated'
  <2>1. \A d \in Calls : call[d].kept /\ call[d].old = cookie /\ call[d].at \in {"revoked", "ok"} =>
          d # c /\ call'[d] = call[d]
    BY <1>2, <1>3
  <2>2. CASE cookie = n /\ status'[n] = "rotated" /\ rotator'[n] = {call[c].tab}
    <3>1. call[c].kept => ReplacedBy(c)'
      BY <1>0, <1>1, <1>3, <1>4, <2>2 DEF ReplacedBy
    <3> QED
      BY <1>4, <1>9, <2>2, <3>1 DEF CookieRotated
  <2>3. CASE status'[cookie] = status[cookie] /\ rotator'[cookie] = rotator[cookie]
    <3>1. \A d \in Calls : ReplacedBy(d) => ReplacedBy(d)'
      BY <1>4, <2>1, <2>3 DEF ReplacedBy
    <3> QED
      BY <1>4, <2>3, <3>1 DEF TokenInv, CookieRotated
  <2> QED
    BY <1>6, <2>2, <2>3 DEF TypeOK
<1>11. OwnRotation'
  <2> SUFFICES ASSUME NEW d \in Calls, call'[d].kept, status'[call'[d].old] = "rotated",
                      call'[d].tab \in rotator'[call'[d].old]
               PROVE  call'[d].old \in lost \/ call'[d].at \in {"revoked", "ok"}
    BY <1>4 DEF OwnRotation
  <2>1. CASE d = c
    BY <1>1, <1>3, <2>1
  <2>2. CASE d # c /\ status'[call[d].old] = status[call[d].old]
             /\ rotator'[call[d].old] = rotator[call[d].old]
    BY <1>3, <2>2 DEF TokenInv, OwnRotation
  <2>3. CASE d # c /\ call[d].old = n /\ rotator'[n] = {call[c].tab}
    <3>1. call[d].tab = call[c].tab /\ call[d].kept
      BY <1>3, <2>3
    <3>2. ~call[c].kept
      BY <2>3, <3>1, CallFields DEF FlightInv, Kept
    <3> QED
      BY <1>3, <1>9, <2>3, <3>2
  <2> QED
    BY <1>3, <1>6, <2>1, <2>2, <2>3, CallFields
<1> QED
  BY <1>7, <1>8, <1>10, <1>11 DEF TokenInv

(* The INSERT of a renewal: the new row is on the way to the tab.          *)
LEMMA IssueTokensKept ==
  ASSUME TypeOK, TypeOK', TokenInv, NEW c \in Calls, IssueTokens(c) \/ IssueUnsaved(c)
  PROVE  TokenInv'
<1>0. PICK row : row = issued'
  OBVIOUS
<1>1. PICK st \in {"live", "unsaved"} :
        /\ CreateSession(owner[call[c].old], since[call[c].old], st)
        /\ call[c].at = "revoked"
        /\ call' = [call EXCEPT ![c] = [@ EXCEPT !.at = "ok", !.new = row]]
        /\ UNCHANGED <<rotator, cookie, req, lost>>
  BY <1>0 DEF IssueTokens, IssueUnsaved, tabVars
<1>2. /\ \A d \in Calls \ {c} : call'[d] = call[d]
      /\ call'[c].at = "ok" /\ call'[c].new = row /\ call'[c].old = call[c].old
      /\ call'[c].tab = call[c].tab /\ call'[c].kept = call[c].kept
  <2>1. call[c] \in CallType /\ call \in [Calls -> CallType]
    BY DEF TypeOK
  <2> DEFINE r == [call[c] EXCEPT !.at = "ok", !.new = row]
  <2>2. /\ r.at = "ok" /\ r.new = row /\ r.old = call[c].old
        /\ r.tab = call[c].tab /\ r.kept = call[c].kept
    BY <2>1 DEF CallType
  <2>3. call' = [call EXCEPT ![c] = r]
    BY <1>1
  <2> HIDE DEF r
  <2> QED
    BY <2>1, <2>2, <2>3
<1>3. /\ NewRow(row)' /\ row \in Rows
      /\ \A n \in Rows : NewRow(n) => NewRow(n)' /\ n # row
      /\ cookie' <= issued' /\ \A d \in Calls : call'[d].old <= issued'
      /\ \A n \in Rows : status'[n] = "rotated" => status[n] = "rotated"
  BY <1>0, <1>1, <1>2, NextRow
<1>4. \A u \in Tabs : (Answered(u)' <=> Answered(u)) /\ Brought(u)' = Brought(u)
  BY <1>1 DEF Answered, Brought
<1>5. \A u \in Tabs : Answered(u) => Brought(u) \in Rows
  BY DEF TypeOK, Answered, Brought
<1>6. \A d \in Calls \ {c} : (Renewed(d)' <=> Renewed(d)) /\ call[d].new \in Rows
  BY <1>2, CallFields DEF Renewed
<1>7. RowsNew'
  <2>1. \A u \in Tabs : Answered(u)' => NewRow(Brought(u))'
    BY <1>3, <1>4, <1>5 DEF TokenInv, RowsNew
  <2>2. \A u \in Tabs : Answered(u) => Brought(u) # row
    BY <1>3, <1>5 DEF TokenInv, RowsNew
  <2>3. \A d \in Calls \ {c} : Renewed(d)' => NewRow(call[d].new)' /\ call[d].new # row
    BY <1>2, <1>3, <1>6 DEF TokenInv, RowsNew
  <2>4. NewRow(call[c].new)'
    BY <1>2, <1>3 DEF NewRow
  <2>5. \A d \in Calls : Renewed(d)' => NewRow(call[d].new)'
    BY <2>3, <2>4
  <2>6. \A d, e \in Calls : Renewed(d)' /\ Renewed(e)' /\ call'[d].new = call'[e].new => d = e
    BY <1>2, <1>6, <2>3 DEF TokenInv, RowsNew
  <2>7. \A d \in Calls, u \in Tabs : Renewed(d)' /\ Answered(u)' => call'[d].new # Brought(u)'
    BY <1>2, <1>4, <1>6, <2>2 DEF TokenInv, RowsNew
  <2>8. \A u, v \in Tabs : Answered(u)' /\ Answered(v)' /\ Brought(u)' = Brought(v)' => u = v
    BY <1>4 DEF TokenInv, RowsNew
  <2> QED
    BY <1>3, <2>1, <2>5, <2>6, <2>7, <2>8 DEF RowsNew
<1>8. LostWhenDropped'
  BY <1>1, <1>2 DEF TokenInv, LostWhenDropped
<1>9. CookieRotated'
  <2>1. \A d \in Calls : ReplacedBy(d) => ReplacedBy(d)'
    BY <1>1, <1>2 DEF ReplacedBy
  <2> QED
    BY <1>1, <1>3, <2>1 DEF TokenInv, CookieRotated, TypeOK
<1>10. OwnRotation'
  BY <1>1, <1>2, <1>3, CallFields DEF TokenInv, OwnRotation
<1> QED
  BY <1>7, <1>8, <1>9, <1>10 DEF TokenInv

(* The answer of a renewal: its row becomes the cookie.                    *)
LEMMA ReplaceTokens ==
  ASSUME SomeTabs, TypeOK, TokenInv, NEW c \in Calls, RefreshOk(c)
  PROVE  TokenInv'
<1>0. PICK row \in Rows : row = call[c].new
  BY CallFields
<1>1. /\ Renewed(c) /\ cookie' = row /\ call' = [call EXCEPT ![c] = Free]
      /\ UNCHANGED <<issued, status, rotator, lost>>
  BY <1>0 DEF RefreshOk, Renewed, serverVars
<1>2. call'[c] = Free /\ \A d \in Calls \ {c} : call'[d] = call[d]
  BY <1>1 DEF TypeOK
<1>3. Free.at = "free" /\ Free.kept = FALSE /\ Free.old = 0
  BY Values DEF Free
<1>4. \A u \in Tabs : Answered(u)' => Answered(u) /\ Brought(u)' = Brought(u)
  <2> DEFINE sent == [at |-> "sent", token |-> call[c].new]
             t == call[c].tab
  <2>1. /\ req' = [req EXCEPT ![t] = [k \in Kinds |-> IF @[k].at = "waiting" THEN sent ELSE @[k]]]
        /\ req \in [Tabs -> [Kinds -> ReqType]]
    BY DEF RefreshOk, TypeOK, ReqType
  <2>2. sent.at = "sent"
    OBVIOUS
  <2> HIDE DEF sent, t
  <2>3. \A u \in Tabs, k \in Kinds : req'[u][k] \in {req[u][k], sent}
    BY <2>1
  <2> QED
    BY <2>2, <2>3 DEF Answered, Brought
<1>5. NewRow(row) /\ \A n : NewRow(n) /\ n # row => NewRow(n)'
  <2>1. NewRow(row)
    BY <1>0, <1>1 DEF TokenInv, RowsNew
  <2>2. \A d \in Calls : call'[d].old \in {0, call[d].old}
    BY <1>2, <1>3
  <2>3. \A n : NewRow(n) /\ n # row => NewRow(n)'
    BY <1>1, <2>2 DEF NewRow
  <2> QED
    BY <2>1, <2>3
<1>6. \A d \in Calls : Renewed(d)' => d # c /\ Renewed(d) /\ call'[d] = call[d]
  BY <1>2, <1>3 DEF Renewed
<1>7. RowsNew'
  <2>1. cookie' <= issued' /\ \A d \in Calls : call'[d].old <= issued'
    BY <1>1, <1>2, <1>3, <1>5, Zero DEF TokenInv, RowsNew, NewRow, TypeOK, Rows
  <2>2. \A d \in Calls : Renewed(d)' => NewRow(call[d].new)' /\ call'[d].new = call[d].new
    BY <1>0, <1>1, <1>5, <1>6 DEF TokenInv, RowsNew
  <2>3. \A u \in Tabs : Answered(u)' => NewRow(Brought(u))'
    BY <1>0, <1>1, <1>4, <1>5 DEF TokenInv, RowsNew
  <2>4. \A u, v \in Tabs : Answered(u)' /\ Answered(v)' /\ Brought(u)' = Brought(v)' => u = v
    BY <1>4 DEF TokenInv, RowsNew
  <2>5. \A d, e \in Calls : Renewed(d)' /\ Renewed(e)' /\ call'[d].new = call'[e].new => d = e
    BY <1>6 DEF TokenInv, RowsNew
  <2>6. \A d \in Calls, u \in Tabs : Renewed(d)' /\ Answered(u)' => call'[d].new # Brought(u)'
    BY <1>4, <1>6 DEF TokenInv, RowsNew
  <2> QED
    BY <2>1, <2>2, <2>3, <2>4, <2>5, <2>6 DEF RowsNew
<1>8. LostWhenDropped'
  BY <1>1, <1>2, <1>3 DEF TokenInv, LostWhenDropped
<1>9. CookieRotated'
  BY <1>1, <1>5 DEF CookieRotated, NewRow
<1>10. OwnRotation'
  BY <1>1, <1>2, <1>3 DEF TokenInv, OwnRotation
<1> QED
  BY <1>7, <1>8, <1>9, <1>10 DEF TokenInv

(* The end of a call nobody waits for: if it rotated the cookie, that row  *)
(* is lost.                                                                *)
LEMMA StrayTokens ==
  ASSUME SomeTabs, TypeOK, TokenInv, NEW c \in Calls, EndStray(c)
  PROVE  TokenInv'
<1>1. /\ call[c].kept = FALSE /\ call' = [call EXCEPT ![c] = Free]
      /\ UNCHANGED <<issued, status, rotator, cookie, req, lost>>
  BY CallFields DEF EndStray, serverVars, tabVars
<1>2. call'[c] = Free /\ \A d \in Calls \ {c} : call'[d] = call[d]
  BY <1>1 DEF TypeOK
<1>3. Free \in CallType /\ Free.at = "free" /\ Free.kept = FALSE /\ Free.old = 0
  BY Values DEF Free
<1>4. RowsNew'
  BY <1>1, <1>3, OneCallRows DEF TokenInv, NewRow
<1>5. LostWhenDropped'
  BY <1>1, <1>2, <1>3 DEF TokenInv, LostWhenDropped
<1>6. CookieRotated'
  BY <1>1, <1>2 DEF TokenInv, CookieRotated, ReplacedBy
<1>7. OwnRotation'
  BY <1>1, <1>2, <1>3 DEF TokenInv, OwnRotation
<1> QED
  BY <1>4, <1>5, <1>6, <1>7 DEF TokenInv

LEMMA CallTokens ==
  ASSUME SomeTabs, TypeOK, TypeOK', TokenInv, FlightInv, NEW c \in Calls,
         CallStep(c) \/ CallFault(c)
  PROVE  TokenInv'
<1>1. CASE RefreshRefused(c) \/ LoseAnswer(c)
  <2>1. call[c].tab \in Tabs /\ Waiting(call[c].tab) \subseteq Kinds
    BY CallFields DEF Waiting
  <2>2. /\ ClearAuthAndRedirect(call[c].tab, Waiting(call[c].tab), {c})
        /\ UNCHANGED <<serverVars, cookie>>
    BY <1>1 DEF RefreshRefused, LoseAnswer
  <2> QED
    BY <2>1, <2>2, DropTokens
<1> QED
  BY <1>1, QueryTokens, RevokeTokens, IssueTokensKept, ReplaceTokens, StrayTokens
  DEF CallStep, CallFault

(* A request that is sent, or whose answer brings no row.                  *)
LEMMA AsideTokens ==
  ASSUME SomeTabs, TypeOK, TokenInv, NEW t \in Tabs, NEW k \in Kinds,
         \/ SendRequest(t, k) \/ JoinRefresh(t, k)
         \/ AnswerOther(t, k)
         \/ k = "me" /\ AnswerMe(t)
         \/ k = "logout" /\ AnswerLogout(t)
         \/ k = "login" /\ \E a \in Admins : AnswerLogin(t, a)
  PROVE  TokenInv'
<1>1. PICK r : req' = [req EXCEPT ![t][k] = r] /\ r.at # "answered"
  BY Values DEF SendRequest, JoinRefresh, AnswerOther, AnswerMe, AnswerLogout, AnswerLogin
<1>2. \A u \in Tabs : Answered(u)' => Answered(u) /\ Brought(u)' = Brought(u)
  BY <1>1 DEF Answered, Brought, TypeOK
<1>3. UNCHANGED <<issued, rotator, cookie, call, lost>>
  BY DEF SendRequest, JoinRefresh, AnswerOther, AnswerMe, AnswerLogout, AnswerLogin, serverVars
<1>4. \A n \in Rows : status'[n] = "rotated" => status[n] = "rotated"
  <2>1. status' = status \/ status' = [status EXCEPT ![cookie] = "revoked"]
    BY DEF SendRequest, JoinRefresh, AnswerOther, AnswerMe, AnswerLogout, AnswerLogin, serverVars
  <2> QED
    BY <2>1 DEF TypeOK
<1> QED
  BY <1>2, <1>3, <1>4, QuietTokens

LEMMA TabTokens ==
  ASSUME SomeTabs, TypeOK, TypeOK', TokenInv, NEW t \in Tabs,
         Reload(t) \/ Load(t) \/ \E k \in Kinds : Send(t, k) \/ Answer(t, k)
  PROVE  TokenInv'
<1>1. CASE Reload(t)
  BY <1>1, DropTokens DEF Reload
<1>2. CASE Load(t)
  <2>1. UNCHANGED <<issued, status, rotator, cookie, call, req, lost>>
    BY <1>2 DEF Load, serverVars
  <2> QED
    BY <2>1, QuietTokens DEF Answered, Brought
<1>3. ASSUME NEW k \in Kinds, Unauthorized(t, k) PROVE TokenInv'
  <2>1. ClearAuthAndRedirect(t, {k}, {}) /\ UNCHANGED <<serverVars, cookie>>
    BY <1>3 DEF Unauthorized
  <2> QED
    BY <2>1, DropTokens
<1>4. ASSUME NEW k \in Kinds, Send(t, k) PROVE TokenInv'
  BY <1>4, AsideTokens, StartTokens DEF Send
<1>5. ASSUME NEW k \in Kinds, Answer(t, k) PROVE TokenInv'
  <2>1. CASE k = "verify" /\ (VerifyOTPLogin(t) \/ AnswerVerify(t))
    BY <2>1, VerifyTokens, SignInTokens
  <2>2. CASE AnswerOther(t, k)
    BY <2>2, AsideTokens
  <2>3. CASE k = "me" /\ AnswerMe(t)
    BY <2>3, AsideTokens
  <2>4. CASE k = "login" /\ \E a \in Admins : AnswerLogin(t, a)
    BY <2>4, AsideTokens
  <2>5. CASE k = "logout" /\ AnswerLogout(t)
    BY <2>5, AsideTokens
  <2>6. CASE Unauthorized(t, k)
    BY <1>3, <2>6
  <2> QED
    BY <1>5, <2>1, <2>2, <2>3, <2>4, <2>5, <2>6 DEF Answer
<1> QED
  BY <1>1, <1>2, <1>4, <1>5

LEMMA RowTokens ==
  ASSUME TypeOK, TokenInv,
         \/ UNCHANGED vars
         \/ \E n \in 1..MaxSessions : Grow(n) \/ Lapse(n)
         \/ \E a \in Admins : UpdateAdminPassword(a) \/ RevokeAllAdminSessions(a)
  PROVE  TokenInv'
<1>1. UNCHANGED <<issued, rotator, cookie, call, req, lost>>
  BY DEF vars, Grow, Lapse, UpdateAdminPassword, RevokeAllAdminSessions, tabVars
<1>2. \A n \in Rows : status'[n] = "rotated" => status[n] = "rotated"
  <2>1. CASE UNCHANGED status
    BY <2>1
  <2>2. CASE \E n \in 1..MaxSessions : Lapse(n)
    BY <2>2 DEF Lapse, TypeOK
  <2>3. CASE \E a \in Admins : RevokeAllAdminSessions(a)
    BY <2>3 DEF RevokeAllAdminSessions
  <2> QED
    BY <2>1, <2>2, <2>3 DEF vars, Grow, UpdateAdminPassword
<1> QED
  BY <1>1, <1>2, QuietTokens DEF Answered, Brought

LEMMA StepTokens ==
  ASSUME SomeTabs, TypeOK, TypeOK', TokenInv, FlightInv, [Next]_vars PROVE TokenInv'
BY CallTokens, TabTokens, RowTokens DEF Next

LEMMA InitTokens == ASSUME SomeTabs, Init PROVE TokenInv
<1>1. \A c \in Calls : call[c].at = "free" /\ call[c].kept = FALSE /\ call[c].old = 0
  BY Values DEF Init, Free
<1>2. \A t \in Tabs : ~Answered(t)
  BY Values DEF Init, NoReqs, Answered
<1>3. cookie = 0 /\ issued = 0 /\ \A n \in Rows : status[n] = "none"
  BY DEF Init
<1>4. RowsNew
  BY <1>1, <1>2, <1>3 DEF RowsNew, Renewed
<1> QED
  BY <1>1, <1>3, <1>4, Zero DEF TokenInv, LostWhenDropped, CookieRotated, OwnRotation

LEMMA TokensKept == ASSUME SomeTabs PROVE Spec => [](TokenInv /\ FlightInv)
<1>1. Init => TokenInv /\ FlightInv
  BY InitTokens, InitFlight
<1>2. TypeOK /\ TypeOK' /\ (TokenInv /\ FlightInv) /\ [Next]_vars => (TokenInv /\ FlightInv)'
  BY StepTokens, StepFlight
<1> QED
  BY <1>1, <1>2, AdminTypeCorrect, PTL DEF Spec

(* Rotation by itself never leaves a browser without a session: when the   *)
(* row of the cookie was rotated, its replacement is on the way to a page  *)
(* that waits for it, or an answer was lost.                               *)
THEOREM CookieReplacedHolds == ASSUME SomeTabs PROVE Spec => []CookieReplaced
<1>1. TokenInv => CookieReplaced
  BY DEF TokenInv, CookieRotated, CookieReplaced, ReplacedBy
<1> QED
  BY <1>1, TokensKept, PTL

(* No refresh is refused because of another refresh of the same tab, as    *)
(* long as no answer is lost.                                              *)
THEOREM NoSelfEvictionHolds == ASSUME SomeTabs PROVE Spec => []NoSelfEviction
<1>1. TokenInv => NoSelfEviction
  BY DEF TokenInv, OwnRotation, NoSelfEviction
<1> QED
  BY <1>1, TokensKept, PTL
=============================================================================
