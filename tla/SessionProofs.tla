--------------------------- MODULE SessionProofs ---------------------------
(***************************************************************************)
(* Proofs about a tab of the web UI, for any number of logins: answers never *)
(* go back to an earlier session, and a page shows its own.                   *)
(***************************************************************************)
EXTENDS Session, TLAPS

\* Sessions are numbered in the order of their logins, only the last one may be
\* signed in, and nobody is while the login form waits or no page is open.
SessionInv ==
  /\ issued \in Nat
  /\ auth \in {None, issued}
  /\ posting => auth = None
  /\ page => auth # None

\* At most one fetch is under way, no earlier than the cached answer, and a page
\* that joined nobody waits for its own.
QueryInv ==
  /\ cache \in Nat /\ cache <= issued
  /\ \A r, s \in fetches : r = s
  /\ \A r \in fetches : r.by \in Nat /\ cache <= r.by /\ r.by <= issued
  /\ page /\ ~joined => \A r \in fetches : r.by = auth

TabInv == SessionInv /\ QueryInv /\ ShowsOwnAnswer

LEMMA OpenKeeps ==
  ASSUME TabInv, Open
  PROVE  TabInv'
<1>1. /\ auth # None /\ page' = TRUE
      /\ fetches' = (IF fetches = {} THEN {Request} ELSE fetches)
      /\ joined' = \E r \in fetches : r.by # auth
      /\ UNCHANGED <<auth, posting, issued, valid, cache, failed>>
  BY DEF Open, Stale, FetchOrJoin, store
<1>2. SessionInv'
  BY <1>1 DEF TabInv, SessionInv
<1>3. Request.by = auth /\ auth = issued /\ issued \in Nat
  BY <1>1 DEF Request, TabInv, SessionInv
<1>4. \A r \in fetches' : r.by \in Nat /\ cache <= r.by /\ r.by <= issued
  BY <1>1, <1>3 DEF TabInv, QueryInv
<1>5. ~joined' => \A r \in fetches' : r.by = auth
  BY <1>1, <1>3
<1>6. QueryInv'
  BY <1>1, <1>4, <1>5 DEF TabInv, QueryInv
<1>7. fetches' # {}
  BY <1>1
<1> QED
  BY <1>2, <1>6, <1>7 DEF TabInv, ShowsOwnAnswer

LEMMA ReconnectKeeps ==
  ASSUME TabInv, Reconnect
  PROVE  TabInv'
<1>1. Request.by = auth /\ auth = issued /\ issued \in Nat
  BY DEF Request, Reconnect, TabInv, SessionInv
<1> QED
  BY <1>1 DEF Reconnect, store, TabInv, SessionInv, QueryInv, ShowsOwnAnswer

LEMMA AnsweredKeeps ==
  ASSUME TabInv, NEW r \in fetches, Answered(r)
  PROVE  TabInv' /\ cache <= cache'
<1>1. fetches' = {}
  BY DEF Answered, TabInv, QueryInv
<1> QED
  BY <1>1 DEF Answered, store, TabInv, SessionInv, QueryInv, ShowsOwnAnswer

LEMMA RefusedKeeps ==
  ASSUME TabInv, NEW r \in fetches, Refused(r)
  PROVE  TabInv'
<1>1. UNCHANGED <<auth, posting, issued, valid, page, cache, joined>>
  BY DEF Refused, store
<1>2. fetches \ {r} = {}
  BY DEF TabInv, QueryInv
<1>3. CASE r.tries = 1 /\ page
  <2>1. PICK n \in {r.by, auth} : fetches' = {[by |-> n, tries |-> 2]}
    BY <1>2, <1>3 DEF Refused
  <2>2. auth = issued /\ issued \in Nat
    BY <1>3 DEF TabInv, SessionInv
  <2>3. n \in Nat /\ cache <= n /\ n <= issued /\ (~joined => n = auth)
    BY <1>3, <2>2 DEF TabInv, QueryInv
  <2>4. \A s \in fetches' : s.by = n
    BY <2>1
  <2>5. \A s, t \in fetches' : s = t
    BY <2>1
  <2>6. fetches' # {}
    BY <2>1
  <2> QED
    BY <1>1, <2>3, <2>4, <2>5, <2>6
    DEF TabInv, SessionInv, QueryInv, ShowsOwnAnswer
<1>4. CASE ~(r.tries = 1 /\ page)
  BY <1>1, <1>2, <1>4 DEF Refused, TabInv, SessionInv, QueryInv, ShowsOwnAnswer
<1> QED
  BY <1>3, <1>4

LEMMA TabCorrect == Spec => []TabInv
<1>1. Init => TabInv
  BY DEF Init, TabInv, SessionInv, QueryInv, ShowsOwnAnswer, None
<1>2. TabInv /\ [Next]_vars => TabInv'
  <2> SUFFICES ASSUME TabInv, [Next]_vars
               PROVE  TabInv'
    OBVIOUS
  <2>1. CASE Submit \/ LoginFails
    BY <2>1 DEF Submit, LoginFails, query, TabInv, SessionInv, QueryInv,
                ShowsOwnAnswer
  <2>2. CASE SignedIn
    <3>1. /\ ~page /\ page' = page /\ posting' = FALSE
          /\ issued' = issued + 1 /\ auth' = issued'
          /\ UNCHANGED <<fetches, cache, failed, joined>>
      BY <2>2 DEF SignedIn, query, TabInv, SessionInv
    <3>2. SessionInv'
      BY <3>1 DEF TabInv, SessionInv
    <3>3. QueryInv'
      BY <3>1 DEF TabInv, SessionInv, QueryInv
    <3> QED
      BY <3>1, <3>2, <3>3 DEF TabInv, ShowsOwnAnswer
  <2>3. CASE Logout
    BY <2>3 DEF Logout, query, TabInv, SessionInv, QueryInv, ShowsOwnAnswer
  <2>4. CASE \E n \in valid : Expire(n)
    BY <2>4 DEF Expire, query, TabInv, SessionInv, QueryInv, ShowsOwnAnswer
  <2>5. CASE Open
    BY <2>5, OpenKeeps
  <2>6. CASE Close
    BY <2>6 DEF Close, store, query, TabInv, SessionInv, QueryInv, ShowsOwnAnswer
  <2>7. CASE Reconnect
    BY <2>7, ReconnectKeeps
  <2>8. CASE Collect \/ Reload
    BY <2>8 DEF Collect, Reload, store, None, TabInv, SessionInv, QueryInv,
                ShowsOwnAnswer
  <2>9. CASE \E r \in fetches : Answered(r) \/ Refused(r)
    BY <2>9, AnsweredKeeps, RefusedKeeps
  <2>10. CASE UNCHANGED vars
    BY <2>10 DEF vars, TabInv, SessionInv, QueryInv, ShowsOwnAnswer
  <2> QED
    BY <2>1, <2>2, <2>3, <2>4, <2>5, <2>6, <2>7, <2>8, <2>9, <2>10 DEF Next
<1> QED
  BY <1>1, <1>2, PTL DEF Spec

\* Once its fetch has succeeded the Alerts page shows the answer of the session
\* signed in (Alerts.tsx:10), unless it joined a fetch of an earlier one.
THEOREM ShowsOwnCorrect == Spec => []ShowsOwnAnswer
<1>1. TabInv => ShowsOwnAnswer
  BY DEF TabInv
<1> QED
  BY <1>1, TabCorrect, PTL

\* However logins, expiry, retries and reloads interleave, the cached answer of
\* one session is never replaced by that of an earlier one (Alerts.tsx:9-17).
THEOREM AdvanceCorrect == Spec => AnswersAdvance
<1>1. TabInv /\ [Next]_vars => [cache' # None => cache' >= cache]_vars
  <2> SUFFICES ASSUME TabInv, Next, cache' # None
               PROVE  cache' >= cache
    BY DEF vars
  <2>1. cache \in Nat
    BY DEF TabInv, QueryInv
  <2>2. CASE cache' = cache
    BY <2>1, <2>2
  <2>3. CASE Collect \/ Reload
    BY <2>3 DEF Collect, Reload
  <2>4. CASE \E r \in fetches : Answered(r)
    <3>1. PICK r \in fetches : Answered(r)
      BY <2>4
    <3>2. cache' = r.by
      BY <3>1 DEF Answered
    <3> QED
      BY <2>1, <3>1, <3>2 DEF TabInv, QueryInv
  <2> QED
    BY <2>2, <2>3, <2>4
    DEF Next, Submit, SignedIn, LoginFails, Logout, Expire, Open, Close,
        Reconnect, Refused, store, query
<1> QED
  BY <1>1, TabCorrect, PTL DEF Spec, AnswersAdvance
=============================================================================
