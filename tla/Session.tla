------------------------------ MODULE Session ------------------------------
(***************************************************************************)
(* A browser tab of the web UI: the login that is kept in local storage, the *)
(* manager's tokens, and the Alerts page with its query.  The query library   *)
(* is external, as the page uses it: one cache entry and at most one fetch     *)
(* under the key ["alerts"], whoever is signed in; one retry; a fetch at       *)
(* every mount; nothing dropped at logout.                                    *)
(***************************************************************************)
EXTENDS Naturals, FiniteSets

CONSTANT MaxSessions   \* bound on the logins of one behaviour

ASSUME SessionAssumption == MaxSessions \in Nat

VARIABLES
  auth,      \* auth-storage: the session signed in, or nobody
  posting,   \* the login form waits for its response
  issued,    \* tokens issued so far, one for each session: 1, 2, ...
  valid,     \* those that have not expired
  page,      \* the Alerts page is mounted
  fetches,   \* requests for the alerts: the session they began in, and tries
  cache,     \* the session whose answer is cached, or none
  failed,    \* the last fetch ended in an error
  joined     \* history: the page found a fetch of an earlier session under way

vars == <<auth, posting, issued, valid, page, fetches, cache, failed, joined>>
store == <<auth, posting, issued, valid>>
query == <<fetches, cache, failed, joined>>

None == 0

Init ==
  /\ auth = None /\ posting = FALSE
  /\ issued = 0 /\ valid = {}
  /\ page = FALSE
  /\ fetches = {} /\ cache = None /\ failed = FALSE /\ joined = FALSE

-----------------------------------------------------------------------------
(* Signing in and out *)

Submit ==
  /\ auth = None /\ posting = FALSE
  /\ posting' = TRUE
  /\ UNCHANGED <<auth, issued, valid, page, query>>

\* The manager answers with a token; the user is taken to the dashboard.
SignedIn ==
  /\ posting /\ issued < MaxSessions
  /\ posting' = FALSE
  /\ issued' = issued + 1 /\ valid' = valid \cup {issued'}
  /\ auth' = issued'
  /\ UNCHANGED <<page, query>>

\* Wrong credentials, no answer, or no database: the form says so.
LoginFails ==
  /\ posting
  /\ posting' = FALSE
  /\ UNCHANGED <<auth, issued, valid, page, query>>

Logout ==
  /\ auth # None
  /\ auth' = None
  /\ page' = FALSE
  /\ UNCHANGED <<posting, issued, valid, query>>

\* Expiry is the manager's: nothing in the tab notices it, or the 401 it gets.
Expire(n) ==
  /\ n \in valid
  /\ valid' = valid \ {n}
  /\ UNCHANGED <<auth, posting, issued, page, query>>

-----------------------------------------------------------------------------
(* The Alerts page and its query *)

Request == [by |-> auth, tries |-> 1]

\* mutant: the page fetches in an effect of its own
FetchAnyway == fetches' = fetches \cup {Request}
\* A fetch under way under the same key is joined, whoever began it.
FetchOrJoin == fetches' = IF fetches = {} THEN {Request} ELSE fetches

\* mutant: an answer is taken for fresh until it is invalidated
StaleNever == cache = None
Stale == TRUE

Open ==
  /\ auth # None /\ ~page
  /\ page' = TRUE
  /\ IF Stale THEN FetchOrJoin ELSE UNCHANGED fetches
  /\ joined' = \E r \in fetches : r.by # auth
  /\ UNCHANGED <<store, cache, failed>>

Close ==
  /\ page
  /\ page' = FALSE
  /\ UNCHANGED <<store, query>>

\* The browser is back online: a page on display fetches again.
Reconnect ==
  /\ page /\ fetches = {}
  /\ fetches' = {Request}
  /\ joined' = FALSE
  /\ UNCHANGED <<store, page, cache, failed>>

Answered(r) ==
  /\ r.by \in valid
  /\ fetches' = fetches \ {r}
  /\ cache' = r.by
  /\ failed' = FALSE
  /\ UNCHANGED <<store, page, joined>>

\* A 401, or no answer: tried once more, by a page still on display and with
\* the token of the fetch or the current one; then the cache stays as it is.
Refused(r) ==
  /\ IF r.tries = 1 /\ page
       THEN /\ \E n \in {r.by, auth} :
                 fetches' = (fetches \ {r}) \cup {[by |-> n, tries |-> 2]}
            /\ UNCHANGED failed
       ELSE fetches' = fetches \ {r} /\ failed' = TRUE
  /\ UNCHANGED <<store, page, cache, joined>>

\* Five minutes without a page that shows them, the answers are dropped.
Collect ==
  /\ ~page /\ fetches = {} /\ cache # None
  /\ cache' = None /\ failed' = FALSE
  /\ UNCHANGED <<store, page, fetches, joined>>

\* The tab is reloaded: only local storage is left.
Reload ==
  /\ posting' = FALSE /\ page' = FALSE
  /\ fetches' = {} /\ cache' = None /\ failed' = FALSE /\ joined' = FALSE
  /\ UNCHANGED <<auth, issued, valid>>

-----------------------------------------------------------------------------
Next ==
  \/ Submit \/ SignedIn \/ LoginFails \/ Logout
  \/ \E n \in valid : Expire(n)
  \/ Open \/ Close \/ Reconnect \/ Collect \/ Reload
  \/ \E r \in fetches : Answered(r) \/ Refused(r)

Spec == Init /\ [][Next]_vars

-----------------------------------------------------------------------------
\* Once its fetch has succeeded, the page shows what this session asked for, and
\* not what an earlier one left in the cache that logout does not clear
\* (Alerts.tsx:10, authStore.ts:19), unless it joined a fetch of that session.
ShowsOwnAnswer ==
  page /\ fetches = {} /\ ~failed => cache = auth \/ joined

\* Answers never go back: whatever is signed out, signed in, expired, retried and
\* joined in between, an answer of one session does not replace the answer of
\* a later one (Alerts.tsx:9-17).
AnswersAdvance == [][cache' # None => cache' >= cache]_vars
=============================================================================
