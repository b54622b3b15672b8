------------------------------ MODULE AviSession ------------------------------
(***************************************************************************)
(* The session of avi/client.go: one csrf token, one session id and one    *)
(* tenant list shared by every goroutine, behind authMu, and the protocol  *)
(* every request follows: log in when there is no session, send with the   *)
(* cookies of the moment, take over cookies from the answer, and on 401 or *)
(* 419 clear the session, log in and send once more.  The lock is held for *)
(* each of these accesses and released between them.                       *)
(*                                                                         *)
(* A caller is one goroutine of a refresh.  LoginTenants runs while no     *)
(* other call does: tenant discovery comes before the workers.             *)
(*                                                                         *)
(* A csrf token, a session id and a tenant list are each known by the      *)
(* session they came with.  The controller is external: it opens sessions, *)
(* names tenants in its answer to a login or none, expires sessions at any *)
(* time, and may send cookies along with any answer, a 401 included.       *)
(* Nothing is counted, so calls, logins and expiries go on for ever; the   *)
(* name of a session nobody refers to any more is used again.              *)
(***************************************************************************)
EXTENDS FiniteSets

CONSTANTS
  Callers,      \* goroutines
  Sessions,     \* bound: sessions referred to at the same time
  Naming,       \* those whose login answer names tenants
  None          \* no session; no tenants

ASSUME SessionAssumption ==
  /\ None \notin Sessions
  /\ Naming \subseteq Sessions

VARIABLES
  resends,          \* controller: do ordinary answers carry the session id cookie?
  csrf, sid, list,  \* c.csrfToken, c.sessionID, c.tenants
  pc,               \* where each caller is
  then,             \* where Login returns to
  retry,            \* retryOnAuth
  cookie,           \* the session id sent with the request, or just granted
  answer,           \* status and cookies of the answer
  rejected,         \* the caller's last call failed for authentication
  alive,            \* controller: the sessions that have not expired
  alone, expired    \* history: has the call been the only one; has a session in
                    \* use expired since the call began ("early"), since its
                    \* first 401 if it met one ("late")

client == <<csrf, sid, list>>
control == <<pc, then, retry, cookie, answer, rejected>>
history == <<alone, expired>>
vars == <<resends, client, control, alive, history>>

NoAnswer == [status |-> "none", newCSRF |-> None, newSID |-> None]

Active == { p \in Callers : pc[p] # "idle" }

Init ==
  /\ resends \in BOOLEAN
  /\ csrf = None /\ sid = None /\ list = None
  /\ pc = [p \in Callers |-> "idle"]
  /\ then = [p \in Callers |-> "send"]
  /\ retry = [p \in Callers |-> TRUE]
  /\ cookie = [p \in Callers |-> None]
  /\ answer = [p \in Callers |-> NoAnswer]
  /\ rejected = [p \in Callers |-> FALSE]
  /\ alive = {}
  /\ alone = [p \in Callers |-> FALSE]
  /\ expired = [p \in Callers |-> "no"]

-----------------------------------------------------------------------------
Start(p, where, back) ==
  /\ pc[p] = "idle"
  /\ pc' = [pc EXCEPT ![p] = where]
  /\ then' = [then EXCEPT ![p] = back]
  /\ alone' = [q \in Callers |-> IF q = p THEN Active = {} ELSE FALSE]
  /\ expired' = [expired EXCEPT ![p] = "no"]
  /\ rejected' = [rejected EXCEPT ![p] = FALSE]
  /\ UNCHANGED <<client, retry, cookie, answer, alive>>

Request(p) ==
  /\ \A q \in Active : then[q] # "list"
  /\ Start(p, "check", "send")

LoginTenants(p) == Active = {} /\ Start(p, "loginCheck", "list")

Return(p, failure) ==
  /\ pc' = [pc EXCEPT ![p] = "idle"]
  /\ rejected' = [rejected EXCEPT ![p] = failure]
  /\ cookie' = [cookie EXCEPT ![p] = None]
  /\ then' = [then EXCEPT ![p] = "send"]
  /\ retry' = [retry EXCEPT ![p] = TRUE]
  /\ alone' = [alone EXCEPT ![p] = failure /\ @]
  /\ expired' = [expired EXCEPT ![p] = IF failure THEN @ ELSE "no"]

(* doRaw: hasSession *)
CheckSession(p) ==
  /\ pc[p] = "check"
  /\ pc' = [pc EXCEPT ![p] = IF sid # None THEN "send" ELSE "loginCheck"]
  /\ UNCHANGED <<client, then, retry, cookie, answer, rejected, alive, history>>

-----------------------------------------------------------------------------
(* Login: nothing to do with a session in place, else POST /login. *)

\* Mutant: the retry starts at the session check without being marked as one.
ProceedUnmarked(p) ==
  /\ pc' = [pc EXCEPT ![p] = then[p]]
  /\ then' = [then EXCEPT ![p] = IF @ = "retry" THEN "send" ELSE @]
  /\ retry' = [retry EXCEPT ![p] = IF then[p] = "retry" THEN FALSE ELSE @]

\* Login returned nil: to the request, the retry, or the tenant list.
Proceed(p) ==
  /\ pc' = [pc EXCEPT ![p] = IF then[p] = "retry" THEN "check" ELSE then[p]]
  /\ then' = [then EXCEPT ![p] = IF @ = "retry" THEN "send" ELSE @]
  /\ retry' = [retry EXCEPT ![p] = IF then[p] = "retry" THEN FALSE ELSE @]

LoginCheck(p) ==
  /\ pc[p] = "loginCheck"
  /\ IF sid # None
       THEN Proceed(p)
       ELSE pc' = [pc EXCEPT ![p] = "posting"] /\ UNCHANGED <<then, retry>>
  /\ UNCHANGED <<client, cookie, answer, rejected, alive, history>>

\* The sessions somebody still knows of, or may still use.
Referred ==
  alive \union {csrf, sid, list} \union { cookie[p] : p \in Callers }

\* The controller opens a session.
LoginGranted(p) ==
  /\ pc[p] = "posting"
  /\ \E s \in Sessions \ Referred :
       /\ alive' = alive \union {s}
       /\ cookie' = [cookie EXCEPT ![p] = s]
  /\ pc' = [pc EXCEPT ![p] = "granted"]
  /\ UNCHANGED <<client, then, retry, answer, rejected, history>>

\* Network error, timeout, bad status or missing cookies.
LoginRefused(p) ==
  /\ pc[p] = "posting"
  /\ Return(p, FALSE)
  /\ UNCHANGED <<client, answer, alive>>

\* The tenants a login's answer names: none when its body has no tenants, or
\* is not what it should be (discovery then asks /api/tenant).
TenantsOf(s) == IF s \in Naming THEN s ELSE None

LoginStore(p) ==
  /\ pc[p] = "granted"
  /\ csrf' = cookie[p] /\ sid' = cookie[p] /\ list' = TenantsOf(cookie[p])
  /\ cookie' = [cookie EXCEPT ![p] = None]
  /\ Proceed(p)
  /\ UNCHANGED <<answer, rejected, alive, history>>

\* The end of LoginTenants: a copy of c.tenants, possibly nil.
ReadList(p) ==
  /\ pc[p] = "list"
  /\ Return(p, FALSE)
  /\ UNCHANGED <<client, answer, alive>>

-----------------------------------------------------------------------------
(* doRaw: the request itself. *)
Send(p) ==
  /\ pc[p] = "send"
  /\ cookie' = [cookie EXCEPT ![p] = sid]
  /\ pc' = [pc EXCEPT ![p] = "sent"]
  /\ UNCHANGED <<client, then, retry, answer, rejected, alive, history>>

\* The controller answers, with or without cookies of the session it was asked
\* with, whether that is still alive or not.
Answer(p) ==
  /\ pc[p] = "sent"
  /\ \E newCSRF \in {None, cookie[p]},
        newSID \in IF resends THEN {None, cookie[p]} ELSE {None} :
       answer' = [answer EXCEPT ![p] =
         [status  |-> IF cookie[p] \in alive THEN "ok" ELSE "401",
          newCSRF |-> newCSRF, newSID |-> newSID]]
  /\ pc' = [pc EXCEPT ![p] = "answered"]
  /\ UNCHANGED <<client, then, retry, cookie, rejected, alive, history>>

\* No usable answer: a transport error, a timeout, or a context that is done.
RequestFails(p) ==
  /\ pc[p] = "sent"
  /\ Return(p, FALSE)
  /\ UNCHANGED <<client, answer, alive>>

\* Mutant: a 401 after the retry is retried as well as before it.
ReceiveLosingRetry(p) ==
  /\ pc[p] = "answered"
  /\ csrf' = IF answer[p].newCSRF # None THEN answer[p].newCSRF ELSE csrf
  /\ sid' = IF answer[p].newSID # None THEN answer[p].newSID ELSE sid
  /\ answer' = [answer EXCEPT ![p] = NoAnswer]
  /\ \/ answer[p].status = "ok" /\ Return(p, FALSE)
     \/ /\ answer[p].status = "401"
        /\ pc' = [pc EXCEPT ![p] = "clear"]
        /\ expired' = [expired EXCEPT ![p] = IF @ = "late" THEN "early" ELSE @]
        /\ cookie' = [cookie EXCEPT ![p] = None]
        /\ UNCHANGED <<rejected, then, retry, alone>>
  /\ UNCHANGED <<list, alive>>

(* refreshCookies on every answer, then the status. *)
Receive(p) ==
  /\ pc[p] = "answered"
  /\ csrf' = IF answer[p].newCSRF # None THEN answer[p].newCSRF ELSE csrf
  /\ sid' = IF answer[p].newSID # None THEN answer[p].newSID ELSE sid
  /\ answer' = [answer EXCEPT ![p] = NoAnswer]
  /\ \/ answer[p].status = "ok" /\ Return(p, FALSE)
     \/ answer[p].status = "401" /\ ~retry[p] /\ Return(p, TRUE)
     \/ /\ answer[p].status = "401" /\ retry[p]
        /\ pc' = [pc EXCEPT ![p] = "clear"]
        /\ expired' = [expired EXCEPT ![p] = IF @ = "late" THEN "early" ELSE @]
        /\ cookie' = [cookie EXCEPT ![p] = None]
        /\ UNCHANGED <<rejected, then, retry, alone>>
  /\ UNCHANGED <<list, alive>>

\* Mutant: the tenant list goes with the session only when logging in again.
ClearOnlyList(p) ==
  /\ pc[p] = "clear"
  /\ list' = None
  /\ pc' = [pc EXCEPT ![p] = "loginCheck"]
  /\ then' = [then EXCEPT ![p] = "retry"]
  /\ UNCHANGED <<csrf, sid, retry, cookie, answer, rejected, alive, history>>

(* clearSession, before logging in again *)
Clear(p) ==
  /\ pc[p] = "clear"
  /\ csrf' = None /\ sid' = None /\ list' = None
  /\ pc' = [pc EXCEPT ![p] = "loginCheck"]
  /\ then' = [then EXCEPT ![p] = "retry"]
  /\ UNCHANGED <<retry, cookie, answer, rejected, alive, history>>

-----------------------------------------------------------------------------
\* The controller forgets a session.
Expire(s) ==
  /\ s \in alive
  /\ alive' = alive \ {s}
  /\ expired' = [p \in Callers |->
                   IF p \in Active /\ (s = sid \/ \E q \in Callers : s = cookie[q])
                   THEN "late"
                   ELSE expired[p]]
  /\ UNCHANGED <<client, control, alone>>

Step(p) ==
  \/ CheckSession(p) \/ LoginCheck(p) \/ LoginGranted(p) \/ LoginRefused(p)
  \/ LoginStore(p) \/ ReadList(p) \/ Send(p) \/ Answer(p) \/ RequestFails(p)
  \/ Receive(p) \/ Clear(p)

Next ==
  /\ \/ \E p \in Callers : Request(p) \/ LoginTenants(p) \/ Step(p)
     \/ \E s \in Sessions : Expire(s)
  /\ UNCHANGED resends

Spec == Init /\ [][Next]_vars

(* Requests are bounded by the HTTP client's timeout and goroutines are     *)
(* scheduled: a call that can move does.                                    *)
FairSpec == Spec /\ \A p \in Callers : WF_vars(Step(p) /\ UNCHANGED resends)

-----------------------------------------------------------------------------
TypeOK ==
  /\ resends \in BOOLEAN
  /\ {csrf, sid, list} \subseteq {None} \union Sessions
  /\ pc \in [Callers -> {"idle", "check", "loginCheck", "posting", "granted",
                         "list", "send", "sent", "answered", "clear"}]
  /\ then \in [Callers -> {"send", "retry", "list"}]
  /\ retry \in [Callers -> BOOLEAN]
  /\ cookie \in [Callers -> {None} \union Sessions]
  /\ answer \in [Callers -> [status : {"none", "ok", "401"},
                             newCSRF : {None} \union Sessions,
                             newSID : {None} \union Sessions]]
  /\ rejected \in [Callers -> BOOLEAN]
  /\ alive \subseteq Sessions
  /\ alone \in [Callers -> BOOLEAN]
  /\ expired \in [Callers -> {"no", "early", "late"}]

(* Whatever mess earlier calls left - a dead session, a cleared one, cookies *)
(* put back by a late answer - a call that meets no other goroutine recovers *)
(* within its one retry: it fails for authentication only if the session     *)
(* expires again after its first 401.                                        *)
SoloCallRecovers ==
  \A p \in Callers : rejected[p] /\ alone[p] => expired[p] = "late"

(* With a controller that sends the session id only in answer to a login,    *)
(* the tenant list is the one of the login that opened the session in place: *)
(* empty if that login named no tenants, and never left over from a session  *)
(* that was replaced or cleared, however goroutines clear it and log in      *)
(* anew.  Discovery asks /api/tenant only after a login without tenants.     *)
ListOfItsSession == ~resends => list = TenantsOf(sid)

(* Every call returns: the retry is not retried, however often sessions      *)
(* expire and whatever other goroutines do to the session meanwhile.         *)
CallsReturn == \A p \in Callers : pc[p] # "idle" ~> pc[p] = "idle"

(* The package comment: "On 401/419 we transparently re-login once." With a  *)
(* controller that sends the session id only in answer to a login, a call    *)
(* fails for authentication only if a session in use expires during it.      *)
TransparentRelogin ==
  ~resends => \A p \in Callers : rejected[p] => expired[p] # "no"
=============================================================================
