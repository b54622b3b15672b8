--------------------------- MODULE AviSessionProofs ---------------------------
(***************************************************************************)
(* What AviSession guarantees for any number of goroutines and sessions:   *)
(* the session keeps its shape, the tenant list is that of the session in  *)
(* place, and a call that meets no other recovers within its one retry.    *)
(***************************************************************************)
EXTENDS AviSession, TLAPS

Ids == {None} \union Sessions

(* What ListOfItsSession rests on: a granted login carries a session, and a   *)
(* controller that sends the id with logins only sends none with an answer. *)
Cookies ==
  /\ \A p \in Callers : pc[p] = "granted" => cookie[p] \in Sessions
  /\ ~resends => \A p \in Callers : answer[p].newSID = None

(* Every call starts with its retry still to come. *)
Rested == \A p \in Callers : pc[p] = "idle" => retry[p]

(* A call that has been alone so far: no other is on its way. *)
Solitary == \A p, q \in Callers : alone[p] /\ pc[q] # "idle" => q = p

(* Where such a call is after its first 401.  It has cleared the session     *)
(* (retry still to come), so it logs in; from its login on the session is    *)
(* alive unless it expired "late", until the answer to its retry.            *)
LoginsAnew(p) ==
  /\ then[p] = "retry" /\ pc[p] = "loginCheck" => sid = None
  /\ then[p] = "retry" /\ pc[p] = "granted" =>
       cookie[p] \in alive \/ expired[p] = "late"

RetriesAlive(p) ==
  ~retry[p] =>
    /\ pc[p] \in {"check", "send", "sent", "answered"}
    /\ pc[p] \in {"check", "send"} =>
         sid # None /\ (sid \in alive \/ expired[p] = "late")
    /\ pc[p] = "sent" => cookie[p] \in alive \/ expired[p] = "late"
    /\ pc[p] = "answered" /\ answer[p].status = "401" => expired[p] = "late"

Rejected(p) == rejected[p] => pc[p] = "idle" /\ expired[p] = "late"

Recovering ==
  \A p \in Callers : alone[p] => LoginsAnew(p) /\ RetriesAlive(p) /\ Rejected(p)

IInv == TypeOK /\ Cookies /\ ListOfItsSession /\ Solitary /\ Rested /\ Recovering

-----------------------------------------------------------------------------
USE DEF Ids

(* The parts of the state every step of a caller handles alike. *)
LEMMA ReturnType ==
  ASSUME TypeOK, NEW p \in Callers, NEW failure \in BOOLEAN, Return(p, failure)
  PROVE  /\ pc' \in [Callers -> {"idle", "check", "loginCheck", "posting", "granted",
                                 "list", "send", "sent", "answered", "clear"}]
         /\ then' \in [Callers -> {"send", "retry", "list"}]
         /\ retry' \in [Callers -> BOOLEAN]
         /\ cookie' \in [Callers -> Ids]
         /\ rejected' \in [Callers -> BOOLEAN]
         /\ alone' \in [Callers -> BOOLEAN]
         /\ expired' \in [Callers -> {"no", "early", "late"}]
<1>1. alone[p] \in BOOLEAN
  BY DEF TypeOK
<1>2. alone' \in [Callers -> BOOLEAN]
  BY <1>1 DEF Return, TypeOK
<1>3. expired' \in [Callers -> {"no", "early", "late"}]
  BY DEF Return, TypeOK
<1> QED
  BY <1>2, <1>3 DEF Return, TypeOK

LEMMA StartType ==
  ASSUME TypeOK, NEW p \in Callers, NEW where \in {"check", "loginCheck"},
         NEW back \in {"send", "list"}, Start(p, where, back), UNCHANGED resends
  PROVE  TypeOK'
<1>1. alone' \in [Callers -> BOOLEAN]
  BY DEF Start
<1> QED
  BY <1>1 DEF Start, TypeOK, client

LEMMA ProceedType ==
  ASSUME TypeOK, NEW p \in Callers, Proceed(p)
  PROVE  /\ pc' \in [Callers -> {"idle", "check", "loginCheck", "posting", "granted",
                                 "list", "send", "sent", "answered", "clear"}]
         /\ then' \in [Callers -> {"send", "retry", "list"}]
         /\ retry' \in [Callers -> BOOLEAN]
  BY DEF Proceed, TypeOK

LEMMA AnswerType ==
  ASSUME TypeOK, NEW p \in Callers, Answer(p), UNCHANGED resends
  PROVE  TypeOK'
<1>1. cookie[p] \in Ids
  BY DEF TypeOK
<1>2. answer' \in [Callers -> [status : {"none", "ok", "401"},
                               newCSRF : Ids, newSID : Ids]]
  <2>1. PICK newCSRF \in Ids, newSID \in Ids, status \in {"ok", "401"} :
          answer' = [answer EXCEPT ![p] =
            [status |-> status, newCSRF |-> newCSRF, newSID |-> newSID]]
    BY <1>1 DEF Answer
  <2> QED
    BY <2>1 DEF TypeOK
<1>3. pc' \in [Callers -> {"idle", "check", "loginCheck", "posting", "granted",
                           "list", "send", "sent", "answered", "clear"}]
  BY DEF Answer, TypeOK
<1> QED
  BY <1>2, <1>3 DEF Answer, TypeOK, client, history

LEMMA ReceiveType ==
  ASSUME TypeOK, NEW p \in Callers, Receive(p), UNCHANGED resends
  PROVE  TypeOK'
<1>1. {csrf', sid', list'} \subseteq Ids
  <2>1. answer[p].newCSRF \in Ids /\ answer[p].newSID \in Ids
    BY DEF TypeOK
  <2> QED
    BY <2>1 DEF Receive, TypeOK
<1>2. answer' \in [Callers -> [status : {"none", "ok", "401"},
                               newCSRF : Ids, newSID : Ids]]
  BY DEF Receive, TypeOK, NoAnswer
<1>3. CASE \E failure \in BOOLEAN : Return(p, failure)
  BY <1>1, <1>2, <1>3, ReturnType DEF Receive, TypeOK
<1>4. CASE /\ pc' = [pc EXCEPT ![p] = "clear"]
           /\ expired' = [expired EXCEPT ![p] = IF @ = "late" THEN "early" ELSE @]
           /\ cookie' = [cookie EXCEPT ![p] = None]
           /\ UNCHANGED <<rejected, then, retry, alone>>
  BY <1>1, <1>2, <1>4 DEF Receive, TypeOK
<1> QED
  BY <1>3, <1>4 DEF Receive

LEMMA TypeInvariant == TypeOK /\ [Next]_vars => TypeOK'
<1> SUFFICES ASSUME TypeOK, [Next]_vars PROVE TypeOK'
  OBVIOUS
<1>1. CASE UNCHANGED vars
  BY <1>1 DEF vars, client, control, history, TypeOK
<1>2. ASSUME NEW p \in Callers, Request(p), UNCHANGED resends PROVE TypeOK'
  BY <1>2, StartType DEF Request
<1>3. ASSUME NEW p \in Callers, LoginTenants(p), UNCHANGED resends PROVE TypeOK'
  BY <1>3, StartType DEF LoginTenants
<1>4. ASSUME NEW p \in Callers, Step(p), UNCHANGED resends PROVE TypeOK'
  <2>1. CASE CheckSession(p)
    BY <1>4, <2>1 DEF CheckSession, TypeOK, client, history
  <2>2. CASE LoginCheck(p)
    <3>1. CASE Proceed(p)
      BY <1>4, <2>2, <3>1, ProceedType DEF LoginCheck, TypeOK, client, history
    <3>2. CASE pc' = [pc EXCEPT ![p] = "posting"] /\ UNCHANGED <<then, retry>>
      BY <1>4, <2>2, <3>2 DEF LoginCheck, TypeOK, client, history
    <3> QED
      BY <2>2, <3>1, <3>2 DEF LoginCheck
  <2>3. CASE LoginGranted(p)
    BY <1>4, <2>3 DEF LoginGranted, TypeOK, client, history
  <2>4. CASE LoginRefused(p)
    BY <1>4, <2>4, ReturnType DEF LoginRefused, TypeOK, client
  <2>5. CASE LoginStore(p)
    <3>1. {csrf', sid', list'} \subseteq Ids
      BY <2>5 DEF LoginStore, TenantsOf, TypeOK
    <3> QED
      BY <1>4, <2>5, <3>1, ProceedType DEF LoginStore, TypeOK, history
  <2>6. CASE ReadList(p)
    BY <1>4, <2>6, ReturnType DEF ReadList, TypeOK, client
  <2>7. CASE Send(p)
    BY <1>4, <2>7 DEF Send, TypeOK, client, history
  <2>8. CASE Answer(p)
    BY <1>4, <2>8, AnswerType
  <2>9. CASE RequestFails(p)
    BY <1>4, <2>9, ReturnType DEF RequestFails, TypeOK, client
  <2>10. CASE Receive(p)
    BY <1>4, <2>10, ReceiveType
  <2>11. CASE Clear(p)
    BY <1>4, <2>11 DEF Clear, TypeOK, history
  <2> QED
    BY <1>4, <2>1, <2>2, <2>3, <2>4, <2>5, <2>6, <2>7, <2>8, <2>9, <2>10, <2>11
    DEF Step
<1>5. ASSUME NEW s \in Sessions, Expire(s), UNCHANGED resends PROVE TypeOK'
  <2>1. expired' \in [Callers -> {"no", "early", "late"}]
    BY <1>5 DEF Expire, TypeOK
  <2> QED
    BY <1>5, <2>1 DEF Expire, TypeOK, client, control
<1> QED
  BY <1>1, <1>2, <1>3, <1>4, <1>5 DEF Next

-----------------------------------------------------------------------------
(* Each step of a caller is of one that is on its way, and leaves no call   *)
(* alone that was not.                                                      *)
LEMMA Busy ==
  ASSUME NEW p \in Callers, Step(p)
  PROVE  pc[p] # "idle"
  BY DEF Step, CheckSession, LoginCheck, LoginGranted, LoginRefused, LoginStore,
         ReadList, Send, Answer, RequestFails, Receive, Clear

LEMMA AloneBefore ==
  ASSUME TypeOK, NEW p \in Callers, Step(p), NEW r \in Callers, alone'[r]
  PROVE  alone[r]
<1>1. alone \in [Callers -> BOOLEAN]
  BY DEF TypeOK
<1>2. ASSUME NEW failure \in BOOLEAN, Return(p, failure) PROVE alone[r]
  BY <1>1, <1>2 DEF Return
<1>3. CASE UNCHANGED alone
  BY <1>3
<1>4. CASE Receive(p)
  BY <1>2, <1>3, <1>4 DEF Receive
<1>5. CASE LoginRefused(p) \/ ReadList(p) \/ RequestFails(p)
  BY <1>2, <1>5 DEF LoginRefused, ReadList, RequestFails
<1> QED
  BY <1>3, <1>4, <1>5
  DEF Step, CheckSession, LoginCheck, LoginGranted, LoginStore, Send, Answer, Clear,
      history

(* A step keeps to its own place: the others' places and answers stay. *)
LEMMA OwnPlace ==
  ASSUME TypeOK, NEW p \in Callers, Step(p), NEW q \in Callers, q # p
  PROVE  pc'[q] = pc[q] /\ cookie'[q] = cookie[q] /\ answer'[q] = answer[q]
<1>1. pc'[q] = pc[q]
  BY DEF Step, CheckSession, LoginCheck, LoginGranted, LoginRefused, LoginStore,
         ReadList, Send, Answer, RequestFails, Receive, Clear, Return, Proceed, TypeOK
<1>2. cookie'[q] = cookie[q]
  BY DEF Step, CheckSession, LoginCheck, LoginGranted, LoginRefused, LoginStore,
         ReadList, Send, Answer, RequestFails, Receive, Clear, Return, TypeOK
<1>3. answer'[q] = answer[q]
  <2>1. CASE Answer(p)
    BY <2>1 DEF Answer, TypeOK
  <2> QED
    BY <2>1
    DEF Step, CheckSession, LoginCheck, LoginGranted, LoginRefused, LoginStore,
        ReadList, Send, RequestFails, Receive, Clear, TypeOK
<1> QED
  BY <1>1, <1>2, <1>3

-----------------------------------------------------------------------------
(* An answer carries what the controller may send: an id only if it resends. *)
LEMMA AnswerCookies ==
  ASSUME TypeOK, Cookies, NEW p \in Callers, Answer(p), ~resends
  PROVE  answer'[p].newSID = None
<1>1. PICK newCSRF \in Ids, newSID \in {None}, status \in {"ok", "401"} :
        answer' = [answer EXCEPT ![p] =
          [status |-> status, newCSRF |-> newCSRF, newSID |-> newSID]]
  BY DEF Answer, TypeOK
<1> QED
  BY <1>1 DEF TypeOK

LEMMA CookiesInvariant == TypeOK /\ Cookies /\ [Next]_vars => Cookies'
<1> SUFFICES ASSUME TypeOK, Cookies, [Next]_vars PROVE Cookies'
  OBVIOUS
<1>1. CASE UNCHANGED vars
  BY <1>1 DEF vars, client, control, history, Cookies
<1>2. ASSUME NEW p \in Callers, Request(p) \/ LoginTenants(p), UNCHANGED resends
      PROVE  Cookies'
  BY <1>2 DEF Request, LoginTenants, Start, Cookies, TypeOK
<1>3. ASSUME NEW p \in Callers, Step(p), UNCHANGED resends PROVE Cookies'
  <2>1. pc'[p] = "granted" => cookie'[p] \in Sessions
    <3>1. CASE LoginGranted(p)
      BY <3>1 DEF LoginGranted, TypeOK
    <3>2. CASE ~LoginGranted(p)
      <4>1. then[p] \in {"send", "retry", "list"}
        BY DEF TypeOK
      <4>2. pc'[p] # "granted"
        BY <1>3, <3>2, <4>1
        DEF Step, CheckSession, LoginCheck, LoginRefused, LoginStore, ReadList, Send,
            Answer, RequestFails, Receive, Clear, Return, Proceed, TypeOK
      <4> QED
        BY <4>2
    <3> QED
      BY <3>1, <3>2
  <2>2. ~resends => answer'[p].newSID = None
    <3>1. CASE Answer(p)
      BY <3>1, AnswerCookies
    <3>2. CASE Receive(p)
      BY <3>2 DEF Receive, TypeOK, NoAnswer
    <3>3. CASE UNCHANGED answer
      BY <1>3, <3>3 DEF Cookies
    <3> QED
      BY <1>3, <3>1, <3>2, <3>3
      DEF Step, CheckSession, LoginCheck, LoginGranted, LoginRefused, LoginStore,
          ReadList, Send, RequestFails, Clear
  <2> QED
    BY <1>3, <2>1, <2>2, OwnPlace DEF Cookies
<1>4. ASSUME NEW s \in Sessions, Expire(s), UNCHANGED resends PROVE Cookies'
  BY <1>4 DEF Expire, control, Cookies
<1> QED
  BY <1>1, <1>2, <1>3, <1>4 DEF Next

-----------------------------------------------------------------------------
(* The session and its list change together: at a login and when cleared.   *)
LEMMA ListInvariant ==
  TypeOK /\ Cookies /\ ListOfItsSession /\ [Next]_vars => ListOfItsSession'
<1> SUFFICES ASSUME TypeOK, Cookies, ListOfItsSession, [Next]_vars
             PROVE  ListOfItsSession'
  OBVIOUS
<1>0. UNCHANGED resends
  BY DEF Next, vars
<1> SUFFICES ASSUME ~resends PROVE list' = TenantsOf(sid')
  BY <1>0 DEF ListOfItsSession
<1>1. list = TenantsOf(sid)
  BY DEF ListOfItsSession
<1>2. CASE UNCHANGED <<sid, list>>
  BY <1>1, <1>2
<1>3. ASSUME NEW p \in Callers, LoginStore(p) PROVE list' = TenantsOf(sid')
  BY <1>3 DEF LoginStore
<1>4. ASSUME NEW p \in Callers, Receive(p) PROVE UNCHANGED <<sid, list>>
  BY <1>4 DEF Receive, Cookies
<1>5. ASSUME NEW p \in Callers, Clear(p) PROVE list' = TenantsOf(sid')
  BY <1>5, SessionAssumption DEF Clear, TenantsOf
<1>6. ASSUME NEW p \in Callers, Request(p) \/ LoginTenants(p) PROVE UNCHANGED <<sid, list>>
  BY <1>6 DEF Request, LoginTenants, Start, client
<1>7. ASSUME NEW p \in Callers, Step(p), ~LoginStore(p), ~Receive(p), ~Clear(p)
      PROVE  UNCHANGED <<sid, list>>
  BY <1>7
  DEF Step, CheckSession, LoginCheck, LoginGranted, LoginRefused, ReadList, Send,
      Answer, RequestFails, client
<1>8. ASSUME NEW s \in Sessions, Expire(s) PROVE UNCHANGED <<sid, list>>
  BY <1>8 DEF Expire, client
<1>9. UNCHANGED vars => UNCHANGED <<sid, list>>
  BY DEF vars, client
<1> QED
  BY <1>1, <1>2, <1>3, <1>4, <1>5, <1>6, <1>7, <1>8, <1>9 DEF Next

-----------------------------------------------------------------------------
(* A call that starts ends the solitude of every other. *)
LEMMA SolitaryInvariant == TypeOK /\ Solitary /\ [Next]_vars => Solitary'
<1> SUFFICES ASSUME TypeOK, Solitary, [Next]_vars,
                    NEW r \in Callers, NEW q \in Callers, alone'[r], pc'[q] # "idle"
             PROVE  q = r
  BY DEF Solitary
<1>1. CASE UNCHANGED vars
  BY <1>1 DEF vars, control, history, Solitary
<1>2. ASSUME NEW p \in Callers, NEW where, NEW back, Start(p, where, back) PROVE q = r
  BY <1>2 DEF Start, Active, TypeOK
<1>3. ASSUME NEW p \in Callers, Step(p) PROVE q = r
  <2>1. alone[r]
    BY <1>3, AloneBefore
  <2>2. pc[q] # "idle"
    BY <1>3, Busy, OwnPlace
  <2> QED
    BY <2>1, <2>2 DEF Solitary
<1>4. ASSUME NEW s \in Sessions, Expire(s) PROVE q = r
  BY <1>4 DEF Expire, control, Solitary
<1> QED
  BY <1>1, <1>2, <1>3, <1>4 DEF Next, Request, LoginTenants

-----------------------------------------------------------------------------
(* A call that returns, for whatever reason, leaves its retry to the next.   *)
LEMMA RestedInvariant == TypeOK /\ Rested /\ [Next]_vars => Rested'
<1> SUFFICES ASSUME TypeOK, Rested, [Next]_vars, NEW q \in Callers, pc'[q] = "idle"
             PROVE  retry'[q]
  BY DEF Rested
<1>1. CASE UNCHANGED vars
  BY <1>1 DEF vars, control, Rested
<1>2. ASSUME NEW p \in Callers, NEW where \in {"check", "loginCheck"},
             NEW back, Start(p, where, back)
      PROVE  retry'[q]
  BY <1>2 DEF Start, TypeOK, Rested
<1>3. ASSUME NEW p \in Callers, Step(p) PROVE retry'[q]
  <2>1. CASE q = p
    <3>1. then[p] \in {"send", "retry", "list"}
      BY DEF TypeOK
    <3> QED
      BY <1>3, <2>1, <3>1
      DEF Step, CheckSession, LoginCheck, LoginGranted, LoginRefused, LoginStore,
          ReadList, Send, Answer, RequestFails, Receive, Clear, Return, Proceed, TypeOK
  <2>2. CASE q # p
    <3>1. pc[q] = "idle"
      BY <1>3, <2>2, OwnPlace
    <3>2. retry'[q] = retry[q]
      BY <1>3, <2>2
      DEF Step, CheckSession, LoginCheck, LoginGranted, LoginRefused, LoginStore,
          ReadList, Send, Answer, RequestFails, Receive, Clear, Return, Proceed, TypeOK
    <3> QED
      BY <3>1, <3>2 DEF Rested
  <2> QED
    BY <2>1, <2>2
<1>4. ASSUME NEW s \in Sessions, Expire(s) PROVE retry'[q]
  BY <1>4 DEF Expire, control, Rested
<1> QED
  BY <1>1, <1>2, <1>3, <1>4 DEF Next, Request, LoginTenants

-----------------------------------------------------------------------------
(* The steps of the one call that is on its way, and the expiries under it. *)
LEMMA LonelyStep ==
  ASSUME TypeOK, Cookies, NEW p \in Callers, Step(p), alone'[p],
         LoginsAnew(p), RetriesAlive(p), Rejected(p)
  PROVE  LoginsAnew(p)' /\ RetriesAlive(p)' /\ Rejected(p)'
<1> USE SessionAssumption DEF LoginsAnew, RetriesAlive, Rejected, TypeOK
<1>1. CASE CheckSession(p)
  BY <1>1 DEF CheckSession, client, history
<1>2. CASE LoginCheck(p)
  BY <1>2 DEF LoginCheck, Proceed, client, history
<1>3. CASE LoginGranted(p)
  BY <1>3 DEF LoginGranted, client, history
<1>4. CASE LoginRefused(p)
  BY <1>4 DEF LoginRefused, Return, client
<1>5. CASE LoginStore(p)
  BY <1>5 DEF LoginStore, Proceed, Cookies, history
<1>6. CASE ReadList(p)
  BY <1>6 DEF ReadList, Return, client
<1>7. CASE Send(p)
  BY <1>7 DEF Send, client, history
<1>8. CASE Answer(p)
  BY <1>8 DEF Answer, client, history
<1>9. CASE RequestFails(p)
  BY <1>9 DEF RequestFails, Return, client
<1>10. CASE Receive(p)
  BY <1>10 DEF Receive, Return, NoAnswer
<1>11. CASE Clear(p)
  BY <1>11 DEF Clear, history
<1> QED
  BY <1>1, <1>2, <1>3, <1>4, <1>5, <1>6, <1>7, <1>8, <1>9, <1>10, <1>11 DEF Step

LEMMA RecoveringInvariant ==
  TypeOK /\ Cookies /\ Solitary /\ Rested /\ Recovering /\ [Next]_vars => Recovering'
<1> SUFFICES ASSUME TypeOK, Cookies, Solitary, Rested, Recovering, [Next]_vars,
                    NEW r \in Callers, alone'[r]
             PROVE  LoginsAnew(r)' /\ RetriesAlive(r)' /\ Rejected(r)'
  BY DEF Recovering
<1>1. CASE UNCHANGED vars
  BY <1>1
  DEF vars, client, control, history, Recovering, LoginsAnew, RetriesAlive, Rejected
<1>2. ASSUME NEW p \in Callers, NEW where \in {"check", "loginCheck"},
             NEW back \in {"send", "list"}, Start(p, where, back)
      PROVE  LoginsAnew(r)' /\ RetriesAlive(r)' /\ Rejected(r)'
  <2>1. p = r /\ retry'[r]
    BY <1>2 DEF Start, TypeOK, Rested
  <2> QED
    BY <1>2, <2>1 DEF Start, client, TypeOK, LoginsAnew, RetriesAlive, Rejected
<1>3. ASSUME NEW p \in Callers, Step(p)
      PROVE  LoginsAnew(r)' /\ RetriesAlive(r)' /\ Rejected(r)'
  <2>1. alone[r] /\ pc[p] # "idle"
    BY <1>3, AloneBefore, Busy
  <2>2. p = r
    BY <2>1 DEF Solitary
  <2> QED
    BY <1>3, <2>1, <2>2, LonelyStep DEF Recovering
<1>4. ASSUME NEW s \in Sessions, Expire(s)
      PROVE  LoginsAnew(r)' /\ RetriesAlive(r)' /\ Rejected(r)'
  <2>1. alone[r] /\ LoginsAnew(r) /\ RetriesAlive(r) /\ Rejected(r)
    BY <1>4 DEF Expire, Recovering
  <2> QED
    BY <1>4, <2>1
    DEF Expire, client, control, Active, TypeOK, LoginsAnew, RetriesAlive, Rejected
<1> QED
  BY <1>1, <1>2, <1>3, <1>4 DEF Next, Request, LoginTenants

-----------------------------------------------------------------------------
LEMMA Initially == Init => IInv
  BY SessionAssumption
  DEF Init, IInv, TypeOK, Cookies, ListOfItsSession, TenantsOf, Solitary, Rested, Recovering,
      LoginsAnew, RetriesAlive, Rejected, NoAnswer

LEMMA Invariance == Spec => []IInv
<1>1. IInv /\ [Next]_vars => IInv'
  BY TypeInvariant, CookiesInvariant, ListInvariant, SolitaryInvariant,
     RestedInvariant, RecoveringInvariant DEF IInv
<1> QED
  BY Initially, <1>1, PTL DEF Spec

(* The shared session, the callers and their answers keep their shape. *)
THEOREM SessionTypeCorrect == Spec => []TypeOK
<1>1. IInv => TypeOK
  BY DEF IInv
<1> QED
  BY <1>1, Invariance, PTL

(* Whenever the controller sends the session id with logins only, the tenant *)
(* list is the one of the login that opened the session in place, empty if   *)
(* that login named none: clearSession and Login replace both at once, and   *)
(* no late answer can put back the one without the other.                    *)
THEOREM ListBelongsToSession == Spec => []ListOfItsSession
<1>1. IInv => ListOfItsSession
  BY DEF IInv
<1> QED
  BY <1>1, Invariance, PTL

(* doRaw's single retry is enough for a call that meets no other goroutine,  *)
(* whatever session earlier calls left behind: it fails for authentication   *)
(* only if the session expires once more after its first 401.                *)
THEOREM SoloRecovery == Spec => []SoloCallRecovers
<1>1. IInv => SoloCallRecovers
  BY DEF IInv, Recovering, Rejected, SoloCallRecovers
<1> QED
  BY <1>1, Invariance, PTL
=============================================================================
