-------------------------- MODULE AuthSessionsProofs --------------------------
(***************************************************************************)
(* Proofs about AuthSessions, for any addresses, tokens, sessions and      *)
(* connections.                                                            *)
(*                                                                         *)
(* That a credential opens at most one session rests on what a request     *)
(* between Consume and CreateSession owns: its credential is spent, no     *)
(* session comes from it yet, and no other request is at that point with   *)
(* the same credential (Ownership).  That a revoked session serves nobody  *)
(* rests on closed sessions being revoked for good (Closure).              *)
(***************************************************************************)
EXTENDS AuthSessions, TLAPS

USE TTLsArePositive, NoneIsNoValue, CookiesAreNotTokens, ClockIsBounded

\* Request r has spent its credential and not yet opened a session.
Owns(r) == pc[r] \in {"identify", "create"}

OwnedIsSpent ==
    \A r \in Requests : Owns(r) =>
        /\ credential[request[r].token].used
        /\ credential[request[r].token].provider = request[r].provider
        /\ \A s \in Sessions : session[s].from # request[r].token

OwnerIsIdentified ==
    \A r \in Requests : pc[r] = "create" =>
        /\ request[r].provider # "vk"
        /\ request[r].provider = "email" =>
             request[r].email = credential[request[r].token].email

OneOwner ==
    \A r1, r2 \in Requests :
        Owns(r1) /\ Owns(r2) /\ request[r1].token = request[r2].token => r1 = r2

Ownership == OwnedIsSpent /\ OwnerIsIdentified /\ OneOwner

CookieIsKnown ==
    /\ \A s \in held \cap Sessions : session[s] # NoSession
    /\ \A r \in Requests : pc[r] \in {"find", "serve", "revoke"} =>
         session[request[r].session] # NoSession

Closure ==
    /\ \A s \in closed : session[s].revoked
    /\ \A r \in Requests : late[r] => pc[r] # "idle" /\ request[r].session \in closed

LoginInv == TypeOK /\ Ownership /\ SessionsAreEarned /\ OneSessionPerCredential
              /\ CookieIsKnown
ServiceInv == LoginInv /\ Closure /\ NoServiceAfterRevocation /\ OnlyAllowedAreServed

-----------------------------------------------------------------------------
(* Type correctness                                                        *)

\* A request that is answered has the types of an idle one.
LEMMA AnswerKeepsTypes ==
    ASSUME TypeOK, NEW r \in Requests, Answer(r),
           clock' = clock, allowed' = allowed,
           credential' \in [Tokens -> Credential],
           session' \in [Sessions -> Session],
           held' \in SUBSET (Tokens \cup Sessions),
           closed' \in SUBSET Sessions
    PROVE  TypeOK'
<1>1. NoRequest \in Request
  BY DEF NoRequest, Request
<1>2. /\ pc' \in [Requests -> Steps]
      /\ request' \in [Requests -> Request]
      /\ late' \in [Requests -> BOOLEAN]
  BY <1>1 DEF TypeOK, Answer, Goto, Steps
<1>3. pc'[r] = "idle"
      /\ \A r1 \in Requests \ {r} : pc'[r1] = pc[r1] /\ request'[r1] = request[r1]
  BY DEF TypeOK, Answer, Goto
<1>4. ASSUME NEW r1 \in Requests
      PROVE  /\ pc'[r1] \in {"consume", "identify", "create"} =>
                  request'[r1].token \in Tokens /\ request'[r1].provider \in Providers
             /\ pc'[r1] \in {"find", "serve", "revoke"} =>
                  request'[r1].session \in Sessions
             /\ pc'[r1] = "create" => request'[r1].email \in Emails
  BY <1>3 DEF TypeOK
<1> QED  BY <1>2, <1>4 DEF TypeOK

LEMMA TypeStep == TypeOK /\ [Next]_vars => TypeOK'
<1> SUFFICES ASSUME TypeOK, [Next]_vars PROVE TypeOK'
  OBVIOUS
<1> USE DEF TypeOK, Goto, HandOut
<1>a. NoRequest \in Request
  BY DEF NoRequest, Request
<1>1. CASE UNCHANGED vars
  BY <1>1 DEF vars
<1>2. ASSUME NEW t \in Tokens, NEW p \in Providers, NEW e \in Emails \cup {None},
             Issue(t, p, e)
      PROVE  TypeOK'
  <2>1. [provider |-> p, email |-> e, expires |-> clock + TokenTTL, used |-> FALSE]
          \in Credential
    BY DEF Credential
  <2> QED  BY <1>2, <2>1 DEF Issue
<1>3. ASSUME NEW r \in Requests, NEW t \in Tokens, NEW p \in Providers,
             FollowLink(r, t, p)
      PROVE  TypeOK'
  <2>1. [NoRequest EXCEPT !.token = t, !.provider = p, !.now = clock] \in Request
    BY DEF NoRequest, Request
  <2> QED  BY <1>3, <2>1 DEF FollowLink, Steps, NoRequest
<1>4. ASSUME NEW r \in Requests, NEW s \in Sessions, NEW l \in {"find", "revoke"},
             SendCookie(r, s, l)
      PROVE  TypeOK'
  <2>1. [NoRequest EXCEPT !.session = s, !.now = clock] \in Request
    BY DEF NoRequest, Request
  <2> QED  BY <1>4, <2>1 DEF SendCookie, Steps, NoRequest
<1>5. ASSUME NEW r \in Requests, Consume(r) PROVE TypeOK'
  <2> DEFINE t == request[r].token
             p == request[r].provider
             l == AfterConsume(credential[t], p)
  <2>1. t \in Tokens /\ p \in Providers /\ credential[t] \in Credential
    BY <1>5 DEF Consume
  <2>2. credential' \in [Tokens -> Credential]
    BY <1>5, <2>1 DEF Consume, Credential
  <2>3. CASE l = "idle"
    <3>1. Answer(r) /\ UNCHANGED <<clock, allowed, session, held, closed>>
      BY <1>5, <2>3 DEF Consume
    <3> QED  BY <2>2, <3>1, AnswerKeepsTypes
  <2>4. CASE l # "idle"
    <3>1. l \in {"identify", "create"} /\ (l = "create" => credential[t].email \in Emails)
      BY <2>4 DEF AfterConsume
    <3>2. [request[r] EXCEPT !.email = credential[t].email] \in Request
      BY <2>1 DEF Request, Credential
    <3>3. /\ request' = [request EXCEPT ![r].email = credential[t].email]
          /\ pc' = [pc EXCEPT ![r] = l]
          /\ UNCHANGED <<clock, allowed, session, held, closed, late>>
      BY <1>5, <2>4 DEF Consume
    <3> HIDE DEF l
    <3>4. request' \in [Requests -> Request] /\ pc' \in [Requests -> Steps]
      BY <3>1, <3>2, <3>3 DEF Steps
    <3>5. request'[r].token \in Tokens /\ request'[r].provider \in Providers
          /\ request'[r].email = credential[t].email
      BY <2>1, <3>3 DEF Request
    <3> QED  BY <2>2, <3>1, <3>3, <3>4, <3>5
  <2> QED  BY <2>3, <2>4
<1>6. ASSUME NEW r \in Requests, NEW p \in OAuthProviders, NEW i \in Identities(p),
             Identify(r, i)
      PROVE  TypeOK'
  <2>1. CASE MayLogin(i)
    <3>1. i.email \in Emails
      BY <2>1 DEF MayLogin
    <3> QED  BY <1>6, <2>1, <3>1 DEF Identify, Steps, Request
  <2>2. CASE ~MayLogin(i)
    BY <1>6, <2>2, AnswerKeepsTypes DEF Identify
  <2> QED  BY <2>1, <2>2
<1>7. ASSUME NEW r \in Requests, NEW s \in Sessions, CreateSession(r, s) PROVE TypeOK'
  <2>1. [provider |-> request[r].provider, email |-> request[r].email,
         expires |-> clock + SessionTTL, revoked |-> FALSE,
         from |-> request[r].token] \in Session
    BY <1>7 DEF CreateSession, Session, Request
  <2>2. session' \in [Sessions -> Session] /\ held' \in SUBSET (Tokens \cup Sessions)
    BY <1>7, <2>1 DEF CreateSession
  <2> QED  BY <1>7, <2>2, AnswerKeepsTypes DEF CreateSession
<1>8. ASSUME NEW r \in Requests,
             ConsumeNothing(r) \/ IdentifyFails(r) \/ Serve(r) \/ RevokeFails(r) \/ Fail(r)
      PROVE  TypeOK'
  BY <1>8, AnswerKeepsTypes DEF ConsumeNothing, IdentifyFails, Serve, RevokeFails, Fail
<1>9. ASSUME NEW r \in Requests, Find(r) PROVE TypeOK'
  <2>1. CASE HasPrincipal(session[request[r].session], request[r].now)
    BY <1>9, <2>1 DEF Find, Steps
  <2>2. CASE ~HasPrincipal(session[request[r].session], request[r].now)
    BY <1>9, <2>2, AnswerKeepsTypes DEF Find
  <2> QED  BY <2>1, <2>2
<1>10. ASSUME NEW r \in Requests, Revoke(r) PROVE TypeOK'
  <2> DEFINE s == request[r].session
  <2>1. s \in Sessions /\ session[s] \in Session
    BY <1>10 DEF Revoke
  <2>2. [session[s] EXCEPT !.revoked = TRUE] \in Session
    BY <2>1 DEF Session
  <2>3. session' \in [Sessions -> Session] /\ closed' \in SUBSET Sessions
    BY <1>10, <2>1, <2>2 DEF Revoke, RevokeSession
  <2> QED  BY <1>10, <2>3, AnswerKeepsTypes DEF Revoke
<1>11. ASSUME NEW emails \in SUBSET Emails, Restart(emails) PROVE TypeOK'
  BY <1>11, <1>a DEF Restart, Steps
<1>12. CASE Tick
  BY <1>12 DEF Tick
<1>13. CASE Start
  BY <1>2, <1>13 DEF Start, StartOAuth, StartEmailLogin, Providers
<1> QED
  BY <1>1, <1>3, <1>4, <1>5, <1>6, <1>7, <1>8, <1>9, <1>10, <1>11, <1>12, <1>13
     DEF Next, Begin, Continue

\* For any number of addresses, tokens, sessions and connections, rows and
\* requests keep their types (service.go:24-60).
THEOREM TypeCorrect == Spec => []TypeOK
<1>1. Init => TypeOK
  BY DEF Init, TypeOK, NoCredential, Credential, NoSession, Session,
         NoRequest, Request, Steps
<1> QED  BY <1>1, TypeStep, PTL DEF Spec

-----------------------------------------------------------------------------
(* Logins                                                                  *)

\* What a step does to the requests other than r.
Others(r) ==
    \A r1 \in Requests \ {r} : pc'[r1] = pc[r1] /\ request'[r1] = request[r1]

LEMMA AnswerFacts ==
    ASSUME TypeOK, NEW r \in Requests, Answer(r)
    PROVE  Others(r) /\ pc'[r] = "idle"
BY DEF TypeOK, Answer, Goto, Others

\* A step of r that leaves the tables alone and does not make r an owner.
LEMMA QuietStep ==
    ASSUME LoginInv, NEW r \in Requests, Others(r), ~Owns(r)',
           UNCHANGED <<credential, session, held>>,
           pc'[r] \in {"find", "serve", "revoke"} =>
             session[request'[r].session] # NoSession
    PROVE  (Ownership /\ SessionsAreEarned /\ OneSessionPerCredential /\ CookieIsKnown)'
<1>1. \A r1 \in Requests : Owns(r1)' =>
        Owns(r1) /\ pc'[r1] = pc[r1] /\ request'[r1] = request[r1]
  BY DEF Others, Owns
<1>2. OwnedIsSpent' /\ OneOwner'
  BY <1>1 DEF LoginInv, Ownership, OwnedIsSpent, OneOwner
<1>3. OwnerIsIdentified'
  BY <1>1 DEF LoginInv, Ownership, OwnerIsIdentified, Owns
<1>4. SessionsAreEarned' /\ OneSessionPerCredential'
  BY DEF LoginInv, SessionsAreEarned, OneSessionPerCredential
<1>5. CookieIsKnown'
  BY DEF LoginInv, CookieIsKnown, Others
<1> QED  BY <1>2, <1>3, <1>4, <1>5 DEF Ownership

\* A new credential is none that anybody owns or a session comes from.
LEMMA IssueStep ==
    ASSUME LoginInv, NEW t \in Tokens, NEW p \in Providers,
           NEW e \in Emails \cup {None}, Issue(t, p, e)
    PROVE  (Ownership /\ SessionsAreEarned /\ OneSessionPerCredential /\ CookieIsKnown)'
<1>1. /\ UNCHANGED <<session, pc, request>>
      /\ held' \in {held, held \cup {t}}
      /\ \A t1 \in Tokens \ {t} : credential'[t1] = credential[t1]
      /\ ~credential[t].used
  BY DEF Issue, HandOut, LoginInv, TypeOK, NoCredential
<1>2. \A r \in Requests : Owns(r) =>
        request[r].token \in Tokens /\ request[r].token # t
  BY <1>1 DEF LoginInv, TypeOK, Ownership, OwnedIsSpent, Owns
<1>3. Ownership'
  <2>1. OwnedIsSpent'
    BY <1>1, <1>2 DEF LoginInv, Ownership, OwnedIsSpent, Owns
  <2>2. OwnerIsIdentified'
    BY <1>1, <1>2 DEF LoginInv, Ownership, OwnerIsIdentified, Owns
  <2>3. OneOwner'
    BY <1>1 DEF LoginInv, Ownership, OneOwner, Owns
  <2> QED  BY <2>1, <2>2, <2>3 DEF Ownership
<1>4. SessionsAreEarned'
  <2>1. \A s \in Sessions : session[s] # NoSession => session[s].from # t
    BY <1>1 DEF LoginInv, SessionsAreEarned
  <2> QED  BY <1>1, <2>1 DEF LoginInv, SessionsAreEarned
<1>5. OneSessionPerCredential' /\ CookieIsKnown'
  BY <1>1 DEF LoginInv, OneSessionPerCredential, CookieIsKnown
<1> QED  BY <1>3, <1>4, <1>5

\* Consume finds its credential unspent, so nobody else has come this far.
LEMMA ConsumeStep ==
    ASSUME LoginInv, NEW r \in Requests, Consume(r)
    PROVE  (Ownership /\ SessionsAreEarned /\ OneSessionPerCredential /\ CookieIsKnown)'
<1> DEFINE t == request[r].token
           p == request[r].provider
           l == AfterConsume(credential[t], p)
<1>1. /\ TypeOK /\ t \in Tokens /\ p \in Providers
      /\ credential[t] \in Credential /\ request[r] \in Request
      /\ ~credential[t].used
      /\ (credential[t].provider = "email") <=> (p = "email")
      /\ UNCHANGED <<session, held>>
  BY DEF Consume, IsValid, LoginInv, TypeOK
<1>2. credential' = [credential EXCEPT ![t] = [credential[t] EXCEPT !.used = TRUE]]
  BY <1>1 DEF Consume
<1>3. /\ \A t1 \in Tokens \ {t} : credential'[t1] = credential[t1]
      /\ credential'[t].used
      /\ credential'[t].provider = credential[t].provider
      /\ credential'[t].email = credential[t].email
  BY <1>1, <1>2 DEF TypeOK, Credential
<1>4. \A r1 \in Requests : Owns(r1) =>
        request[r1].token \in Tokens /\ request[r1].token # t
  BY <1>1 DEF LoginInv, TypeOK, Ownership, OwnedIsSpent, Owns
<1>5. /\ Others(r) /\ pc'[r] = l
      /\ l # "idle" => request'[r] = [request[r] EXCEPT !.email = credential[t].email]
  <2>1. CASE l = "idle"
    <3>1. Answer(r)
      BY <2>1 DEF Consume
    <3> QED  BY <1>1, <2>1, <3>1, AnswerFacts
  <2>2. CASE l # "idle"
    <3>1. /\ pc' = [pc EXCEPT ![r] = l]
          /\ request' = [request EXCEPT ![r].email = credential[t].email]
      BY <2>2 DEF Consume, Goto
    <3> HIDE DEF l
    <3> QED  BY <1>1, <3>1 DEF TypeOK, Others
  <2> QED  BY <2>1, <2>2
<1>6. /\ l \in {"identify", "create", "idle"}
      /\ l # "idle" => credential[t].provider = p
      /\ l = "create" => p = "email"
  BY <1>1 DEF AfterConsume
<1> HIDE DEF l
<1>7. l # "idle" => request'[r].token = t /\ request'[r].provider = p
                    /\ request'[r].email = credential[t].email
  BY <1>1, <1>5 DEF Request
<1>8. \A s \in Sessions : session[s].from # t
  <2>1. \A s \in Sessions : session[s] # NoSession => session[s].from # t
    BY <1>1 DEF LoginInv, SessionsAreEarned
  <2>2. NoSession.from # t
    BY <1>1 DEF NoSession
  <2> QED  BY <2>1, <2>2
<1>9. Ownership'
  <2>1. ASSUME NEW r1 \in Requests, Owns(r1)'
        PROVE  \/ r1 # r /\ Owns(r1) /\ pc'[r1] = pc[r1] /\ request'[r1] = request[r1]
               \/ r1 = r /\ l # "idle"
    BY <1>5, <2>1 DEF Others, Owns
  <2>2. OwnedIsSpent'
    BY <1>1, <1>3, <1>4, <1>6, <1>7, <1>8, <2>1
       DEF LoginInv, Ownership, OwnedIsSpent
  <2>3. OwnerIsIdentified'
    <3> SUFFICES ASSUME NEW r1 \in Requests, pc'[r1] = "create"
                 PROVE  /\ request'[r1].provider # "vk"
                        /\ request'[r1].provider = "email" =>
                             request'[r1].email = credential'[request'[r1].token].email
      BY DEF OwnerIsIdentified
    <3>1. CASE r1 = r
      BY <1>3, <1>5, <1>6, <1>7, <3>1
    <3>2. CASE r1 # r
      <4>1. pc[r1] = "create" /\ request'[r1] = request[r1]
        BY <1>5, <3>2 DEF Others
      <4>2. request[r1].token \in Tokens \ {t}
        BY <1>4, <4>1 DEF Owns
      <4> QED  BY <1>3, <4>1, <4>2 DEF LoginInv, Ownership, OwnerIsIdentified
    <3> QED  BY <3>1, <3>2
  <2>4. OneOwner'
    BY <1>4, <1>7, <2>1 DEF LoginInv, Ownership, OneOwner
  <2> QED  BY <2>2, <2>3, <2>4 DEF Ownership
<1>10. SessionsAreEarned'
  BY <1>1, <1>3 DEF LoginInv, SessionsAreEarned
<1>11. OneSessionPerCredential'
  BY <1>1 DEF LoginInv, OneSessionPerCredential
<1>12. CookieIsKnown'
  BY <1>1, <1>5, <1>6 DEF LoginInv, CookieIsKnown, Others
<1> QED  BY <1>9, <1>10, <1>11, <1>12

LEMMA IdentifyStep ==
    ASSUME LoginInv, NEW r \in Requests, NEW p \in OAuthProviders,
           NEW i \in Identities(p), request[r].provider = p, Identify(r, i)
    PROVE  (Ownership /\ SessionsAreEarned /\ OneSessionPerCredential /\ CookieIsKnown)'
<1>0. TypeOK
  BY DEF LoginInv
<1>1. CASE ~MayLogin(i)
  <2>1. Answer(r) /\ UNCHANGED <<credential, session, held>>
    BY <1>1 DEF Identify
  <2>2. Others(r) /\ pc'[r] = "idle"
    BY <1>0, <2>1, AnswerFacts
  <2>3. ~Owns(r)'
    BY <2>2 DEF Owns
  <2> QED  BY <2>1, <2>2, <2>3, QuietStep
<1>2. CASE MayLogin(i)
  <2>1. /\ pc[r] = "identify" /\ pc' = [pc EXCEPT ![r] = "create"]
        /\ request' = [request EXCEPT ![r].email = i.email]
        /\ UNCHANGED <<credential, session, held>>
    BY <1>2 DEF Identify, Goto
  <2>2. p # "vk" /\ p # "email"
    BY <1>2 DEF MayLogin, Identities, OAuthProviders
  <2>3. /\ Others(r) /\ pc'[r] = "create"
        /\ request'[r].token = request[r].token
        /\ request'[r].provider = p
    BY <1>0, <2>1 DEF TypeOK, Others, Request
  <2>4. \A r1 \in Requests :
          /\ Owns(r1)' => Owns(r1)
          /\ request'[r1].token = request[r1].token
          /\ request'[r1].provider = request[r1].provider
    BY <2>1, <2>3 DEF Others, Owns
  <2>5. OwnedIsSpent' /\ OneOwner'
    BY <2>1, <2>4 DEF LoginInv, Ownership, OwnedIsSpent, OneOwner
  <2>6. OwnerIsIdentified'
    BY <2>1, <2>2, <2>3 DEF LoginInv, Ownership, OwnerIsIdentified, Others
  <2>7. SessionsAreEarned' /\ OneSessionPerCredential'
    BY <2>1 DEF LoginInv, SessionsAreEarned, OneSessionPerCredential
  <2>8. CookieIsKnown'
    BY <2>1, <2>3 DEF LoginInv, CookieIsKnown, Others
  <2> QED  BY <2>5, <2>6, <2>7, <2>8 DEF Ownership
<1> QED  BY <1>1, <1>2

LEMMA CreateStep ==
    ASSUME LoginInv, NEW r \in Requests, NEW s \in Sessions, CreateSession(r, s)
    PROVE  (Ownership /\ SessionsAreEarned /\ OneSessionPerCredential /\ CookieIsKnown)'
<1> DEFINE t == request[r].token
           new == [provider |-> request[r].provider, email |-> request[r].email,
                   expires |-> clock + SessionTTL, revoked |-> FALSE, from |-> t]
<1>1. /\ TypeOK /\ t \in Tokens /\ pc[r] = "create" /\ Owns(r)
      /\ session[s] = NoSession
      /\ session' = [session EXCEPT ![s] = new]
      /\ held' \in {held, held \cup {s}}
      /\ Answer(r) /\ credential' = credential
  BY DEF CreateSession, HandOut, LoginInv, TypeOK, Owns
<1>2. Others(r) /\ pc'[r] = "idle"
  BY <1>1, AnswerFacts
<1>3. /\ \A s1 \in Sessions \ {s} : session'[s1] = session[s1]
      /\ session'[s] = new
  BY <1>1 DEF TypeOK
<1>4. new # NoSession
  BY <1>1 DEF NoSession
<1>5. \A r1 \in Requests : Owns(r1)' =>
        r1 # r /\ Owns(r1) /\ pc'[r1] = pc[r1] /\ request'[r1] = request[r1]
  BY <1>2 DEF Others, Owns
<1>6. OwnedIsSpent'
  <2>1. \A r1 \in Requests : Owns(r1)' => request[r1].token # t
    BY <1>1, <1>5 DEF LoginInv, Ownership, OneOwner
  <2> QED  BY <1>1, <1>3, <1>5, <2>1 DEF LoginInv, Ownership, OwnedIsSpent
<1>7. OwnerIsIdentified' /\ OneOwner'
  BY <1>1, <1>5 DEF LoginInv, Ownership, OwnerIsIdentified, OneOwner, Owns
<1>8. SessionsAreEarned'
  <2>1. /\ credential[t].used /\ credential[t].provider = request[r].provider
        /\ request[r].provider = "email" => request[r].email = credential[t].email
        /\ request[r].provider # "vk"
    BY <1>1 DEF LoginInv, Ownership, OwnedIsSpent, OwnerIsIdentified
  <2> QED  BY <1>1, <1>3, <2>1 DEF LoginInv, SessionsAreEarned
<1>9. OneSessionPerCredential'
  <2>1. \A s1 \in Sessions : session[s1].from # t
    BY <1>1 DEF LoginInv, Ownership, OwnedIsSpent
  <2> QED  BY <1>3, <2>1 DEF LoginInv, OneSessionPerCredential
<1>10. CookieIsKnown'
  BY <1>1, <1>2, <1>3, <1>4 DEF LoginInv, CookieIsKnown, Others, TypeOK
<1> QED  BY <1>6, <1>7, <1>8, <1>9, <1>10 DEF Ownership

LEMMA RevokeStep ==
    ASSUME LoginInv, NEW r \in Requests, Revoke(r)
    PROVE  (Ownership /\ SessionsAreEarned /\ OneSessionPerCredential /\ CookieIsKnown)'
<1> DEFINE s == request[r].session
<1>1. /\ TypeOK /\ s \in Sessions /\ session[s] \in Session
      /\ session[s] # NoSession
      /\ Answer(r) /\ UNCHANGED <<credential, held>>
  BY DEF Revoke, LoginInv, TypeOK, CookieIsKnown
<1>2. session' = [session EXCEPT ![s] = [session[s] EXCEPT !.revoked = TRUE]]
  BY <1>1 DEF Revoke, RevokeSession
<1>3. \A s1 \in Sessions :
        /\ session'[s1].provider = session[s1].provider
        /\ session'[s1].email = session[s1].email
        /\ session'[s1].from = session[s1].from
  BY <1>1, <1>2 DEF TypeOK, Session
<1>4. session[s].from # None
  BY <1>1 DEF LoginInv, SessionsAreEarned
<1>5. \A s1 \in Sessions : session'[s1] # NoSession <=> session[s1] # NoSession
  <2>1. session'[s] # NoSession
    BY <1>3, <1>4, <1>1 DEF NoSession
  <2> QED  BY <1>1, <1>2, <2>1 DEF TypeOK
<1>6. Others(r) /\ pc'[r] = "idle"
  BY <1>1, AnswerFacts
<1>7. \A r1 \in Requests : Owns(r1)' =>
        Owns(r1) /\ pc'[r1] = pc[r1] /\ request'[r1] = request[r1]
  BY <1>6 DEF Others, Owns
<1>8. OwnedIsSpent' /\ OneOwner'
  BY <1>1, <1>3, <1>7 DEF LoginInv, Ownership, OwnedIsSpent, OneOwner
<1>9. OwnerIsIdentified'
  BY <1>1, <1>7 DEF LoginInv, Ownership, OwnerIsIdentified, Owns
<1>10. SessionsAreEarned'
  BY <1>1, <1>3, <1>5 DEF LoginInv, SessionsAreEarned
<1>11. OneSessionPerCredential'
  BY <1>3 DEF LoginInv, OneSessionPerCredential
<1>12. CookieIsKnown'
  BY <1>1, <1>5, <1>6 DEF LoginInv, CookieIsKnown, Others, TypeOK
<1> QED  BY <1>8, <1>9, <1>10, <1>11, <1>12 DEF Ownership

LEMMA LoginStep == LoginInv /\ [Next]_vars => LoginInv'
<1> SUFFICES ASSUME LoginInv, [Next]_vars
             PROVE  (Ownership /\ SessionsAreEarned /\ OneSessionPerCredential
                      /\ CookieIsKnown)'
  BY TypeStep DEF LoginInv
<1>1. CASE UNCHANGED <<credential, session, held, pc, request>>
  <2>1. Ownership'
    BY <1>1 DEF LoginInv, Ownership, OwnedIsSpent, OwnerIsIdentified, OneOwner, Owns
  <2> QED  BY <1>1, <2>1 DEF LoginInv, SessionsAreEarned, OneSessionPerCredential,
                            CookieIsKnown
<1>2. ASSUME NEW r \in Requests,
             ConsumeNothing(r) \/ IdentifyFails(r) \/ Serve(r) \/ RevokeFails(r) \/ Fail(r)
      PROVE  (Ownership /\ SessionsAreEarned /\ OneSessionPerCredential /\ CookieIsKnown)'
  <2>1. Answer(r) /\ UNCHANGED <<credential, session, held>>
    BY <1>2 DEF ConsumeNothing, IdentifyFails, Serve, RevokeFails, Fail
  <2>2. Others(r) /\ pc'[r] = "idle"
    BY <2>1, AnswerFacts DEF LoginInv
  <2>3. ~Owns(r)'
    BY <2>2 DEF Owns
  <2> QED  BY <2>1, <2>2, <2>3, QuietStep
<1>3. ASSUME NEW r \in Requests, NEW t \in Tokens, NEW p \in Providers,
             FollowLink(r, t, p)
      PROVE  (Ownership /\ SessionsAreEarned /\ OneSessionPerCredential /\ CookieIsKnown)'
  <2>1. Others(r) /\ pc'[r] = "consume" /\ UNCHANGED <<credential, session, held>>
    BY <1>3 DEF FollowLink, Goto, Others, LoginInv, TypeOK
  <2>2. ~Owns(r)'
    BY <2>1 DEF Owns
  <2> QED  BY <2>1, <2>2, QuietStep
<1>4. ASSUME NEW r \in Requests, NEW s \in Sessions, NEW l \in {"find", "revoke"},
             SendCookie(r, s, l)
      PROVE  (Ownership /\ SessionsAreEarned /\ OneSessionPerCredential /\ CookieIsKnown)'
  <2>1. /\ Others(r) /\ pc'[r] = l /\ UNCHANGED <<credential, session, held>>
        /\ request'[r] = [NoRequest EXCEPT !.session = s, !.now = clock]
        /\ s \in held
    BY <1>4 DEF SendCookie, Goto, Others, LoginInv, TypeOK
  <2>2. request'[r].session = s
    BY <2>1 DEF NoRequest
  <2>3. session[request'[r].session] # NoSession
    BY <2>1, <2>2 DEF LoginInv, CookieIsKnown
  <2>4. ~Owns(r)'
    BY <2>1 DEF Owns
  <2> QED  BY <2>1, <2>3, <2>4, QuietStep
<1>5. ASSUME NEW r \in Requests, Find(r)
      PROVE  (Ownership /\ SessionsAreEarned /\ OneSessionPerCredential /\ CookieIsKnown)'
  <2>1. CASE HasPrincipal(session[request[r].session], request[r].now)
    <3>1. /\ Others(r) /\ pc[r] = "find" /\ pc'[r] = "serve"
          /\ request' = request /\ UNCHANGED <<credential, session, held>>
      BY <1>5, <2>1 DEF Find, Goto, Others, LoginInv, TypeOK
    <3>2. session[request'[r].session] # NoSession
      BY <3>1 DEF LoginInv, CookieIsKnown
    <3>3. ~Owns(r)'
      BY <3>1 DEF Owns
    <3> QED  BY <3>1, <3>2, <3>3, QuietStep
  <2>2. CASE ~HasPrincipal(session[request[r].session], request[r].now)
    <3>1. Answer(r) /\ UNCHANGED <<credential, session, held>>
      BY <1>5, <2>2 DEF Find
    <3>2. Others(r) /\ pc'[r] = "idle"
      BY <3>1, AnswerFacts DEF LoginInv
    <3>3. ~Owns(r)'
      BY <3>2 DEF Owns
    <3> QED  BY <3>1, <3>2, <3>3, QuietStep
  <2> QED  BY <2>1, <2>2
<1>6. ASSUME NEW emails \in SUBSET Emails, Restart(emails)
      PROVE  (Ownership /\ SessionsAreEarned /\ OneSessionPerCredential /\ CookieIsKnown)'
  <2>1. /\ \A r \in Requests : pc'[r] = "idle"
        /\ UNCHANGED <<credential, session, held>>
    BY <1>6 DEF Restart
  <2>2. Ownership'
    BY <2>1 DEF Ownership, OwnedIsSpent, OwnerIsIdentified, OneOwner, Owns
  <2> QED  BY <2>1, <2>2 DEF LoginInv, SessionsAreEarned, OneSessionPerCredential,
                            CookieIsKnown
<1>7. CASE Start
  BY <1>7, IssueStep DEF Start, StartOAuth, StartEmailLogin, Providers
<1>8. CASE Tick \/ UNCHANGED vars
  BY <1>1, <1>8 DEF Tick, vars
<1> QED
  BY <1>2, <1>3, <1>4, <1>5, <1>6, <1>7, <1>8, ConsumeStep, IdentifyStep,
     CreateStep, RevokeStep DEF Next, Begin, Continue

LEMMA LoginInvariance == Spec => []LoginInv
<1>1. Init => LoginInv
  <2> SUFFICES ASSUME Init PROVE LoginInv
    OBVIOUS
  <2>1. TypeOK
    BY DEF Init, TypeOK, NoCredential, Credential, NoSession, Session,
           NoRequest, Request, Steps
  <2>2. Ownership
    BY DEF Init, Ownership, OwnedIsSpent, OwnerIsIdentified, OneOwner, Owns
  <2>3. SessionsAreEarned /\ OneSessionPerCredential /\ CookieIsKnown
    BY DEF Init, SessionsAreEarned, OneSessionPerCredential, CookieIsKnown, NoSession
  <2> QED  BY <2>1, <2>2, <2>3 DEF LoginInv
<1> QED  BY <1>1, LoginStep, PTL DEF Spec

\* However often and however concurrently links and callbacks are followed,
\* no two sessions come from one credential (service.go:229-262, 303-311).
THEOREM CredentialsAreSingleUse == Spec => []OneSessionPerCredential
<1>1. LoginInv => OneSessionPerCredential
  BY DEF LoginInv
<1> QED  BY <1>1, LoginInvariance, PTL

\* Every session is that of a spent credential of its provider and, for an
\* email link, of its address (service.go:229-255, 303-311).
THEOREM LoginsAreEarned == Spec => []SessionsAreEarned
<1>1. LoginInv => SessionsAreEarned
  BY DEF LoginInv
<1> QED  BY <1>1, LoginInvariance, PTL

-----------------------------------------------------------------------------
(* Logouts *)

\* A revoked session stays revoked: CreateSession writes only new rows, and
\* a session that is closed has one.
LEMMA ClosedStaysRevoked ==
    ASSUME ServiceInv, [Next]_vars
    PROVE  /\ \A s \in closed : session'[s].revoked
           /\ closed \subseteq closed'
           /\ \A s \in Sessions : session[s] # NoSession => session'[s].email = session[s].email
<1>0. TypeOK /\ \A s \in closed : s \in Sessions /\ session[s].revoked /\ session[s] # NoSession
  BY DEF ServiceInv, LoginInv, TypeOK, Closure, NoSession
<1>1. CASE UNCHANGED <<session, closed>>
  BY <1>0, <1>1
<1>2. ASSUME NEW r \in Requests, NEW s \in Sessions, CreateSession(r, s)
      PROVE  /\ \A s1 \in closed : session'[s1].revoked
             /\ closed \subseteq closed'
             /\ \A s1 \in Sessions :
                  session[s1] # NoSession => session'[s1].email = session[s1].email
  <2>1. /\ session[s] = NoSession /\ closed' = closed
        /\ \A s1 \in Sessions \ {s} : session'[s1] = session[s1]
    BY <1>0, <1>2 DEF CreateSession, TypeOK
  <2> QED  BY <1>0, <2>1
<1>3. ASSUME NEW r \in Requests, Revoke(r)
      PROVE  /\ \A s1 \in closed : session'[s1].revoked
             /\ closed \subseteq closed'
             /\ \A s1 \in Sessions :
                  session[s1] # NoSession => session'[s1].email = session[s1].email
  <2> DEFINE s == request[r].session
  <2>1. /\ s \in Sessions /\ session[s] \in Session
        /\ closed \subseteq closed'
        /\ session' = [session EXCEPT ![s] = [session[s] EXCEPT !.revoked = TRUE]]
    BY <1>0, <1>3 DEF Revoke, RevokeSession, TypeOK
  <2>2. /\ session'[s].revoked /\ session'[s].email = session[s].email
        /\ \A s1 \in Sessions \ {s} : session'[s1] = session[s1]
    BY <1>0, <2>1 DEF TypeOK, Session
  <2> QED  BY <1>0, <2>1, <2>2
<1>4. CASE UNCHANGED vars
  BY <1>1, <1>4 DEF vars
<1>5. ASSUME NEW r \in Requests, Consume(r) \/ ConsumeNothing(r) \/ IdentifyFails(r)
                                 \/ Find(r) \/ Serve(r) \/ RevokeFails(r) \/ Fail(r) \/ Begin(r)
      PROVE  UNCHANGED <<session, closed>>
  BY <1>5 DEF Consume, ConsumeNothing, IdentifyFails, Find, Serve, RevokeFails, Fail, Begin,
              FollowLink, SendCookie
<1>6. ASSUME NEW r \in Requests, NEW p \in OAuthProviders, NEW i \in Identities(p),
             Identify(r, i)
      PROVE  UNCHANGED <<session, closed>>
  BY <1>6 DEF Identify
<1>7. CASE Start \/ Tick \/ \E emails \in SUBSET Emails : Restart(emails)
  BY <1>1, <1>7 DEF Start, StartOAuth, StartEmailLogin, Issue, Tick, Restart
<1> QED  BY <1>1, <1>2, <1>3, <1>4, <1>5, <1>6, <1>7 DEF Next, Continue

\* What Closure and the two properties say of one request.
Sound(r) ==
    /\ late[r] => pc[r] # "idle" /\ request[r].session \in closed
    /\ pc[r] = "serve" =>
         ~late[r] /\ session[request[r].session].email \in allowed

\* A request that a step leaves alone stays sound.
LEMMA SoundStays ==
    ASSUME ServiceInv, [Next]_vars, allowed' = allowed, NEW r \in Requests,
           pc'[r] = pc[r], late'[r] = late[r],
           request'[r].session = request[r].session
    PROVE  Sound(r)'
<1>1. closed \subseteq closed'
  BY ClosedStaysRevoked
<1>2. ASSUME pc[r] = "serve"
      PROVE  session'[request'[r].session].email = session[request[r].session].email
  <2>1. request[r].session \in Sessions /\ session[request[r].session] # NoSession
    BY <1>2 DEF ServiceInv, LoginInv, TypeOK, CookieIsKnown
  <2> QED  BY <2>1, ClosedStaysRevoked
<1> QED
  BY <1>1, <1>2 DEF Sound, ServiceInv, Closure, NoServiceAfterRevocation, OnlyAllowedAreServed

LEMMA ServiceStep == ServiceInv /\ [Next]_vars => ServiceInv'
<1> SUFFICES ASSUME ServiceInv, [Next]_vars
             PROVE  (\A s \in closed : session[s].revoked)' /\ \A r \in Requests : Sound(r)'
  BY LoginStep DEF ServiceInv, Closure, Sound, NoServiceAfterRevocation, OnlyAllowedAreServed
<1>0. TypeOK /\ LoginInv
  BY DEF ServiceInv, LoginInv
<1>a. \A s \in closed : session'[s].revoked
  BY ClosedStaysRevoked
<1> DEFINE Alone(r) == pc'[r] = pc[r] /\ late'[r] = late[r] /\ request'[r] = request[r]
           OthersAlone(r) == \A r1 \in Requests \ {r} : Alone(r1)
<1>b. ASSUME allowed' = allowed, NEW r \in Requests, Sound(r)', OthersAlone(r)
      PROVE  \A r1 \in Requests : Sound(r1)'
  BY <1>b, SoundStays
<1>c. ASSUME NEW r \in Requests, Answer(r) PROVE Sound(r)' /\ OthersAlone(r)
  BY <1>0, <1>c DEF Answer, Goto, TypeOK, Sound
<1>1. CASE UNCHANGED <<allowed, session, pc, request, closed, late>>
  <2>1. \A r \in Requests : Sound(r)'
    BY <1>1, SoundStays
  <2> QED  BY <1>1, <1>a, <2>1
<1>2. ASSUME NEW r \in Requests, Answer(r), UNCHANGED <<allowed, closed>>
      PROVE  (\A s \in closed : session[s].revoked)' /\ \A r1 \in Requests : Sound(r1)'
  BY <1>2, <1>a, <1>b, <1>c
<1>3. ASSUME NEW r \in Requests, NEW t \in Tokens, NEW p \in Providers,
             FollowLink(r, t, p)
      PROVE  \A r1 \in Requests : Sound(r1)'
  <2>1. ~late[r]
    BY <1>3 DEF FollowLink, ServiceInv, Closure
  <2>2. Sound(r)' /\ OthersAlone(r) /\ allowed' = allowed
    BY <1>0, <1>3, <2>1 DEF FollowLink, Goto, TypeOK, Sound
  <2> QED  BY <2>2, <1>b
<1>4. ASSUME NEW r \in Requests, NEW s \in Sessions, NEW l \in {"find", "revoke"},
             SendCookie(r, s, l)
      PROVE  \A r1 \in Requests : Sound(r1)'
  <2>1. request'[r].session = s
    BY <1>0, <1>4 DEF SendCookie, TypeOK, NoRequest
  <2>2. /\ pc'[r] = l /\ late'[r] = (s \in closed)
        /\ allowed' = allowed /\ closed' = closed
    BY <1>0, <1>4 DEF SendCookie, Goto, TypeOK
  <2>3. OthersAlone(r)
    BY <1>0, <1>4 DEF SendCookie, Goto, TypeOK
  <2>4. Sound(r)'
    BY <2>1, <2>2 DEF Sound
  <2> QED  BY <2>2, <2>3, <2>4, <1>b
<1>5. ASSUME NEW r \in Requests, NEW l \in {"identify", "create"},
             NEW e \in Emails \cup {None}, Goto(r, l), UNCHANGED <<late, allowed, closed>>,
             request' = [request EXCEPT ![r].email = e]
      PROVE  \A r1 \in Requests : Sound(r1)'
  <2>1. request[r] \in Request
    BY <1>0 DEF TypeOK
  <2>2. request'[r] = [request[r] EXCEPT !.email = e]
    BY <1>0, <1>5 DEF TypeOK
  <2>3. request'[r].session = request[r].session
    BY <2>1, <2>2 DEF Request
  <2>4. pc'[r] = l /\ OthersAlone(r)
    BY <1>0, <1>5 DEF Goto, TypeOK
  <2>5. Sound(r)'
    BY <1>5, <2>3, <2>4 DEF Sound, ServiceInv, Closure
  <2> QED  BY <1>5, <2>4, <2>5, <1>b
<1>6. ASSUME NEW r \in Requests, Consume(r)
      PROVE  \A r1 \in Requests : Sound(r1)'
  <2> DEFINE row == credential[request[r].token]
             l == AfterConsume(row, request[r].provider)
  <2>1. UNCHANGED <<allowed, closed>>
    BY <1>6 DEF Consume
  <2>2. CASE l = "idle"
    <3>1. Answer(r)
      BY <1>6, <2>2 DEF Consume
    <3> QED  BY <2>1, <3>1, <1>2
  <2>3. CASE l # "idle"
    <3>1. l \in {"identify", "create"}
      BY <2>3 DEF AfterConsume
    <3>2. row.email \in Emails \cup {None}
      BY <1>0, <1>6 DEF Consume, TypeOK, Credential
    <3>3. Goto(r, l) /\ UNCHANGED late
          /\ request' = [request EXCEPT ![r].email = row.email]
      BY <1>6, <2>3 DEF Consume
    <3> HIDE DEF l, row
    <3> QED  BY <2>1, <3>1, <3>2, <3>3, <1>5
  <2> QED  BY <2>2, <2>3
<1>7. ASSUME NEW r \in Requests, NEW p \in OAuthProviders, NEW i \in Identities(p),
             Identify(r, i)
      PROVE  \A r1 \in Requests : Sound(r1)'
  <2>1. CASE MayLogin(i)
    <3>1. i.email \in Emails \cup {None}
      BY DEF Identities
    <3>2. /\ Goto(r, "create") /\ UNCHANGED <<late, allowed, closed>>
          /\ request' = [request EXCEPT ![r].email = i.email]
      BY <1>7, <2>1 DEF Identify
    <3> QED  BY <3>1, <3>2, <1>5
  <2>2. CASE ~MayLogin(i)
    BY <1>7, <2>2, <1>2 DEF Identify
  <2> QED  BY <2>1, <2>2
<1>8. ASSUME NEW r \in Requests, Find(r)
      PROVE  \A r1 \in Requests : Sound(r1)'
  <2> DEFINE s == request[r].session
  <2>1. CASE HasPrincipal(session[s], request[r].now)
    <3>1. /\ ~session[s].revoked /\ session[s].email \in allowed
          /\ pc' = [pc EXCEPT ![r] = "serve"]
          /\ UNCHANGED <<request, late, allowed, session, closed>>
      BY <1>8, <2>1 DEF Find, HasPrincipal, IsOpen, Goto
    <3>2. ~late[r]
      BY <3>1 DEF ServiceInv, Closure
    <3>3. Sound(r)' /\ OthersAlone(r)
      BY <1>0, <3>1, <3>2 DEF TypeOK, Sound
    <3> QED  BY <3>1, <3>3, <1>b
  <2>2. CASE ~HasPrincipal(session[s], request[r].now)
    BY <1>8, <2>2, <1>2 DEF Find
  <2> QED  BY <2>1, <2>2
<1>9. ASSUME NEW r \in Requests, Revoke(r)
      PROVE  (\A s \in closed : session[s].revoked)' /\ \A r1 \in Requests : Sound(r1)'
  <2> DEFINE s == request[r].session
  <2>1. s \in Sessions /\ session[s] \in Session
    BY <1>0, <1>9 DEF Revoke, TypeOK
  <2>2. session'[s].revoked
    BY <1>0, <1>9, <2>1 DEF Revoke, RevokeSession, TypeOK, Session
  <2>3. (\A s1 \in closed : session[s1].revoked)'
    BY <1>9, <1>a, <2>2 DEF Revoke
  <2>4. Answer(r) /\ allowed' = allowed
    BY <1>9 DEF Revoke
  <2> QED  BY <2>3, <2>4, <1>b, <1>c
<1>10. ASSUME NEW r \in Requests, NEW s \in Sessions, CreateSession(r, s)
      PROVE  (\A s1 \in closed : session[s1].revoked)' /\ \A r1 \in Requests : Sound(r1)'
  BY <1>10, <1>2 DEF CreateSession
<1>11. ASSUME NEW emails \in SUBSET Emails, Restart(emails)
      PROVE  \A r \in Requests : Sound(r)'
  BY <1>11 DEF Restart, Sound
<1>12. ASSUME closed' = closed PROVE (\A s \in closed : session[s].revoked)'
  BY <1>12, <1>a
<1>13. ASSUME NEW r \in Requests,
              ConsumeNothing(r) \/ IdentifyFails(r) \/ Serve(r) \/ RevokeFails(r) \/ Fail(r)
       PROVE  Answer(r) /\ UNCHANGED <<allowed, closed>>
  BY <1>13 DEF ConsumeNothing, IdentifyFails, Serve, RevokeFails, Fail
<1>14. CASE Start \/ Tick \/ UNCHANGED vars
  <2>1. CASE Tick \/ UNCHANGED vars
    BY <1>1, <2>1 DEF Tick, vars
  <2>2. CASE Start
    <3>1. UNCHANGED <<allowed, session, pc, request, closed, late>>
      BY <2>2 DEF Start, StartOAuth, StartEmailLogin, Issue
    <3> QED  BY <3>1, <1>1
  <2> QED  BY <1>14, <2>1, <2>2
<1>15. /\ \A r \in Requests : Consume(r) \/ Find(r) \/ Begin(r) => closed' = closed
       /\ \A r \in Requests, p \in OAuthProviders : \A i \in Identities(p) :
            Identify(r, i) => closed' = closed
       /\ \A emails \in SUBSET Emails : Restart(emails) => closed' = closed
  BY DEF Consume, Find, Begin, FollowLink, SendCookie, Identify, Restart
<1> HIDE DEF Alone, OthersAlone
<1> QED
  <2>1. CASE Start \/ Tick \/ UNCHANGED vars
    BY <1>14, <2>1
  <2>2. ASSUME NEW r \in Requests, Begin(r)
        PROVE  (\A s \in closed : session[s].revoked)' /\ \A r1 \in Requests : Sound(r1)'
    BY <2>2, <1>3, <1>4, <1>12, <1>15 DEF Begin
  <2>3. ASSUME NEW r \in Requests, Continue(r) \/ Fail(r)
        PROVE  (\A s \in closed : session[s].revoked)' /\ \A r1 \in Requests : Sound(r1)'
    BY <2>3, <1>2, <1>6, <1>8, <1>9, <1>10, <1>12, <1>13, <1>15 DEF Continue
  <2>4. ASSUME NEW r \in Requests, NEW p \in OAuthProviders, NEW i \in Identities(p),
               Identify(r, i)
        PROVE  (\A s \in closed : session[s].revoked)' /\ \A r1 \in Requests : Sound(r1)'
    BY <2>4, <1>7, <1>12, <1>15
  <2>5. ASSUME NEW emails \in SUBSET Emails, Restart(emails)
        PROVE  (\A s \in closed : session[s].revoked)' /\ \A r1 \in Requests : Sound(r1)'
    BY <2>5, <1>11, <1>12, <1>15
  <2> QED  BY <2>1, <2>2, <2>3, <2>4, <2>5 DEF Next

LEMMA ServiceInvariance == Spec => []ServiceInv
<1>1. LoginInv /\ Init => ServiceInv
  BY DEF Init, ServiceInv, Closure, NoServiceAfterRevocation, OnlyAllowedAreServed
<1> QED  BY <1>1, LoginInvariance, ServiceStep, PTL DEF Spec

\* Once the UPDATE of a logout has revoked a session, no later request with
\* its cookie is served, for any number of logins and requests
\* (service.go:314-335).  A logout whose UPDATE failed is answered alike and is
\* not covered (handler.go:210-219).
THEOREM RevocationIsFinal == Spec => []NoServiceAfterRevocation
<1>1. ServiceInv => NoServiceAfterRevocation
  BY DEF ServiceInv
<1> QED  BY <1>1, ServiceInvariance, PTL

\* Whoever is served is on the allow-list of the running process, whatever
\* list the session was opened under (service.go:314-328).
THEOREM ServedAreOnTheList == Spec => []OnlyAllowedAreServed
<1>1. ServiceInv => OnlyAllowedAreServed
  BY DEF ServiceInv
<1> QED  BY <1>1, ServiceInvariance, PTL

=============================================================================
