----------------------------- MODULE AuthSessions -----------------------------
(***************************************************************************)
(* Login and sessions: internal/auth/service.go on the tables              *)
(* auth_oauth_states, auth_email_tokens and auth_sessions.  A login starts *)
(* with a credential, the state of an OAuth redirect or the token of an    *)
(* email link, that one UPDATE spends; the session is inserted later,      *)
(* after the OAuth provider has been asked who the user is.  No            *)
(* transaction spans these statements, and links and callbacks may be      *)
(* followed twice, late, or at the same time.                              *)
(*                                                                         *)
(* Tokens are 32 random bytes, so a new one differs from all others; the   *)
(* tables hold their hashes.  The allow-list is read at start, so only a   *)
(* restart changes it.  AUTH_DEV_BYPASS is off, and what the rate limiter  *)
(* refuses never gets here.                                                *)
(***************************************************************************)
EXTENDS Naturals

CONSTANTS
    Emails,         \* normalized addresses
    Tokens,         \* values of states and of email tokens
    Sessions,       \* values of session cookies
    Requests,       \* connections, each with one request in flight
    None,           \* no email, no token, no row
    TokenTTL, SessionTTL,
    MaxClock        \* bound: last tick of the clock

ASSUME TTLsArePositive == TokenTTL \in Nat \ {0} /\ SessionTTL \in Nat \ {0}
ASSUME NoneIsNoValue == None \notin Emails \cup Tokens \cup Sessions
ASSUME CookiesAreNotTokens == Tokens \cap Sessions = {}
ASSUME ClockIsBounded == MaxClock \in Nat

VARIABLES
    clock,
    allowed,        \* AUTH_ALLOWED_EMAILS of the running process
    credential,     \* credential[t]: row of auth_oauth_states or auth_email_tokens
    session,        \* session[s]: row of auth_sessions
    held,           \* tokens and cookies that have reached a browser
    pc,             \* pc[r]: what request r does next
    request,        \* request[r]: what it carries
    closed,         \* sessions that a logout has revoked
    late            \* late[r]: r began after the session was revoked

vars == <<clock, allowed, credential, session, held, pc, request, closed, late>>

-----------------------------------------------------------------------------
(* Values *)

OAuthProviders == {"yandex", "github", "vk"}
Providers == OAuthProviders \cup {"email"}

\* Who an OAuth provider says the user is.  GitHub answers a verified address
\* or an error, Yandex is trusted, and VK is not.
Identities(p) == [email : Emails \cup {None}, verified : {p # "vk"}]

\* Rows; the provider is None as long as there is no row.  from is the
\* credential the login of the session began with.
Credential == [provider : Providers \cup {None}, email : Emails \cup {None},
               expires : 0 .. MaxClock + TokenTTL, used : BOOLEAN]
NoCredential == [provider |-> None, email |-> None, expires |-> 0, used |-> FALSE]

Session == [provider : Providers \cup {None}, email : Emails \cup {None},
            expires : 0 .. MaxClock + SessionTTL, revoked : BOOLEAN,
            from : Tokens \cup {None}]
NoSession == [provider |-> None, email |-> None, expires |-> 0,
              revoked |-> FALSE, from |-> None]

\* A login carries the credential and the provider of its route, any other
\* request the session of its cookie; now is the time it read.
Request == [token : Tokens \cup {None}, provider : Providers \cup {None},
            session : Sessions \cup {None}, email : Emails \cup {None},
            now : 0 .. MaxClock]
NoRequest == [token |-> None, provider |-> None, session |-> None,
              email |-> None, now |-> 0]

Steps == {"idle", "consume", "identify", "create", "find", "serve", "revoke"}

TypeOK ==
    /\ clock \in 0 .. MaxClock
    /\ allowed \in SUBSET Emails
    /\ credential \in [Tokens -> Credential]
    /\ session \in [Sessions -> Session]
    /\ held \in SUBSET (Tokens \cup Sessions)
    /\ pc \in [Requests -> Steps]
    /\ request \in [Requests -> Request]
    /\ closed \in SUBSET Sessions
    /\ late \in [Requests -> BOOLEAN]
    /\ \A r \in Requests :
         /\ pc[r] \in {"consume", "identify", "create"} =>
              request[r].token \in Tokens /\ request[r].provider \in Providers
         /\ pc[r] \in {"find", "serve", "revoke"} => request[r].session \in Sessions
         /\ pc[r] = "create" => request[r].email \in Emails

Init ==
    /\ clock = 0
    /\ allowed \in SUBSET Emails
    /\ credential = [t \in Tokens |-> NoCredential]
    /\ session = [s \in Sessions |-> NoSession]
    /\ held = {}
    /\ pc = [r \in Requests |-> "idle"]
    /\ request = [r \in Requests |-> NoRequest]
    /\ closed = {}
    /\ late = [r \in Requests |-> FALSE]

-----------------------------------------------------------------------------
(* Starting a login *)

\* The credential reaches the browser, or the answer, or the mail, is lost.
HandOut(x) == held' = held \cup {x} \/ UNCHANGED held

Issue(t, p, e) ==
    /\ credential[t] = NoCredential
    /\ credential' = [credential EXCEPT ![t] =
         [provider |-> p, email |-> e, expires |-> clock + TokenTTL, used |-> FALSE]]
    /\ HandOut(t)
    /\ UNCHANGED <<clock, allowed, session, pc, request, closed, late>>

\* AuthCodeURL
StartOAuth(t, p) == Issue(t, p, None)

\* StartEmailLogin; an address that is not allowed is answered alike.
StartEmailLogin(t, e) == e \in allowed /\ Issue(t, "email", e)

-----------------------------------------------------------------------------
(* Requests *)

Goto(r, l) == pc' = [pc EXCEPT ![r] = l]

Answer(r) ==
    /\ Goto(r, "idle")
    /\ request' = [request EXCEPT ![r] = NoRequest]
    /\ late' = [late EXCEPT ![r] = FALSE]

\* A browser follows the callback of provider p, or the link of the mail.
FollowLink(r, t, p) ==
    /\ pc[r] = "idle"
    /\ t \in held
    /\ request' = [request EXCEPT ![r] =
         [NoRequest EXCEPT !.token = t, !.provider = p, !.now = clock]]
    /\ Goto(r, "consume")
    /\ UNCHANGED <<clock, allowed, credential, session, held, closed, late>>

\* A request with a session cookie: of a page, or the logout.
SendCookie(r, s, l) ==
    /\ pc[r] = "idle"
    /\ s \in held
    /\ l \in {"find", "revoke"}
    /\ request' = [request EXCEPT ![r] = [NoRequest EXCEPT !.session = s, !.now = clock]]
    /\ late' = [late EXCEPT ![r] = s \in closed]
    /\ Goto(r, l)
    /\ UNCHANGED <<clock, allowed, credential, session, held, closed>>

-----------------------------------------------------------------------------
(* Completing a login *)

\* Slip: used_at is not looked at.
IsValidOnceMore(row, p, now) ==
    /\ row.provider # None
    /\ (row.provider = "email") <=> (p = "email")
    /\ row.expires > now
\* The WHERE clause of ConsumeOAuthState and of ConsumeEmailToken, each on a
\* table of its own.
IsValid(row, p, now) ==
    /\ row.provider # None
    /\ (row.provider = "email") <=> (p = "email")
    /\ ~row.used
    /\ row.expires > now

\* Slip: the route's provider is not compared with the state's.
AfterAnyState(row, p) ==
    IF p # "email" THEN "identify"
    ELSE IF row.email \in allowed THEN "create" ELSE "idle"
\* What follows once the credential is spent.  A state of another provider
\* and an address no longer allowed end the login; the credential stays spent.
AfterConsume(row, p) ==
    IF p # "email" THEN (IF row.provider = p THEN "identify" ELSE "idle")
    ELSE IF row.email \in allowed THEN "create" ELSE "idle"

Consume(r) ==
    LET t == request[r].token
        p == request[r].provider
        row == credential[t]
    IN  /\ pc[r] = "consume"
        /\ IsValid(row, p, request[r].now)
        /\ credential' = [credential EXCEPT ![t].used = TRUE]
        /\ IF AfterConsume(row, p) = "idle"
             THEN Answer(r)
             ELSE /\ Goto(r, AfterConsume(row, p))
                  /\ request' = [request EXCEPT ![r].email = row.email]
                  /\ UNCHANGED late
        /\ UNCHANGED <<clock, allowed, session, held, closed>>

\* ErrInvalidCredentials
ConsumeNothing(r) ==
    /\ pc[r] = "consume"
    /\ ~IsValid(credential[request[r].token], request[r].provider, request[r].now)
    /\ Answer(r)
    /\ UNCHANGED <<clock, allowed, credential, session, held, closed>>

\* Slip: a verified identity is enough.
AnyoneMayLogin(i) == i.verified
MayLogin(i) == i.email \in allowed /\ i.verified

\* exchangeOAuthCode and oauthIdentity: the provider answers.
Identify(r, i) ==
    /\ pc[r] = "identify"
    /\ IF MayLogin(i)
         THEN /\ Goto(r, "create")
              /\ request' = [request EXCEPT ![r].email = i.email]
              /\ UNCHANGED late
         ELSE Answer(r)
    /\ UNCHANGED <<clock, allowed, credential, session, held, closed>>

\* The provider refuses the code or does not answer within 10 s.
IdentifyFails(r) ==
    /\ pc[r] = "identify"
    /\ Answer(r)
    /\ UNCHANGED <<clock, allowed, credential, session, held, closed>>

\* createSession, with a new token; the answer with the cookie may be lost.
CreateSession(r, s) ==
    /\ pc[r] = "create"
    /\ session[s] = NoSession
    /\ session' = [session EXCEPT ![s] =
         [provider |-> request[r].provider, email |-> request[r].email,
          expires |-> clock + SessionTTL, revoked |-> FALSE,
          from |-> request[r].token]]
    /\ HandOut(s)
    /\ Answer(r)
    /\ UNCHANGED <<clock, allowed, credential, closed>>

-----------------------------------------------------------------------------
(* Using and closing a session *)

\* Slip: revoked_at is not looked at.
IsOpenOrRevoked(row, now) == row.expires > now
\* The WHERE clause of FindSession.
IsOpen(row, now) == ~row.revoked /\ row.expires > now

\* Slip: the allow-list is looked at in a login only.
PrincipalOfSession(row, now) == IsOpen(row, now)
\* PrincipalForToken
HasPrincipal(row, now) == IsOpen(row, now) /\ row.email \in allowed

\* SessionMiddleware and RequireAuthenticated: serve, or answer 401.
Find(r) ==
    /\ pc[r] = "find"
    /\ IF HasPrincipal(session[request[r].session], request[r].now)
         THEN Goto(r, "serve") /\ UNCHANGED <<request, late>>
         ELSE Answer(r)
    /\ UNCHANGED <<clock, allowed, credential, session, held, closed>>

\* The handler behind the middleware has answered.
Serve(r) ==
    /\ pc[r] = "serve"
    /\ Answer(r)
    /\ UNCHANGED <<clock, allowed, credential, session, held, closed>>

RevokeSession(s) == session' = [session EXCEPT ![s].revoked = TRUE]

\* Logout, answered 204.
Revoke(r) ==
    /\ pc[r] = "revoke"
    /\ RevokeSession(request[r].session)
    /\ closed' = closed \cup {request[r].session}
    /\ Answer(r)
    /\ UNCHANGED <<clock, allowed, credential, held>>

\* The UPDATE of a logout fails.  The error is logged and the answer is 204
\* all the same, with a header that clears the cookie; the session stays open
\* to whoever still has its token.
RevokeFails(r) ==
    /\ pc[r] = "revoke"
    /\ Answer(r)
    /\ UNCHANGED <<clock, allowed, credential, session, held, closed>>

-----------------------------------------------------------------------------
(* Failures, restarts, time *)

\* The database does not answer or the client has gone: nothing is written.
Fail(r) ==
    /\ pc[r] # "idle"
    /\ Answer(r)
    /\ UNCHANGED <<clock, allowed, credential, session, held, closed>>

\* A new process, perhaps with another allow-list; requests in flight die.
Restart(emails) ==
    /\ allowed' = emails
    /\ pc' = [r \in Requests |-> "idle"]
    /\ request' = [r \in Requests |-> NoRequest]
    /\ late' = [r \in Requests |-> FALSE]
    /\ UNCHANGED <<clock, credential, session, held, closed>>

Tick ==
    /\ clock < MaxClock
    /\ clock' = clock + 1
    /\ UNCHANGED <<allowed, credential, session, held, pc, request, closed, late>>

-----------------------------------------------------------------------------
(* Specifications *)

Start ==
    \E t \in Tokens :
        \/ \E p \in OAuthProviders : StartOAuth(t, p)
        \/ \E e \in Emails : StartEmailLogin(t, e)

Begin(r) ==
    \/ \E t \in Tokens, p \in Providers : FollowLink(r, t, p)
    \/ \E s \in Sessions, l \in {"find", "revoke"} : SendCookie(r, s, l)

\* What the process does for a request without waiting for a provider.
Continue(r) ==
    \/ Consume(r) \/ ConsumeNothing(r)
    \/ IdentifyFails(r)
    \/ \E s \in Sessions : CreateSession(r, s)
    \/ Find(r) \/ Serve(r)
    \/ Revoke(r) \/ RevokeFails(r)

Next ==
    \/ Start
    \/ \E r \in Requests :
         \/ Begin(r)
         \/ Continue(r)
         \/ \E p \in OAuthProviders : \E i \in Identities(p) :
              request[r].provider = p /\ Identify(r, i)
         \/ Fail(r)
    \/ \E emails \in SUBSET Emails : Restart(emails)
    \/ Tick

Spec == Init /\ [][Next]_vars

-----------------------------------------------------------------------------
(* Properties *)

\* A link or a callback opens at most one session, however often and however
\* concurrently it is followed (service.go:229-262, 303-311).
OneSessionPerCredential ==
    \A s1, s2 \in Sessions :
        session[s1].from # None /\ session[s1].from = session[s2].from => s1 = s2

\* A session is that of the credential its login began with, now spent: of
\* the same provider, for an email link of the address it was mailed to, and
\* never on the word of VK (service.go:229-255, 303-311).
SessionsAreEarned ==
    \A s \in Sessions : session[s] # NoSession =>
        LET row == credential[session[s].from]
        IN  /\ session[s].from \in Tokens
            /\ row.used
            /\ session[s].provider = row.provider
            /\ session[s].provider = "email" => session[s].email = row.email
            /\ session[s].provider # "vk"

\* Once the UPDATE of a logout has revoked a session no later request with its
\* cookie is served, whatever logins, logouts and restarts come in between
\* (service.go:314-335, repository.go:94-123 of auth).  It says nothing of a
\* logout whose UPDATE failed, which is answered alike (handler.go:212-218).
NoServiceAfterRevocation == \A r \in Requests : pc[r] = "serve" => ~late[r]

\* Whoever is served is on the allow-list of the running process, also with a
\* session older than the list (service.go:323).
OnlyAllowedAreServed ==
    \A r \in Requests : pc[r] = "serve" => session[request[r].session].email \in allowed

=============================================================================
