------------------------------- MODULE MCAuth -------------------------------
(***************************************************************************)
(* AuthSessions and AuthRateLimiter for TLC.  A handler asks the limiter   *)
(* before it calls the service and they have no state in common, so        *)
(* whatever an interleaving of them shows, one of them shows alone: each   *)
(* moves only where the other has not.                                     *)
(***************************************************************************)
EXTENDS AuthSessions, AuthRateLimiter, TLC

\* The limiter does not care which addresses are allowed.
SessionsAtRest == Init /\ allowed = Emails

OneMoves ==
    \/ LimiterInit /\ Next /\ UNCHANGED limiterVars
    \/ SessionsAtRest /\ LimiterNext /\ UNCHANGED vars
MCInit == Init /\ LimiterInit
MCSpec == MCInit /\ [][OneMoves]_<<vars, limiterVars>>

\* Addresses, random tokens and connections are interchangeable.  The limiter
\* tells keys apart by the address in them, and its calls by their connection.
Symmetry == Permutations(Emails) \cup Permutations(Tokens)
              \cup Permutations(Sessions) \cup Permutations(Requests)
=============================================================================
