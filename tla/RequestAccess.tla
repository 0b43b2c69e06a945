--------------------------- MODULE RequestAccess ---------------------------
(***************************************************************************)
(* What a request passes before its handler runs, and the requests that    *)
(* change what others may do: the admission gate and the rate limit kept   *)
(* in Redis (core/rate_limit.py), the order of the dependencies            *)
(* (api/deps.py), and the sessions of one user (api/v1/auth.py).           *)
(*                                                                         *)
(* Each call to Redis and each statement of the database is an await.  A   *)
(* call to Redis may fail with or without effect, and a request may die at *)
(* any of them.                                                            *)
(***************************************************************************)
EXTENDS Integers, FiniteSets

CONSTANTS
    Requests,
    Tokens,         \* a bound: the sessions that can be issued
    MaxInflight,    \* admission_gate_max_inflight
    RateLimit,      \* rl_generation_per_min
    KeyKinds,       \* a bound: the endpoints called with an API key
    FaultBound      \* a bound: calls to Redis that fail, and requests that die

Kinds == {"generate", "login", "refresh", "logout", "logout_all"}

ASSUME AccessAssumption ==
    /\ KeyKinds \subseteq Kinds \ {"login"}
    /\ IsFiniteSet(Requests)
    /\ IsFiniteSet(Tokens) /\ Tokens = 1..Cardinality(Tokens)
    /\ MaxInflight \in Nat \ {0}
    /\ RateLimit \in Nat \ {0}
    /\ FaultBound \in Nat

VARIABLES
    counter,    \* admission:inflight: is the key there, its value, has it an expiry
    window,     \* the count of the current rate window
    request,    \* per request: its endpoint and where it is
    session,    \* the auth_sessions row of each token: "over" is revoked or expired
    faults,     \* faults so far
    unseen,     \* since the key last expired: requests it may not have counted
    leaked,     \* since then: requests that went without giving back their place
    issued      \* sessions issued by a login, or by a refresh that replaced none

gateGhosts == <<faults, unseen, leaked>>
vars == <<counter, window, request, session, gateGhosts, issued>>

Free   == [pc |-> "free"]
NoKey  == [there |-> FALSE, value |-> 0, expires |-> FALSE]

(* A request keeps what it still needs.  over: the gate told it that it is
   one too many.  reach: the sessions the statement of a logout-all found.
   known: those there were when it was let in. *)
Steps ==
    {"arrived", "counted", "excess", "inside", "authenticated", "revoking", "handling", "leaving", "done"}

Underway ==
    [pc : Steps, kind : Kinds, token : Tokens \cup {0}, over : BOOLEAN,
     known : SUBSET Tokens, reach : SUBSET Tokens]

Live == {t \in Tokens : session[t] = "live"}

(* The type invariant. *)
TypeOK ==
    /\ counter \in [there : BOOLEAN, value : -Cardinality(Requests) - FaultBound..
                                             Cardinality(Requests) + FaultBound, expires : BOOLEAN]
    /\ counter.expires => counter.there
    /\ window \in 0..RateLimit
    /\ request \in [Requests -> Underway \cup {Free}]
    /\ session \in [Tokens -> {"none", "live", "over"}]
    /\ faults \in 0..FaultBound
    /\ {unseen, leaked, issued} \subseteq Nat

Init ==
    /\ counter = NoKey
    /\ window = 0
    /\ request = [r \in Requests |-> Free]
    /\ session = [t \in Tokens |-> "none"]
    /\ faults = 0 /\ unseen = 0 /\ leaked = 0
    /\ issued = 0

-----------------------------------------------------------------------------
At(r, pc)    == request[r].pc = pc
Gated(r)     == request[r].kind = "generate"
Token(r)     == request[r].token
Go(r, pc)    == request' = [request EXCEPT ![r].pc = pc]
End(r)       == request' = [request EXCEPT ![r] = Free]

(* The finally of check_admission_capacity runs however a request ends. *)
Leave(r)     == IF Gated(r) THEN Go(r, "leaving") ELSE End(r)

Places       == {"counted", "excess", "inside", "authenticated", "handling", "leaving"}
Holding      == {r \in Requests : request[r].pc \in Places /\ Gated(r)}
Inflight     == {r \in Holding : request[r].pc \notin {"counted", "excess"}}

(* Without a token it is a login, or has an API key. *)
Arrive(r, k, t) ==
    /\ At(r, "free")
    /\ IF t = 0 THEN k \in KeyKinds \cup {"login"} ELSE k # "login" /\ session[t] # "none"
    /\ request' = [request EXCEPT ![r] =
          [pc    |-> CASE k = "generate" -> "arrived" [] k = "login" -> "authenticated" [] OTHER -> "inside",
           kind  |-> k, token |-> t, over |-> FALSE, known |-> {}, reach |-> {}]]
    /\ UNCHANGED <<counter, window, session, gateGhosts, issued>>

-----------------------------------------------------------------------------
(* AdmissionGate.  INCR and DECR make the key, without an expiry, when it is
   not there; EXPIRE does nothing then. *)
Plus(n) == [counter EXCEPT !.there = TRUE, !.value = @ + n]
Enter(r, pc) == request' = [request EXCEPT ![r].pc = pc, ![r].over = FALSE]

Fault   == faults < FaultBound /\ faults' = faults + 1

(* Mutant: the limit is compared with the count before this request. *)
IncrAfterCheck(r) ==
    /\ At(r, "arrived")
    /\ counter' = Plus(1)
    /\ request' = [request EXCEPT ![r].pc = "counted", ![r].over = counter.value > MaxInflight]
    /\ UNCHANGED <<window, session, gateGhosts, issued>>

Incr(r) ==
    /\ At(r, "arrived")
    /\ counter' = Plus(1)
    /\ request' = [request EXCEPT ![r].pc = "counted", ![r].over = counter.value + 1 > MaxInflight]
    /\ UNCHANGED <<window, session, gateGhosts, issued>>

Expire(r) ==
    /\ At(r, "counted")
    /\ counter' = [counter EXCEPT !.expires = counter.there]
    /\ Enter(r, IF request[r].over THEN "excess" ELSE "inside")
    /\ UNCHANGED <<window, session, gateGhosts, issued>>

(* Either call raises: the request is let in, counted or not. *)
AcquireFails(r) ==
    /\ request[r].pc \in {"arrived", "counted"}
    /\ Fault
    /\ \/ UNCHANGED counter
       \/ At(r, "arrived") /\ counter' = Plus(1)
       \/ At(r, "counted") /\ counter' = [counter EXCEPT !.expires = counter.there]
    /\ unseen' = unseen + 1
    /\ Enter(r, "inside")
    /\ UNCHANGED <<window, session, leaked, issued>>

(* Mutant: the one too many is refused and keeps its place. *)
RefuseHolding(r) ==
    /\ At(r, "excess")
    /\ End(r)
    /\ UNCHANGED <<counter, window, session, gateGhosts, issued>>

(* release, by the one that is too many. *)
Refuse(r) ==
    /\ At(r, "excess")
    /\ counter' = Plus(-1)
    /\ End(r)
    /\ UNCHANGED <<window, session, gateGhosts, issued>>

(* Mutant: the place is given back by the handler and again by the finally. *)
ReleaseTwice(r) ==
    /\ At(r, "leaving")
    /\ counter' = Plus(-2)
    /\ End(r)
    /\ UNCHANGED <<window, session, gateGhosts, issued>>

(* release, at the end of a request. *)
Release(r) ==
    /\ At(r, "leaving")
    /\ counter' = Plus(-1)
    /\ End(r)
    /\ UNCHANGED <<window, session, gateGhosts, issued>>

(* Its DECR raises and nobody notices. *)
ReleaseFails(r) ==
    /\ request[r].pc \in {"excess", "leaving"}
    /\ Fault
    /\ \/ UNCHANGED counter /\ leaked' = leaked + 1
       \/ counter' = Plus(-1) /\ UNCHANGED leaked
    /\ End(r)
    /\ UNCHANGED <<window, session, unseen, issued>>

(* A minute without an acquire, or Redis lost the key: whoever is in flight
   is not counted any more, and what leaked is healed. *)
KeyExpires ==
    /\ counter.expires
    /\ counter' = NoKey
    /\ unseen' = Cardinality(Holding)
    /\ leaked' = 0
    /\ UNCHANGED <<window, request, session, faults, issued>>

(* The process stops, or the client goes away inside the release. *)
Dies(r) ==
    /\ request[r].pc \notin {"free", "done"}
    /\ Fault
    /\ leaked' = IF r \in Holding THEN leaked + 1 ELSE leaked
    /\ End(r)
    /\ UNCHANGED <<counter, window, session, unseen, issued>>

-----------------------------------------------------------------------------
(* get_current_user reads the session once, or the key, which an operator
   may have revoked.  What becomes of it later does not stop the request. *)
Authenticate(r) ==
    /\ At(r, "inside")
    /\ \/ /\ Token(r) # 0 => session[Token(r)] = "live"
          /\ request' = [request EXCEPT
                ![r].pc    = "authenticated",
                ![r].token = IF Gated(r) THEN 0 ELSE @,
                ![r].known = IF request[r].kind = "logout_all"
                             THEN {t \in Tokens : session[t] # "none"} ELSE @]
       \/ /\ Token(r) # 0 => session[Token(r)] # "live"
          /\ Leave(r)
    /\ UNCHANGED <<counter, window, session, gateGhosts, issued>>

(* rate_limited, which needs to know the user.  What was counted above the
   limit does not matter. *)
CheckRate(r) ==
    /\ At(r, "authenticated") /\ Gated(r)
    /\ IF window = RateLimit
       THEN Leave(r) /\ UNCHANGED window
       ELSE Go(r, "handling") /\ window' = window + 1
    /\ UNCHANGED <<counter, session, gateGhosts, issued>>

(* The check fails open as well, when INCR counted or did not. *)
CheckRateFails(r) ==
    /\ At(r, "authenticated") /\ Gated(r)
    /\ Fault
    /\ UNCHANGED window \/ (window < RateLimit /\ window' = window + 1)
    /\ Go(r, "handling")
    /\ UNCHANGED <<counter, session, unseen, leaked, issued>>

WindowTurns ==
    /\ window # 0
    /\ window' = 0
    /\ UNCHANGED <<counter, request, session, gateGhosts, issued>>

Handled(r) ==
    /\ At(r, "handling")
    /\ Leave(r)
    /\ UNCHANGED <<counter, window, session, gateGhosts, issued>>

-----------------------------------------------------------------------------
(* Sessions.  Each commit is one step. *)
SessionOnly == UNCHANGED <<counter, window, gateGhosts>>

(* _issue_session: a new token, never one that was used before. *)
NewToken == CHOOSE t \in Tokens : session[t] = "none" /\ \A u \in Tokens : u < t => session[u] # "none"
Room     == \E t \in Tokens : session[t] = "none"

(* The row of the token the request came with. *)
Revoked(r) == [t \in Tokens |-> IF t = Token(r) THEN "over" ELSE session[t]]

Login(r) ==
    /\ At(r, "authenticated") /\ request[r].kind = "login"
    /\ Room
    /\ session' = [session EXCEPT ![NewToken] = "live"]
    /\ issued' = issued + 1
    /\ End(r)
    /\ SessionOnly

(* Mutant: the new session is committed, the old one is not revoked. *)
RefreshKeeping(r) ==
    /\ At(r, "authenticated") /\ request[r].kind = "refresh"
    /\ Room
    /\ session' = [session EXCEPT ![NewToken] = "live"]
    /\ issued' = IF Token(r) \in Live THEN issued ELSE issued + 1
    /\ End(r)
    /\ SessionOnly

(* The old session is revoked, whatever became of it since it was read, and
   the new one issued, in one transaction. *)
Refresh(r) ==
    /\ At(r, "authenticated") /\ request[r].kind = "refresh"
    /\ Room
    /\ session' = [Revoked(r) EXCEPT ![NewToken] = "live"]
    /\ issued' = IF Token(r) \in Live THEN issued ELSE issued + 1
    /\ End(r)
    /\ SessionOnly

Logout(r) ==
    /\ At(r, "authenticated") /\ request[r].kind = "logout"
    /\ session' = Revoked(r)
    /\ End(r)
    /\ SessionOnly /\ UNCHANGED issued

(* Mutant: only the session it came with. *)
LogoutOwn(r) ==
    /\ At(r, "authenticated") /\ request[r].kind = "logout_all"
    /\ request' = [request EXCEPT ![r].pc = "revoking", ![r].reach = {Token(r)}]
    /\ SessionOnly /\ UNCHANGED <<session, issued>>

(* The statement of logout-all revokes the rows it finds; the others see it
   when it commits. *)
LogoutAll(r) ==
    /\ At(r, "authenticated") /\ request[r].kind = "logout_all"
    /\ request' = [request EXCEPT ![r].pc = "revoking", ![r].reach = Live]
    /\ SessionOnly /\ UNCHANGED <<session, issued>>

CommitLogoutAll(r) ==
    /\ At(r, "revoking")
    /\ session' = [t \in Tokens |-> IF t \in request[r].reach THEN "over" ELSE session[t]]
    /\ Go(r, "done")
    /\ SessionOnly /\ UNCHANGED issued

(* The answer of a logout-all has arrived. *)
Close(r) ==
    /\ At(r, "done")
    /\ End(r)
    /\ SessionOnly /\ UNCHANGED <<session, issued>>

SessionExpires(t) ==
    /\ session[t] = "live"
    /\ session' = [session EXCEPT ![t] = "over"]
    /\ UNCHANGED <<counter, window, request, gateGhosts, issued>>

Next ==
    \/ \E r \in Requests, k \in Kinds, t \in Tokens \cup {0} : Arrive(r, k, t)
    \/ \E r \in Requests :
          \/ Incr(r) \/ Expire(r) \/ AcquireFails(r) \/ Refuse(r) \/ Release(r) \/ ReleaseFails(r)
          \/ Dies(r) \/ Authenticate(r) \/ CheckRate(r) \/ CheckRateFails(r) \/ Handled(r)
          \/ Login(r) \/ Refresh(r) \/ Logout(r) \/ LogoutAll(r) \/ CommitLogoutAll(r) \/ Close(r)
    \/ KeyExpires \/ WindowTurns
    \/ \E t \in Tokens : SessionExpires(t)

Spec == Init /\ [][Next]_vars

-----------------------------------------------------------------------------
(* rate_limit.py:84-90: the gate lets no more requests to the database than
   its limit, and one more for each request Redis failed to count or to
   refuse, or forgot when the key expired. *)
InflightBounded == Cardinality(Inflight) <= MaxInflight + unseen

(* rate_limit.py:92-96: whoever is refused or ends, in whatever way, gives
   its place back: the counter exceeds the requests in flight only by those
   that died, or whose release failed, since the key was made. *)
CapacityNotLost == counter.value <= Cardinality(Holding) + leaked

(* auth.py:196-213: when a logout-all is answered, no session is left of
   those there were when it was let in, though others are refreshed, log in
   and out while it runs. *)
LogoutAllReaches ==
    \A r \in Requests : At(r, "done") => request[r].known \cap Live = {}

(* auth.py:134-165: a refresh replaces a session.  The user has no more of
   them than logins, and than refreshes that had no session to replace when
   they committed: of two at once, of one beside a logout, of an API key. *)
SessionsAccounted == Cardinality(Live) <= issued

=============================================================================
