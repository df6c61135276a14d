---------------------------- MODULE GatewayProofs ----------------------------
(***************************************************************************)
(* Proofs about Gateway, for any number of requests, routes, roles and     *)
(* addresses, any lifetimes of the caches and any bounds: what the caches  *)
(* serve is not older than promised, effects are permitted, answers are    *)
(* true and a repeated mutation is applied once.                           *)
(***************************************************************************)
EXTENDS Gateway, TLAPS

Statuses == {0, 200, 400, 401, 403, 404, 409, 410, 422, 500, 501, 502}

Pipeline ==
  [at : Points, route : Exercised \cup {None}, key : Request \cup {None}, since : Nat,
   email : Email \cup {None, DevEmail}, overdue : Nat, emailAge : Nat, told : BOOLEAN,
   status : Statuses]

Live(r) == req[r].at \notin {"idle", "done"}

\* The clock, and what the caches were told: a token is remembered from before
\* it expired, an address from no later than Latency after it was the caller's.
WorldOK ==
  /\ clock \in Nat /\ clock <= MaxTime /\ exp \in Nat
  /\ role \in Role /\ email \in Email \cup {None}
  /\ lastHeld \in [Email \cup {None} -> Nat] /\ lastHeld[email] = clock
  /\ \A e \in Email \cup {None} : lastHeld[e] <= clock

CachesOK ==
  /\ tokenCache = None \/ (tokenCache \in Nat /\ tokenCache <= clock /\ tokenCache <= exp)
  /\ emailCache = None \/
       /\ emailCache.email \in Email \cup {None}
       /\ emailCache.fetchedAt \in Nat /\ emailCache.fetchedAt <= clock
       /\ emailCache.fetchedAt <= lastHeld[emailCache.email] + Latency

\* A call to Clerk that is under way, and the ages that a request has recorded.
Timely(r) ==
  /\ req[r].since <= clock
  /\ req[r].at \in {"verifying", "emailing"} => clock <= req[r].since + Latency
  /\ req[r].at = "emailing" =>
       req[r].email \in Email \cup {None} /\ req[r].since <= lastHeld[req[r].email]
  /\ req[r].overdue = 0 \/ req[r].overdue < TokenTtl
  /\ req[r].emailAge = 0 \/ req[r].emailAge < EmailTtl + Latency

\* What a live request may do or be refused is recorded, and one that is past
\* the permission check was permitted.
Recorded(r) ==
  /\ Live(r) /\ Permits(req[r].route, role) => held[r]
  /\ Live(r) /\ Refusable(req[r].route) => denied[r]
  /\ req[r].at \in {"resolve", "forward"} => held[r]

\* The answer a request has, and no key before it arrives.
Answers(r) ==
  /\ req[r].at = "idle" => req[r].key = None
  /\ (req[r].at = "done") = (req[r].status # 0)
  /\ req[r].status = 403 => denied[r] \/ (Mismatch(r) /\ applied[r] = 0)
  /\ req[r].told => req[r].at = "done" /\ applied[r] = 1

\* A request is applied under its own key, when its key is taken.
Keyed(r) ==
  /\ req[r].key \in {r, None} /\ (r \in keys => req[r].key = r)
  /\ applied[r] = (IF r \in keys THEN 1 ELSE 0)

RequestsOK ==
  /\ req \in [Request -> Pipeline]
  /\ held \in [Request -> BOOLEAN] /\ denied \in [Request -> BOOLEAN]
  /\ applied \in [Request -> Nat] /\ keys \subseteq Request
  /\ \A r \in Request : Timely(r) /\ Recorded(r) /\ Answers(r) /\ Keyed(r)

GInv == WorldOK /\ CachesOK /\ RequestsOK /\ ~trespass
----------------------------------------------------------------------------
(* One request moves                                                       *)

\* Only request r moves.
Moves(r) ==
  /\ req' \in [Request -> Pipeline]
  /\ \A s \in Request \ {r} : req'[s] = req[s]

LEMMA MoveTo ==
  ASSUME RequestsOK, NEW r \in Request, NEW x \in Pipeline, req' = [req EXCEPT ![r] = x]
  PROVE  Moves(r) /\ req'[r] = x
  BY DEF RequestsOK, Moves

\* The answer that ends a request.
LEMMA AnswerMove ==
  ASSUME RequestsOK, NEW r \in Request, NEW status \in Statuses, NEW told \in BOOLEAN,
         req' = Answered(r, status, told)
  PROVE  /\ Moves(r)
         /\ req'[r].at = "done" /\ req'[r].status = status /\ req'[r].told = told
         /\ req'[r].key = req[r].key /\ req'[r].route = req[r].route
         /\ req'[r].since = 0 /\ req'[r].overdue = 0 /\ req'[r].emailAge = 0
         /\ status = 403 => req'[r].email = req[r].email
<1>0. PICK named \in Email \cup {None, DevEmail} :
             named = (IF status = 403 THEN req[r].email ELSE None)
  BY DEF RequestsOK, Pipeline
<1> DEFINE x == [Idle EXCEPT !.at = "done", !.route = req[r].route, !.key = req[r].key,
                             !.email = named, !.status = status, !.told = told]
<1>1. x \in Pipeline
  BY DEF RequestsOK, Pipeline, Points, Idle
<1>2. req' = [req EXCEPT ![r] = x]
  BY <1>0 DEF Answered
<1>3. /\ x.at = "done" /\ x.status = status /\ x.told = told
      /\ x.key = req[r].key /\ x.route = req[r].route
      /\ x.since = 0 /\ x.overdue = 0 /\ x.emailAge = 0
      /\ status = 403 => x.email = req[r].email
  BY <1>0 DEF Idle
<1> HIDE DEF x
<1> QED
  BY <1>1, <1>2, <1>3, MoveTo

\* A request that goes to another point with everything else kept.
LEMMA AtMove ==
  ASSUME RequestsOK, NEW r \in Request, NEW point \in Points, At(r, point)
  PROVE  /\ Moves(r)
         /\ req'[r].at = point /\ req'[r].status = req[r].status
         /\ req'[r].told = req[r].told
         /\ req'[r].key = req[r].key /\ req'[r].route = req[r].route
         /\ req'[r].since = req[r].since /\ req'[r].email = req[r].email
         /\ req'[r].overdue = req[r].overdue /\ req'[r].emailAge = req[r].emailAge
  BY DEF At, RequestsOK, Moves, Pipeline

\* The requests that do not move stay as they should be.
LEMMA OthersOK ==
  ASSUME GInv, NEW r \in Request, Moves(r), UNCHANGED world,
         \A s \in Request \ {r} :
           held'[s] = held[s] /\ denied'[s] = denied[s] /\ applied'[s] = applied[s]
             /\ (s \in keys' <=> s \in keys)
  PROVE  \A s \in Request \ {r} : (Timely(s) /\ Recorded(s) /\ Answers(s) /\ Keyed(s))'
<1> SUFFICES ASSUME NEW s \in Request \ {r}
             PROVE  (Timely(s) /\ Recorded(s) /\ Answers(s) /\ Keyed(s))'
  OBVIOUS
<1>1. Timely(s) /\ Recorded(s) /\ Answers(s) /\ Keyed(s)
  BY DEF GInv, RequestsOK
<1>2. /\ req'[s] = req[s] /\ held'[s] = held[s] /\ denied'[s] = denied[s]
      /\ applied'[s] = applied[s] /\ (s \in keys' <=> s \in keys)
      /\ clock' = clock /\ role' = role /\ elsewhere' = elsewhere /\ lastHeld' = lastHeld
  BY DEF Moves, world
<1>3. Timely(s)' /\ Answers(s)' /\ Keyed(s)'
  BY <1>1, <1>2 DEF Timely, Answers, Mismatch, Keyed
<1>4. Recorded(s)'
  BY <1>1, <1>2 DEF Recorded, Live, Refusable
<1> QED
  BY <1>3, <1>4

\* A step of one request that changes neither the services nor the records.
LEMMA QuietMove ==
  ASSUME GInv, NEW r \in Request, Moves(r), rest, CachesOK',
         Timely(r)', Recorded(r)', Answers(r)', req'[r].key = req[r].key
  PROVE  GInv'
<1>1. UNCHANGED << world, held, denied, keys, applied, trespass >>
  BY DEF rest, service
<1>2. \A s \in Request \ {r} : (Timely(s) /\ Recorded(s) /\ Answers(s) /\ Keyed(s))'
  BY <1>1, OthersOK
<1>3. Keyed(r)'
  BY <1>1 DEF GInv, RequestsOK, Keyed
<1>4. RequestsOK'
  BY <1>1, <1>2, <1>3 DEF GInv, RequestsOK, Moves
<1>5. WorldOK'
  BY <1>1 DEF GInv, WorldOK, world
<1> QED
  BY <1>1, <1>4, <1>5 DEF GInv

\* A request that is answered at once: with a refusal only when it was refused.
LEMMA QuietAnswer ==
  ASSUME GInv, NEW r \in Request, NEW status \in Statuses \ {0}, Answer(r, status),
         rest, cachesSame, status = 403 => denied[r] \/ (Mismatch(r) /\ applied[r] = 0)
  PROVE  GInv'
<1>1. /\ Moves(r) /\ req'[r].at = "done" /\ req'[r].status = status /\ req'[r].told = FALSE
      /\ status = 403 => req'[r].email = req[r].email
      /\ req'[r].key = req[r].key /\ req'[r].route = req[r].route /\ req'[r].since = 0
      /\ req'[r].overdue = 0 /\ req'[r].emailAge = 0
  BY AnswerMove DEF GInv, Answer
<1>2. clock' = clock /\ clock \in Nat /\ denied' = denied /\ applied' = applied
  BY DEF GInv, WorldOK, rest, world, service
<1>3. Timely(r)' /\ Recorded(r)' /\ Answers(r)'
  BY <1>1, <1>2 DEF Timely, Recorded, Live, Answers, Mismatch
<1>4. CachesOK'
  BY DEF GInv, CachesOK, cachesSame, rest, world
<1> QED
  BY <1>1, <1>3, <1>4, QuietMove

\* A request that goes on to a point that is not a call to Clerk.
LEMMA QuietAt ==
  ASSUME GInv, NEW r \in Request, Live(r), Moves(r), rest, CachesOK',
         req'[r].at \in Points \ {"idle", "done", "verifying", "emailing"},
         req'[r].status = req[r].status, req'[r].told = req[r].told,
         req'[r].key = req[r].key, req'[r].route = req[r].route,
         req'[r].since <= clock,
         req'[r].overdue = 0 \/ req'[r].overdue < TokenTtl,
         req'[r].emailAge = 0 \/ req'[r].emailAge < EmailTtl + Latency,
         req'[r].at \in {"resolve", "forward"} => held[r]
  PROVE  GInv'
<1>1. /\ clock' = clock /\ role' = role /\ elsewhere' = elsewhere /\ lastHeld' = lastHeld
      /\ held' = held /\ denied' = denied
  BY DEF rest, world
<1>2. Timely(r) /\ Recorded(r) /\ Answers(r)
  BY DEF GInv, RequestsOK
<1>3. Timely(r)' /\ Answers(r)'
  BY <1>1, <1>2 DEF Timely, Answers, Live
<1>4. Recorded(r)'
  BY <1>1, <1>2 DEF Recorded, Live, Refusable
<1> QED
  BY <1>3, <1>4, QuietMove

LEMMA QuietOn ==
  ASSUME GInv, NEW r \in Request, Live(r),
         NEW point \in Points \ {"idle", "done", "verifying", "emailing"}, At(r, point),
         rest, CachesOK', point \in {"resolve", "forward"} => held[r]
  PROVE  GInv'
<1>1. /\ Moves(r) /\ req'[r].at = point /\ req'[r].status = req[r].status
      /\ req'[r].told = req[r].told
      /\ req'[r].key = req[r].key /\ req'[r].route = req[r].route
      /\ req'[r].since = req[r].since
      /\ req'[r].overdue = req[r].overdue /\ req'[r].emailAge = req[r].emailAge
  BY AtMove DEF GInv
<1>2. Timely(r)
  BY DEF GInv, RequestsOK
<1>3. /\ req'[r].since <= clock
      /\ req'[r].overdue = 0 \/ req'[r].overdue < TokenTtl
      /\ req'[r].emailAge = 0 \/ req'[r].emailAge < EmailTtl + Latency
  BY <1>1, <1>2 DEF Timely
<1> QED
  BY <1>1, <1>3, QuietAt
----------------------------------------------------------------------------
(* The guard and the user's address                                        *)

LEMMA CachesStay ==
  ASSUME GInv, cachesSame, rest
  PROVE  CachesOK'
  BY DEF GInv, CachesOK, cachesSame, rest, world

\* The token.
LEMMA TokenSteps ==
  ASSUME GInv, NEW r \in Request,
         NoToken(r) \/ CachedToken(r) \/ VerifyToken(r) \/ TokenVerified(r) \/ TokenRejected(r)
  PROVE  GInv'
<1> USE GatewayAssumption
<1>1. /\ req \in [Request -> Pipeline] /\ req[r] \in Pipeline
      /\ Timely(r) /\ Recorded(r) /\ Answers(r)
      /\ clock \in Nat /\ exp \in Nat /\ TokenTtl \in Nat /\ Latency \in Nat
  BY DEF GInv, RequestsOK, WorldOK
<1>2. CASE NoToken(r) \/ TokenRejected(r)
  <2>1. Answer(r, 401) /\ rest /\ cachesSame
    BY <1>2 DEF NoToken, TokenRejected, Fail, ErrorStatus
  <2> QED
    BY <2>1, QuietAnswer DEF Statuses
<1>3. CASE CachedToken(r)
  <2> Overdue \in Nat
    BY <1>1 DEF Overdue
  <2>1. PICK overdue \in Nat : overdue = Overdue
    OBVIOUS
  <2>2. overdue = 0 \/ overdue < TokenTtl
    BY <1>1, <1>3, <2>1 DEF CachedToken, TokenFresh, Overdue, GInv, CachesOK
  <2>3. req' = [req EXCEPT ![r].at = "email", ![r].since = 0, ![r].overdue = overdue]
    BY <1>3, <2>1 DEF CachedToken
  <2>4. /\ Moves(r) /\ req'[r].at = "email" /\ req'[r].since = 0 /\ req'[r].overdue = overdue
        /\ req'[r].status = req[r].status /\ req'[r].told = req[r].told
        /\ req'[r].key = req[r].key /\ req'[r].route = req[r].route
        /\ req'[r].emailAge = req[r].emailAge
    BY <1>1, <2>3 DEF Moves, Pipeline, Points
  <2>5. Live(r) /\ rest /\ CachesOK'
    BY <1>3, CachesStay DEF CachedToken, Live
  <2> QED
    BY <1>1, <2>2, <2>4, <2>5, QuietAt DEF Timely, Points
<1>4. CASE VerifyToken(r)
  <2>1. req' = [req EXCEPT ![r].at = "verifying", ![r].since = clock]
    BY <1>4 DEF VerifyToken
  <2>2. /\ Moves(r) /\ req'[r].at = "verifying" /\ req'[r].since = clock
        /\ req'[r].overdue = req[r].overdue
        /\ req'[r].status = req[r].status /\ req'[r].told = req[r].told
        /\ req'[r].key = req[r].key /\ req'[r].route = req[r].route
        /\ req'[r].emailAge = req[r].emailAge
    BY <1>1, <2>1 DEF Moves, Pipeline, Points
  <2>3. /\ clock' = clock /\ role' = role /\ elsewhere' = elsewhere
        /\ held' = held /\ denied' = denied /\ Live(r) /\ rest /\ req[r].at # "done"
    BY <1>4 DEF VerifyToken, rest, world, Live
  <2>4. Timely(r)' /\ Answers(r)'
    BY <1>1, <2>2, <2>3 DEF Timely, Answers
  <2>5. Recorded(r)'
    BY <1>1, <2>2, <2>3 DEF Recorded, Live, Refusable
  <2> QED
    BY <1>4, <2>2, <2>3, <2>4, <2>5, CachesStay, QuietMove DEF VerifyToken
<1>5. CASE TokenVerified(r)
  <2>1. Overdue = 0 /\ clock <= exp
    BY <1>1, <1>5 DEF TokenVerified, Overdue
  <2>2. req' = [req EXCEPT ![r].at = "email", ![r].since = 0, ![r].overdue = 0]
    BY <1>5, <2>1 DEF TokenVerified
  <2>3. /\ Moves(r) /\ req'[r].at = "email" /\ req'[r].since = 0 /\ req'[r].overdue = 0
        /\ req'[r].status = req[r].status /\ req'[r].told = req[r].told
        /\ req'[r].key = req[r].key /\ req'[r].route = req[r].route
        /\ req'[r].emailAge = req[r].emailAge
    BY <1>1, <2>2 DEF Moves, Pipeline, Points
  <2>4. /\ Live(r) /\ rest /\ tokenCache' = req[r].since /\ emailCache' = emailCache
        /\ clock' = clock /\ exp' = exp /\ lastHeld' = lastHeld
    BY <1>5 DEF TokenVerified, Live, rest, world
  <2>5. req[r].since \in Nat /\ req[r].since <= clock /\ req[r].since <= exp
    BY <1>1, <2>1 DEF Timely, Pipeline
  <2>6. CachesOK'
    BY <2>4, <2>5 DEF GInv, CachesOK
  <2> QED
    BY <1>1, <2>3, <2>4, <2>6, QuietAt DEF Timely, Points
<1> QED
  BY <1>2, <1>3, <1>4, <1>5

\* A request that has got an address goes on with it, and records its age.
LEMMA GotEmailMove ==
  ASSUME GInv, NEW r \in Request, NEW e \in Email \cup {None}, req' = GotEmail(r, e)
  PROVE  /\ Moves(r) /\ req'[r].at = "members" /\ req'[r].since = 0 /\ req'[r].email = e
         /\ req'[r].overdue = req[r].overdue /\ req'[r].emailAge = clock - lastHeld[e]
         /\ req'[r].status = req[r].status /\ req'[r].told = req[r].told
         /\ req'[r].key = req[r].key /\ req'[r].route = req[r].route
<1>1. req \in [Request -> Pipeline] /\ req[r] \in Pipeline
  BY DEF GInv, RequestsOK
<1> clock - lastHeld[e] \in Nat
  <2>1. clock \in Nat /\ lastHeld[e] \in Nat /\ lastHeld[e] <= clock
    BY DEF GInv, WorldOK
  <2> QED
    BY <2>1
<1>2. PICK age \in Nat : age = clock - lastHeld[e]
  OBVIOUS
<1>3. req' = [req EXCEPT ![r].at = "members", ![r].since = 0, ![r].email = e, ![r].emailAge = age]
  BY <1>2 DEF GotEmail
<1> DEFINE x == [req[r] EXCEPT !.at = "members", !.since = 0, !.email = e, !.emailAge = age]
<1>4. x \in Pipeline
  BY <1>1 DEF Pipeline, Points
<1>5. /\ x.at = "members" /\ x.since = 0 /\ x.email = e /\ x.emailAge = age
      /\ x.overdue = req[r].overdue /\ x.status = req[r].status /\ x.told = req[r].told
      /\ x.key = req[r].key /\ x.route = req[r].route
  BY <1>1 DEF Pipeline
<1>6. req' = [req EXCEPT ![r] = x]
  BY <1>1, <1>3
<1> HIDE DEF x
<1> QED
  BY <1>2, <1>4, <1>5, <1>6, MoveTo DEF GInv

\* The verified address.
LEMMA EmailSteps ==
  ASSUME GInv, NEW r \in Request,
         CachedEmail(r) \/ AskEmail(r) \/ EmailAnswered(r) \/ EmailFails(r)
  PROVE  GInv'
<1> USE GatewayAssumption
<1>1. /\ req \in [Request -> Pipeline] /\ req[r] \in Pipeline
      /\ Timely(r) /\ Recorded(r) /\ Answers(r)
      /\ clock \in Nat /\ EmailTtl \in Nat \ {0} /\ Latency \in Nat
      /\ email \in Email \cup {None} /\ lastHeld[email] = clock
      /\ \A e \in Email \cup {None} : lastHeld[e] \in Nat /\ lastHeld[e] <= clock
  BY DEF GInv, RequestsOK, WorldOK
<1>2. CASE CachedEmail(r)
  <2>1. /\ emailCache.email \in Email \cup {None}
        /\ emailCache.fetchedAt \in Nat /\ clock < emailCache.fetchedAt + EmailTtl
        /\ emailCache.fetchedAt <= lastHeld[emailCache.email] + Latency
    BY <1>2 DEF CachedEmail, EmailFresh, GInv, CachesOK
  <2>2. PICK e \in Email \cup {None} : e = emailCache.email
    BY <2>1
  <2>3. clock - lastHeld[e] < EmailTtl + Latency
    BY <1>1, <2>1, <2>2
  <2>4. req' = GotEmail(r, e) /\ rest /\ CachesOK' /\ Live(r)
    BY <1>2, <2>2, CachesStay DEF CachedEmail, Live
  <2> QED
    BY <1>1, <2>3, <2>4, GotEmailMove, QuietAt DEF Timely, Points
<1>3. CASE AskEmail(r)
  <2>1. req' = [req EXCEPT ![r].at = "emailing", ![r].email = email, ![r].since = clock]
    BY <1>3 DEF AskEmail
  <2>2. /\ Moves(r) /\ req'[r].at = "emailing" /\ req'[r].since = clock
        /\ req'[r].email = email /\ req'[r].overdue = req[r].overdue
        /\ req'[r].status = req[r].status /\ req'[r].told = req[r].told
        /\ req'[r].key = req[r].key /\ req'[r].route = req[r].route
        /\ req'[r].emailAge = req[r].emailAge
    BY <1>1, <2>1 DEF Moves, Pipeline, Points
  <2>3. /\ clock' = clock /\ role' = role /\ elsewhere' = elsewhere /\ lastHeld' = lastHeld
        /\ held' = held /\ denied' = denied /\ Live(r) /\ rest /\ req[r].at # "done"
    BY <1>3 DEF AskEmail, rest, world, Live
  <2>4. Timely(r)' /\ Answers(r)'
    BY <1>1, <2>2, <2>3 DEF Timely, Answers
  <2>5. Recorded(r)'
    BY <1>1, <2>2, <2>3 DEF Recorded, Live, Refusable
  <2> QED
    BY <1>3, <2>2, <2>3, <2>4, <2>5, CachesStay, QuietMove DEF AskEmail
<1>4. CASE EmailAnswered(r)
  <2>1. PICK e \in Email \cup {None} : e = req[r].email
    BY <1>1, <1>4 DEF EmailAnswered, Timely
  <2>2. /\ req[r].since \in Nat /\ req[r].since <= lastHeld[e]
        /\ clock <= req[r].since + Latency
    BY <1>1, <1>4, <2>1 DEF EmailAnswered, Timely, Pipeline
  <2>3. /\ clock - lastHeld[e] < EmailTtl + Latency
        /\ clock <= lastHeld[e] + Latency
    BY <1>1, <2>2
  <2>4. /\ req' = GotEmail(r, e) /\ rest /\ Live(r)
        /\ emailCache' = [email |-> e, fetchedAt |-> clock] /\ tokenCache' = tokenCache
        /\ clock' = clock /\ exp' = exp /\ lastHeld' = lastHeld
    BY <1>4, <2>1 DEF EmailAnswered, Live, rest, world
  <2>5. CachesOK'
    BY <1>1, <2>3, <2>4 DEF GInv, CachesOK
  <2> QED
    BY <1>1, <2>3, <2>4, <2>5, GotEmailMove, QuietAt DEF Timely, Points
<1>5. CASE EmailFails(r)
  <2>1. Answer(r, 502) /\ rest /\ cachesSame
    BY <1>5 DEF EmailFails, Fail, ErrorStatus
  <2> QED
    BY <2>1, QuietAnswer DEF Statuses
<1> QED
  BY <1>2, <1>3, <1>4, <1>5

\* The user's memberships.
LEMMA IdentitySteps ==
  ASSUME GInv, NEW r \in Request,
         ResolveMemberships(r) \/ DatabaseFails(r)
  PROVE  GInv'
<1>1. CASE ResolveMemberships(r)
  <2>1. rest /\ cachesSame /\ Live(r)
    BY <1>1 DEF ResolveMemberships, Live
  <2>2. CASE NoMembership(r)
    <3>1. Answer(r, 403) /\ Refusable(req[r].route)
      BY <1>1, <2>2 DEF ResolveMemberships, Fail, ErrorStatus, NoMembership, Refusable
    <3>2. denied[r]
      BY <2>1, <3>1 DEF GInv, RequestsOK, Recorded
    <3> QED
      BY <2>1, <3>1, <3>2, QuietAnswer DEF Statuses
  <2>3. CASE ~NoMembership(r)
    <3>1. At(r, "validate")
      BY <1>1, <2>3 DEF ResolveMemberships
    <3> QED
      BY <2>1, <3>1, CachesStay, QuietOn DEF Points
  <2> QED
    BY <2>2, <2>3
<1>2. CASE DatabaseFails(r)
  <2>1. Answer(r, 500) /\ rest /\ cachesSame
    BY <1>2 DEF DatabaseFails, Fail, ErrorStatus
  <2> QED
    BY <2>1, QuietAnswer DEF Statuses
<1> QED
  BY <1>1, <1>2
----------------------------------------------------------------------------
(* Controllers and clients                                                 *)

\* What a step of one request has to keep when it changes the records of that
\* request or of the service.
LEMMA ServedMove ==
  ASSUME GInv, NEW r \in Request, Moves(r), UNCHANGED world, cachesSame,
         held' \in [Request -> BOOLEAN], denied' \in [Request -> BOOLEAN],
         applied' \in [Request -> Nat], keys' \subseteq Request, ~trespass',
         \A s \in Request \ {r} :
           held'[s] = held[s] /\ denied'[s] = denied[s] /\ applied'[s] = applied[s]
             /\ (s \in keys' <=> s \in keys),
         (Timely(r) /\ Recorded(r) /\ Answers(r) /\ Keyed(r))'
  PROVE  GInv'
<1>1. \A s \in Request \ {r} : (Timely(s) /\ Recorded(s) /\ Answers(s) /\ Keyed(s))'
  BY OthersOK
<1>2. RequestsOK'
  BY <1>1 DEF RequestsOK, Moves
<1>3. WorldOK' /\ CachesOK'
  BY DEF GInv, WorldOK, CachesOK, cachesSame, world
<1> QED
  BY <1>2, <1>3 DEF GInv

\* The service applies the mutation of a request that was permitted.
LEMMA ApplyKeeps ==
  ASSUME GInv, NEW r \in Request, held[r], Apply(r) \/ UNCHANGED service
  PROVE  /\ applied' \in [Request -> Nat] /\ keys' \subseteq Request /\ ~trespass'
         /\ applied'[r] = (IF r \in keys' THEN 1 ELSE 0)
         /\ r \in keys' => req[r].key = r
         /\ \A s \in Request \ {r} : applied'[s] = applied[s] /\ (s \in keys' <=> s \in keys)
<1>1. /\ applied \in [Request -> Nat] /\ keys \subseteq Request /\ ~trespass
      /\ req[r].key \in {r, None} /\ applied[r] = (IF r \in keys THEN 1 ELSE 0)
      /\ r \in keys => req[r].key = r
  BY DEF GInv, RequestsOK, Keyed
<1>2. CASE UNCHANGED service
  BY <1>1, <1>2 DEF service
<1>3. CASE Apply(r) /\ ~UNCHANGED service
  <2>1. /\ req[r].key # None /\ req[r].key \notin keys
        /\ keys' = keys \cup ({req[r].key} \ {None})
        /\ applied' = [applied EXCEPT ![r] = @ + 1]
        /\ trespass' = (trespass \/ ~held[r])
    BY <1>3 DEF Apply, Duplicate, ForwardedKey
  <2>2. r \notin keys /\ keys' = keys \cup {r} /\ req[r].key = r
    BY <1>1, <2>1
  <2>3. applied[r] = 0 /\ applied' = [applied EXCEPT ![r] = 1]
    BY <1>1, <2>1, <2>2
  <2>4. applied' \in [Request -> Nat] /\ applied'[r] = 1
    BY <1>1, <2>3
  <2>5. \A s \in Request \ {r} : applied'[s] = applied[s] /\ (s \in keys' <=> s \in keys)
    BY <1>1, <2>2, <2>3
  <2>6. keys' \subseteq Request /\ r \in keys' /\ ~trespass'
    BY <1>1, <2>1, <2>2
  <2> QED
    BY <2>2, <2>4, <2>5, <2>6
<1> QED
  BY <1>2, <1>3

\* An answer of the service that may have applied the mutation.
LEMMA ForwardAnswer ==
  ASSUME GInv, NEW r \in Request, req[r].at = "forward", NEW status \in {200, 409, 500, 502},
         NEW told \in BOOLEAN, req' = Answered(r, status, told), told => r \in keys',
         Apply(r) \/ UNCHANGED service, cachesSame, UNCHANGED <<world, held, denied>>
  PROVE  GInv'
<1>1. held[r] /\ Recorded(r) /\ req[r].key \in {r, None}
  BY DEF GInv, RequestsOK, Recorded, Keyed
<1>2. /\ applied' \in [Request -> Nat] /\ keys' \subseteq Request /\ ~trespass'
      /\ applied'[r] = (IF r \in keys' THEN 1 ELSE 0)
      /\ r \in keys' => req[r].key = r
      /\ \A s \in Request \ {r} : applied'[s] = applied[s] /\ (s \in keys' <=> s \in keys)
  BY <1>1, ApplyKeeps
<1>3. /\ Moves(r) /\ req'[r].at = "done" /\ req'[r].status = status /\ req'[r].told = told
      /\ req'[r].key = req[r].key /\ req'[r].since = 0
      /\ req'[r].overdue = 0 /\ req'[r].emailAge = 0
  BY AnswerMove DEF GInv, Statuses
<1>4. clock' = clock /\ clock \in Nat
  BY DEF GInv, WorldOK, world
<1>5. Timely(r)' /\ Recorded(r)' /\ Answers(r)'
  <2>1. CASE told
    <3>1. applied'[r] = 1
      BY <1>2, <2>1
    <3> QED
      BY <1>3, <1>4, <2>1, <3>1 DEF Timely, Recorded, Live, Answers
  <2>2. CASE ~told
    <3>1. req'[r].told = FALSE
      BY <1>3, <2>2
    <3> QED
      BY <1>3, <1>4, <3>1 DEF Timely, Recorded, Live, Answers
  <2> QED
    BY <2>1, <2>2
<1>6. Keyed(r)'
  BY <1>1, <1>2, <1>3 DEF Keyed
<1>7. held \in [Request -> BOOLEAN] /\ denied \in [Request -> BOOLEAN]
  BY DEF GInv, RequestsOK
<1> QED
  BY <1>2, <1>3, <1>5, <1>6, <1>7, ServedMove

\* A key that is taken was taken by the request's own mutation.
LEMMA ForwardStep ==
  ASSUME GInv, NEW r \in Request, Forward(r)
  PROVE  GInv'
<1>1. /\ req[r].at = "forward" /\ cachesSame /\ UNCHANGED <<world, held, denied>>
      /\ Keyed(r) /\ keys \subseteq Request /\ applied \in [Request -> Nat]
  BY DEF Forward, GInv, RequestsOK
<1>2. CASE /\ ~Duplicate(r) /\ ~Mismatch(r) /\ Apply(r)
           /\ req' = Answered(r, 200, req[r].key # None)
  <2>1. PICK told \in BOOLEAN : told = (req[r].key # None)
    OBVIOUS
  <2>2. told => r \in keys'
    BY <1>1, <1>2, <2>1 DEF Keyed, Apply, ForwardedKey
  <2>3. req' = Answered(r, 200, told)
    BY <1>2, <2>1
  <2> QED
    BY <1>1, <1>2, <2>2, <2>3, ForwardAnswer
<1>3. CASE Duplicate(r) /\ req' = Answered(r, 409, TRUE) /\ UNCHANGED <<service, faults>>
  <2>1. req[r].key \in {r, None} /\ req[r].key # None /\ req[r].key \in keys
    BY <1>1, <1>3 DEF Duplicate, ForwardedKey, Keyed
  <2>2. UNCHANGED service /\ keys' = keys
    BY <1>3 DEF service
  <2>3. PICK told \in BOOLEAN : told = TRUE
    OBVIOUS
  <2>4. req' = Answered(r, 409, told) /\ r \in keys'
    BY <1>3, <2>1, <2>2, <2>3
  <2> QED
    BY <1>1, <2>2, <2>4, ForwardAnswer
<1>4. CASE ~Duplicate(r) /\ Mismatch(r) /\ Answer(r, 403) /\ UNCHANGED <<service, faults>>
  <2>1. applied[r] = 0
    BY <1>1, <1>4, GatewayAssumption DEF Duplicate, ForwardedKey, Keyed
  <2> QED
    BY <1>1, <1>4, <2>1, QuietAnswer DEF Statuses, rest
<1>5. CASE \E s \in Refusals(RouteOf(req[r].route).kind) :
             /\ s = 410 => ~Duplicate(r)
             /\ Answer(r, RelayedStatus(req[r].route, s)) /\ UNCHANGED <<service, faults>>
  <2>1. PICK s \in {400, 401, 404, 409, 410, 422} :
          Answer(r, RelayedStatus(req[r].route, s)) /\ UNCHANGED <<service, faults>>
    BY <1>5 DEF Refusals
  <2>2. RelayedStatus(req[r].route, s) \in {400, 401, 404, 409, 410, 422, 502}
    BY DEF RelayedStatus
  <2>3. PICK t \in {400, 401, 404, 409, 410, 422, 502} : t = RelayedStatus(req[r].route, s)
    BY <2>2
  <2>4. Answer(r, t) /\ rest /\ cachesSame
    BY <1>1, <2>1, <2>3 DEF rest
  <2> QED
    BY <2>4, QuietAnswer DEF Statuses
<1>6. CASE (Apply(r) \/ UNCHANGED service) /\ \E error \in NoUsableAnswer : Fail(r, error)
  <2>1. PICK error \in NoUsableAnswer : Fail(r, error)
    BY <1>6
  <2>2. ErrorStatus[error] \in {500, 502}
    BY DEF NoUsableAnswer, ErrorStatus
  <2>3. PICK t \in {500, 502} : t = ErrorStatus[error]
    BY <2>2
  <2>4. PICK told \in BOOLEAN : told = FALSE
    OBVIOUS
  <2>5. req' = Answered(r, t, told)
    BY <2>1, <2>3, <2>4 DEF Fail, Answer
  <2> QED
    BY <1>1, <1>6, <2>4, <2>5, ForwardAnswer
<1> QED
  BY <1>2, <1>3, <1>4, <1>5, <1>6 DEF Forward

\* Validation.
LEMMA ValidateSteps ==
  ASSUME GInv, NEW r \in Request, Invalid(r) \/ Valid(r)
  PROVE  GInv'
<1>1. /\ req \in [Request -> Pipeline] /\ req[r] \in Pipeline
      /\ Timely(r) /\ Recorded(r) /\ Answers(r) /\ Keyed(r)
      /\ held \in [Request -> BOOLEAN] /\ denied \in [Request -> BOOLEAN]
      /\ applied \in [Request -> Nat] /\ keys \subseteq Request /\ ~trespass
  BY DEF GInv, RequestsOK
<1>2. CASE Invalid(r)
  <2>1. Answer(r, 400) /\ rest /\ cachesSame
    BY <1>2 DEF Invalid, Fail, ErrorStatus
  <2> QED
    BY <2>1, QuietAnswer DEF Statuses
<1>3. CASE Valid(r)
  <2> DEFINE route == RouteOf(req[r].route)
             unverified == Unverified(r)
  <2>1. /\ req[r].at = "validate" /\ Live(r) /\ cachesSame
        /\ UNCHANGED <<world, held, service>>
        /\ denied' = [denied EXCEPT ![r] = @ \/ unverified]
    BY <1>3 DEF Valid, Live
  <2>2. /\ denied' \in [Request -> BOOLEAN]
        /\ \A s \in Request \ {r} : denied'[s] = denied[s]
        /\ denied[r] \/ unverified => denied'[r]
    BY <1>1, <2>1
  <2>3. /\ clock' = clock /\ role' = role /\ elsewhere' = elsewhere /\ lastHeld' = lastHeld
        /\ held' = held /\ keys' = keys /\ applied' = applied /\ trespass' = trespass
    BY <2>1 DEF world, service
  <2>4. ASSUME NEW point \in {"permit", "forward"}, At(r, point), point = "forward" => held[r]
        PROVE  GInv'
    <3>1. /\ Moves(r) /\ req'[r].at = point /\ req'[r].status = req[r].status
          /\ req'[r].told = req[r].told
          /\ req'[r].key = req[r].key /\ req'[r].route = req[r].route
          /\ req'[r].since = req[r].since /\ req'[r].email = req[r].email
          /\ req'[r].overdue = req[r].overdue /\ req'[r].emailAge = req[r].emailAge
      BY <2>4, AtMove DEF GInv, Points
    <3>2. Timely(r)' /\ Answers(r)' /\ Keyed(r)'
      BY <1>1, <2>1, <2>2, <2>3, <3>1 DEF Timely, Answers, Keyed
    <3>3. Recorded(r)'
      BY <1>1, <2>1, <2>2, <2>3, <2>4, <3>1 DEF Recorded, Live, Refusable
    <3> QED
      BY <1>1, <2>1, <2>2, <2>3, <3>1, <3>2, <3>3, ServedMove
  <2>5. ASSUME NEW status \in {501, 403}, Answer(r, status), status = 403 => unverified
        PROVE  GInv'
    <3>1. /\ Moves(r) /\ req'[r].at = "done" /\ req'[r].status = status
          /\ req'[r].told = FALSE /\ req'[r].key = req[r].key /\ req'[r].since = 0
          /\ req'[r].overdue = 0 /\ req'[r].emailAge = 0
      <4>1. status \in Statuses /\ req' = Answered(r, status, FALSE) /\ RequestsOK
        BY <2>5 DEF GInv, Answer, Statuses
      <4> QED
        BY <4>1, AnswerMove
    <3>2. clock \in Nat
      BY DEF GInv, WorldOK
    <3>3. Timely(r)' /\ Recorded(r)' /\ Answers(r)'
      BY <2>2, <2>3, <2>5, <3>1, <3>2 DEF Timely, Recorded, Live, Answers
    <3>4. Keyed(r)'
      BY <1>1, <2>3, <3>1 DEF Keyed
    <3> QED
      BY <1>1, <2>1, <2>2, <2>3, <3>1, <3>3, <3>4, ServedMove
  <2>6. CASE route.permission # None
    <3>1. At(r, "permit")
      BY <1>3, <2>6 DEF Valid
    <3> QED
      BY <2>4, <3>1
  <2>7. CASE route.permission = None
    <3>1. held[r]
      BY <1>1, <2>1, <2>7 DEF Recorded, Permits
    <3>2. CASE Fail(r, "NotImplemented")
      BY <2>5, <3>2 DEF Fail, ErrorStatus
    <3>3. CASE unverified /\ Fail(r, "Forbidden")
      BY <2>5, <3>3 DEF Fail, ErrorStatus
    <3>4. CASE At(r, "forward")
      BY <2>4, <3>1, <3>4
    <3> QED
      BY <1>3, <2>7, <3>2, <3>3, <3>4 DEF Valid
  <2> QED
    BY <2>6, <2>7
<1> QED
  BY <1>2, <1>3

\* The permission check and the look-up of the account.
LEMMA PermitSteps ==
  ASSUME GInv, NEW r \in Request,
         CheckPermission(r) \/ PermissionUnknown(r) \/ ResolveProviderAccount(r)
  PROVE  GInv'
<1>1. Recorded(r)
  BY DEF GInv, RequestsOK
<1>2. rest /\ cachesSame /\ req[r].at \in {"permit", "resolve"} /\ Live(r)
  BY DEF CheckPermission, PermissionUnknown, ResolveProviderAccount, Live
<1>3. ASSUME NEW status \in {400, 404, 500, 501, 502}, Answer(r, status)
      PROVE  GInv'
  BY <1>2, <1>3, QuietAnswer DEF Statuses
<1>4. CASE CheckPermission(r)
  <2>1. CASE ~Permits(req[r].route, role)
    <3>1. denied[r]
      BY <1>1, <1>2, <2>1 DEF Recorded, Refusable
    <3>2. Answer(r, 403)
      BY <1>4, <2>1 DEF CheckPermission, Fail, ErrorStatus
    <3> QED
      BY <1>2, <3>1, <3>2, QuietAnswer DEF Statuses
  <2>2. CASE Permits(req[r].route, role)
    <3>1. held[r]
      BY <1>1, <1>2, <2>2 DEF Recorded
    <3>2. Answer(r, 501) \/ At(r, "resolve") \/ At(r, "forward")
      BY <1>4, <2>2 DEF CheckPermission, Fail, ErrorStatus
    <3> QED
      BY <1>2, <1>3, <3>1, <3>2, CachesStay, QuietOn DEF Points
  <2> QED
    BY <2>1, <2>2
<1>5. CASE PermissionUnknown(r)
  <2>1. Answer(r, 502) \/ Answer(r, 500)
    BY <1>5 DEF PermissionUnknown, Fail, ErrorStatus
  <2> QED
    BY <1>3, <2>1
<1>6. CASE ResolveProviderAccount(r)
  <2>1. held[r]
    BY <1>1, <1>6 DEF ResolveProviderAccount, Recorded
  <2>2. At(r, "forward") \/ \E status \in {400, 404, 501, 502} : Answer(r, status)
    BY <1>6 DEF ResolveProviderAccount, Fail, ErrorStatus
  <2> QED
    BY <1>2, <1>3, <2>1, <2>2, CachesStay, QuietOn DEF Points
<1> QED
  BY <1>4, <1>5, <1>6
----------------------------------------------------------------------------
(* A request comes in, the first time or again                             *)

\* Where a request starts: before the guard, or behind it under the bypass.
LEMMA Entry ==
  ASSUME NEW name \in Exercised \cup {None}, NEW k \in Request \cup {None}
  PROVE  /\ Entering(name, k) \in Pipeline
         /\ Entering(name, k).at \in {"token", "validate"} /\ Entering(name, k).status = 0
         /\ Entering(name, k).key = k /\ Entering(name, k).route = name
         /\ Entering(name, k).since = 0 /\ Entering(name, k).told = FALSE
         /\ Entering(name, k).overdue = 0 /\ Entering(name, k).emailAge = 0
<1>1. CASE bypass
  <2> DEFINE x == [Idle EXCEPT !.route = name, !.key = k, !.at = "validate", !.email = DevEmail]
  <2>1. Entering(name, k) = x
    BY <1>1 DEF Entering
  <2>2. x \in Pipeline
    BY DEF Pipeline, Points, Idle, Statuses
  <2>3. /\ x.at = "validate" /\ x.status = 0 /\ x.key = k /\ x.route = name
        /\ x.since = 0 /\ x.told = FALSE /\ x.overdue = 0 /\ x.emailAge = 0
    BY DEF Idle
  <2> HIDE DEF x
  <2> QED
    BY <2>1, <2>2, <2>3
<1>2. CASE ~bypass
  <2> DEFINE x == [Idle EXCEPT !.route = name, !.key = k, !.at = "token"]
  <2>1. Entering(name, k) = x
    BY <1>2 DEF Entering
  <2>2. x \in Pipeline
    BY DEF Pipeline, Points, Idle, Statuses
  <2>3. /\ x.at = "token" /\ x.status = 0 /\ x.key = k /\ x.route = name
        /\ x.since = 0 /\ x.told = FALSE /\ x.overdue = 0 /\ x.emailAge = 0
    BY DEF Idle
  <2> HIDE DEF x
  <2> QED
    BY <2>1, <2>2, <2>3
<1> QED
  BY <1>1, <1>2

\* What it may do and be refused at that moment is recorded.
LEMMA EntryMove ==
  ASSUME GInv, NEW r \in Request, NEW name \in Exercised \cup {None}, NEW k \in {r, None},
         NEW h \in BOOLEAN, NEW d \in BOOLEAN, r \in keys => k = r,
         Permits(name, role) => h, Refusable(name) => d,
         req' = [req EXCEPT ![r] = Entering(name, k)],
         held' = [held EXCEPT ![r] = h], denied' = [denied EXCEPT ![r] = d],
         cachesSame, UNCHANGED <<world, service>>
  PROVE  GInv'
<1>1. /\ held \in [Request -> BOOLEAN] /\ denied \in [Request -> BOOLEAN]
      /\ applied \in [Request -> Nat] /\ keys \subseteq Request /\ ~trespass /\ Keyed(r)
      /\ clock \in Nat /\ RequestsOK
  BY DEF GInv, RequestsOK, WorldOK
<1>2. PICK x \in Pipeline : x = Entering(name, k)
  BY Entry
<1>3. /\ x.at \in {"token", "validate"} /\ x.status = 0 /\ x.key = k /\ x.route = name
      /\ x.since = 0 /\ x.told = FALSE /\ x.overdue = 0 /\ x.emailAge = 0
  <2>1. k \in Request \cup {None}
    OBVIOUS
  <2> QED
    BY <1>2, <2>1, Entry
<1>4. Moves(r) /\ req'[r] = x
  <2>1. req' = [req EXCEPT ![r] = x]
    BY <1>2
  <2> QED
    BY <1>1, <2>1, MoveTo
<1>5. /\ held'[r] = h /\ denied'[r] = d
      /\ held' \in [Request -> BOOLEAN] /\ denied' \in [Request -> BOOLEAN]
      /\ \A s \in Request \ {r} : held'[s] = held[s] /\ denied'[s] = denied[s]
  BY <1>1
<1>6. /\ clock' = clock /\ role' = role /\ elsewhere' = elsewhere
      /\ keys' = keys /\ applied' = applied /\ trespass' = trespass
  BY DEF world, service
<1>7. Timely(r)' /\ Answers(r)' /\ Keyed(r)'
  BY <1>1, <1>3, <1>4, <1>5, <1>6 DEF Timely, Answers, Keyed
<1>8. Recorded(r)'
  BY <1>3, <1>4, <1>5, <1>6 DEF Recorded, Live, Refusable
<1> QED
  BY <1>1, <1>4, <1>5, <1>6, <1>7, <1>8, ServedMove

\* A request that has not arrived has no key that is taken.
LEMMA FirstKey ==
  ASSUME GInv, NEW r \in Request, req[r].at = "idle"
  PROVE  r \notin keys
<1>1. req[r].key = None /\ (r \in keys => req[r].key = r)
  BY DEF GInv, RequestsOK, Answers, Keyed
<1> QED
  BY <1>1, GatewayAssumption

LEMMA ArriveStep ==
  ASSUME GInv, NEW r \in Request, NEW name \in Exercised, NEW k \in {r, None},
         Arrive(r, name, k)
  PROVE  GInv'
<1>1. CASE name \notin PublicRoutes
  <2>1. /\ req' = [req EXCEPT ![r] = Entering(name, k)]
        /\ held' = [held EXCEPT ![r] = Permits(name, role)]
        /\ denied' = [denied EXCEPT ![r] = Refusable(name)]
        /\ cachesSame /\ UNCHANGED <<world, service>>
    <3>1. (name \notin PublicRoutes /\ Permits(name, role)) = Permits(name, role)
      BY <1>1 DEF Permits
    <3>2. (name \notin PublicRoutes /\ Refusable(name)) = Refusable(name)
      BY <1>1 DEF Refusable
    <3> QED
      BY <1>1, <3>1, <3>2 DEF Arrive
  <2>2. PICK h \in BOOLEAN : h = Permits(name, role)
    BY DEF Permits
  <2>3. PICK d \in BOOLEAN : d = Refusable(name)
    BY DEF Refusable
  <2>4. r \in keys => k = r
    BY <1>1, FirstKey DEF Arrive
  <2> QED
    BY <2>1, <2>2, <2>3, <2>4, EntryMove
<1>2. CASE name \in PublicRoutes
  <2> DEFINE x == [Idle EXCEPT !.at = "done", !.route = name, !.status = 200]
  <2>1. /\ req' = [req EXCEPT ![r] = x] /\ cachesSame /\ UNCHANGED <<world, service>>
        /\ held' = [held EXCEPT ![r] = FALSE] /\ denied' = [denied EXCEPT ![r] = FALSE]
    BY <1>2 DEF Arrive
  <2>2. x \in Pipeline
    BY DEF Pipeline, Points, Idle, Statuses
  <2>3. /\ x.at = "done" /\ x.status = 200 /\ x.key = None
        /\ x.since = 0 /\ x.told = FALSE /\ x.overdue = 0 /\ x.emailAge = 0
    BY DEF Idle
  <2> HIDE DEF x
  <2>4. /\ held \in [Request -> BOOLEAN] /\ denied \in [Request -> BOOLEAN]
        /\ applied \in [Request -> Nat] /\ keys \subseteq Request /\ ~trespass /\ Keyed(r)
        /\ clock \in Nat /\ RequestsOK
    BY DEF GInv, RequestsOK, WorldOK
  <2>5. Moves(r) /\ req'[r] = x
    BY <2>1, <2>2, <2>4, MoveTo
  <2>6. /\ held' \in [Request -> BOOLEAN] /\ denied' \in [Request -> BOOLEAN]
        /\ \A s \in Request \ {r} : held'[s] = held[s] /\ denied'[s] = denied[s]
    BY <2>1, <2>4
  <2>7. clock' = clock /\ keys' = keys /\ applied' = applied /\ trespass' = trespass
    BY <2>1 DEF world, service
  <2>8. r \notin keys
    BY FirstKey DEF Arrive
  <2>9. Timely(r)' /\ Answers(r)' /\ Keyed(r)' /\ Recorded(r)'
    BY <2>3, <2>4, <2>5, <2>7, <2>8 DEF Timely, Answers, Keyed, Recorded, Live
  <2> QED
    BY <2>1, <2>4, <2>5, <2>6, <2>7, <2>9, ServedMove
<1> QED
  BY <1>1, <1>2

LEMMA RetryStep ==
  ASSUME GInv, NEW r \in Request, Retry(r)
  PROVE  GInv'
<1>1. req[r].route \in Exercised \cup {None} /\ req[r].key \in {r, None}
  BY DEF GInv, RequestsOK, Pipeline, Keyed
<1>2. PICK name \in Exercised \cup {None} : name = req[r].route
  BY <1>1
<1>3. PICK k \in {r, None} : k = req[r].key
  BY <1>1
<1>4. PICK h \in BOOLEAN : h = Permits(name, role)
  BY DEF Permits
<1>5. PICK d \in BOOLEAN : d = Refusable(name)
  BY DEF Refusable
<1>6. /\ req' = [req EXCEPT ![r] = Entering(name, k)]
      /\ held' = [held EXCEPT ![r] = h] /\ denied' = [denied EXCEPT ![r] = d]
      /\ cachesSame /\ UNCHANGED <<world, service>>
  BY <1>2, <1>3, <1>4, <1>5 DEF Retry
<1>7. r \in keys => k = r
  BY <1>3 DEF GInv, RequestsOK, Keyed
<1> QED
  BY <1>4, <1>5, <1>6, <1>7, EntryMove

LEMMA RequestSteps ==
  ASSUME GInv, NEW r \in Request, Step(r)
  PROVE  GInv'
<1>1. ASSUME NEW name \in Exercised, NEW k \in Request \cup {None}, k \in {r, None},
             Arrive(r, name, k)
      PROVE  GInv'
  BY <1>1, ArriveStep
<1> QED
  BY <1>1, TokenSteps, EmailSteps, IdentitySteps, ValidateSteps, PermitSteps, ForwardStep,
     RetryStep DEF Step
----------------------------------------------------------------------------
(* The rest of the world                                                   *)

\* Time passes: no call to Clerk takes longer than Latency.
LEMMA TickStep ==
  ASSUME GInv, Tick
  PROVE  GInv'
<1> USE GatewayAssumption
<1>1. /\ clock \in Nat /\ MaxTime \in Nat /\ Latency \in Nat /\ exp \in Nat
      /\ email \in Email \cup {None} /\ lastHeld \in [Email \cup {None} -> Nat]
      /\ \A e \in Email \cup {None} : lastHeld[e] <= clock
  BY DEF GInv, WorldOK
<1>2. PICK now \in Nat : now = clock + 1
  BY <1>1
<1>3. /\ clock < MaxTime /\ clock' = now /\ lastHeld' = [lastHeld EXCEPT ![email] = now]
      /\ exp' = exp /\ role' = role /\ elsewhere' = elsewhere /\ email' = email
      /\ tokenCache' = tokenCache /\ emailCache' = emailCache /\ req' = req
      /\ held' = held /\ denied' = denied /\ keys' = keys /\ applied' = applied
      /\ trespass' = trespass
      /\ \A r \in Request : req[r].at \in {"verifying", "emailing"} => clock < req[r].since + Latency
  BY <1>2 DEF Tick, service
<1>4. /\ lastHeld' \in [Email \cup {None} -> Nat] /\ lastHeld'[email] = now
      /\ \A e \in Email \cup {None} : lastHeld'[e] <= now /\ lastHeld[e] <= lastHeld'[e]
  BY <1>1, <1>2, <1>3
<1>5. WorldOK'
  BY <1>1, <1>2, <1>3, <1>4 DEF GInv, WorldOK
<1>6. CachesOK'
  BY <1>1, <1>2, <1>3, <1>4 DEF GInv, CachesOK
<1>7. ASSUME NEW r \in Request
      PROVE  (Timely(r) /\ Recorded(r) /\ Answers(r) /\ Keyed(r))'
  <2>1. /\ Timely(r) /\ Recorded(r) /\ Answers(r) /\ Keyed(r) /\ req[r].since \in Nat
    BY DEF GInv, RequestsOK, Pipeline
  <2>2. Timely(r)'
    BY <1>1, <1>2, <1>3, <1>4, <2>1 DEF Timely
  <2>3. Answers(r)' /\ Keyed(r)'
    BY <1>3, <2>1 DEF Answers, Mismatch, Keyed
  <2>4. Recorded(r)'
    BY <1>3, <2>1 DEF Recorded, Live, Refusable
  <2> QED
    BY <2>2, <2>3, <2>4
<1>8. RequestsOK' /\ ~trespass'
  BY <1>3, <1>7 DEF GInv, RequestsOK
<1> QED
  BY <1>5, <1>6, <1>8 DEF GInv

\* The role changes: what a live request may do or be refused now is recorded.
LEMMA RoleStep ==
  ASSUME GInv, NEW new \in Assigned, SetRole(new)
  PROVE  GInv'
<1>1. /\ role' = new /\ clock' = clock /\ exp' = exp /\ elsewhere' = elsewhere
      /\ email' = email /\ lastHeld' = lastHeld
      /\ tokenCache' = tokenCache /\ emailCache' = emailCache /\ req' = req
      /\ keys' = keys /\ applied' = applied /\ trespass' = trespass
      /\ held' = [r \in Request |-> held[r] \/ (Live(r) /\ Permits(req[r].route, new))]
      /\ denied' = [r \in Request |-> denied[r] \/ (Live(r) /\
                      (~Permits(req[r].route, new) \/ (new = "none" /\ ~elsewhere)))]
  BY DEF SetRole, service, Live
<1>2. WorldOK' /\ CachesOK'
  BY <1>1, GatewayAssumption DEF GInv, WorldOK, CachesOK, Role
<1>3. ASSUME NEW r \in Request
      PROVE  /\ (Timely(r) /\ Recorded(r) /\ Answers(r) /\ Keyed(r))'
             /\ held'[r] \in BOOLEAN /\ denied'[r] \in BOOLEAN
  <2>1. /\ Timely(r) /\ Recorded(r) /\ Answers(r) /\ Keyed(r)
    BY DEF GInv, RequestsOK
  <2>2. /\ held'[r] = (held[r] \/ (Live(r) /\ Permits(req[r].route, new)))
        /\ denied'[r] = (denied[r] \/ (Live(r) /\
             (~Permits(req[r].route, new) \/ (new = "none" /\ ~elsewhere))))
    BY <1>1
  <2>3. Timely(r)' /\ Keyed(r)'
    BY <1>1, <2>1 DEF Timely, Keyed
  <2>4. Answers(r)'
    BY <1>1, <2>1, <2>2 DEF Answers, Mismatch
  <2>5. Recorded(r)'
    BY <1>1, <2>1, <2>2 DEF Recorded, Live, Refusable
  <2> QED
    BY <2>2, <2>3, <2>4, <2>5
<1>4. held' \in [Request -> BOOLEAN] /\ denied' \in [Request -> BOOLEAN]
  BY <1>1, <1>3
<1>5. RequestsOK' /\ ~trespass'
  BY <1>1, <1>3, <1>4 DEF GInv, RequestsOK
<1> QED
  BY <1>2, <1>5 DEF GInv

\* The verified address changes, or a cache is dropped.
LEMMA AddressSteps ==
  ASSUME GInv, evictIfOversized \/ \E new \in Email \cup {None} : SetEmail(new)
  PROVE  GInv'
<1>1. /\ clock \in Nat /\ Latency \in Nat /\ email \in Email \cup {None}
      /\ lastHeld \in [Email \cup {None} -> Nat]
      /\ \A e \in Email \cup {None} : lastHeld[e] <= clock
  BY GatewayAssumption DEF GInv, WorldOK
<1>2. /\ clock' = clock /\ exp' = exp /\ role' = role /\ elsewhere' = elsewhere /\ req' = req
      /\ held' = held /\ denied' = denied /\ keys' = keys /\ applied' = applied
      /\ trespass' = trespass
      /\ tokenCache' \in {tokenCache, None} /\ emailCache' \in {emailCache, None}
  BY DEF evictIfOversized, SetEmail, service
<1>3. /\ email' \in Email \cup {None} /\ lastHeld' \in [Email \cup {None} -> Nat]
      /\ lastHeld'[email'] = clock
      /\ \A e \in Email \cup {None} : lastHeld'[e] <= clock /\ lastHeld[e] <= lastHeld'[e]
  <2>1. CASE evictIfOversized
    <3>1. email' = email /\ lastHeld' = lastHeld /\ lastHeld[email] = clock
      BY <2>1 DEF evictIfOversized, GInv, WorldOK
    <3> QED
      BY <1>1, <3>1
  <2>2. CASE \E new \in Email \cup {None} : SetEmail(new)
    <3>1. PICK new \in Email \cup {None} :
            email' = new /\ lastHeld' = [lastHeld EXCEPT ![new] = clock]
      BY <2>2 DEF SetEmail
    <3> QED
      BY <1>1, <3>1
  <2> QED
    BY <2>1, <2>2
<1>4. WorldOK'
  BY <1>2, <1>3 DEF GInv, WorldOK
<1>5. CachesOK'
  BY <1>1, <1>2, <1>3 DEF GInv, CachesOK
<1>6. ASSUME NEW r \in Request
      PROVE  (Timely(r) /\ Recorded(r) /\ Answers(r) /\ Keyed(r))'
  <2>1. /\ Timely(r) /\ Recorded(r) /\ Answers(r) /\ Keyed(r) /\ req[r].since \in Nat
    BY DEF GInv, RequestsOK, Pipeline
  <2>2. Timely(r)'
    BY <1>1, <1>2, <1>3, <2>1 DEF Timely
  <2>3. Answers(r)' /\ Keyed(r)'
    BY <1>2, <2>1 DEF Answers, Mismatch, Keyed
  <2>4. Recorded(r)'
    BY <1>2, <2>1 DEF Recorded, Live, Refusable
  <2> QED
    BY <2>2, <2>3, <2>4
<1>7. RequestsOK' /\ ~trespass'
  BY <1>2, <1>6 DEF GInv, RequestsOK
<1> QED
  BY <1>4, <1>5, <1>7 DEF GInv

\* The step that is no step.
LEMMA NoStep ==
  ASSUME GInv, UNCHANGED vars
  PROVE  GInv'
<1>1. /\ clock' = clock /\ exp' = exp /\ role' = role /\ elsewhere' = elsewhere
      /\ email' = email /\ lastHeld' = lastHeld
      /\ tokenCache' = tokenCache /\ emailCache' = emailCache /\ req' = req
      /\ held' = held /\ denied' = denied /\ keys' = keys /\ applied' = applied
      /\ trespass' = trespass
  BY DEF vars
<1>2. WorldOK' /\ CachesOK'
  BY <1>1 DEF GInv, WorldOK, CachesOK
<1>3. ASSUME NEW r \in Request
      PROVE  (Timely(r) /\ Recorded(r) /\ Answers(r) /\ Keyed(r))'
  <2>1. Timely(r) /\ Recorded(r) /\ Answers(r) /\ Keyed(r)
    BY DEF GInv, RequestsOK
  <2> QED
    BY <1>1, <2>1 DEF Timely, Recorded, Live, Refusable, Answers, Mismatch, Keyed
<1>4. RequestsOK' /\ ~trespass'
  BY <1>1, <1>3 DEF GInv, RequestsOK
<1> QED
  BY <1>2, <1>4 DEF GInv
----------------------------------------------------------------------------
(* Theorems                                                                *)

\* A single user and empty caches.
LEMMA Begin ==
  ASSUME Init
  PROVE  GInv
<1> USE GatewayAssumption
<1>1. WorldOK
  BY DEF Init, WorldOK, Role
<1>2. CachesOK /\ ~trespass
  BY DEF Init, CachesOK
<1>3. Idle \in Pipeline
  BY DEF Idle, Pipeline, Points, Statuses
<1>4. /\ req \in [Request -> Pipeline] /\ \A r \in Request : req[r] = Idle
      /\ held \in [Request -> BOOLEAN] /\ denied \in [Request -> BOOLEAN]
      /\ keys = {} /\ applied \in [Request -> Nat] /\ \A r \in Request : applied[r] = 0
      /\ clock = 0
  BY <1>3 DEF Init
<1>5. ASSUME NEW r \in Request
      PROVE  Timely(r) /\ Recorded(r) /\ Answers(r) /\ Keyed(r)
  <2>1. /\ req[r].at = "idle" /\ req[r].since = 0 /\ req[r].overdue = 0 /\ req[r].key = None
        /\ req[r].emailAge = 0 /\ req[r].status = 0 /\ req[r].told = FALSE
    BY <1>4 DEF Idle
  <2> QED
    BY <1>4, <2>1 DEF Timely, Recorded, Live, Answers, Keyed
<1> QED
  BY <1>1, <1>2, <1>4, <1>5 DEF GInv, RequestsOK

LEMMA Invariant ==
  Spec => []GInv
<1>1. Init => GInv
  BY Begin
<1>2. GInv /\ [Next]_vars => GInv'
  BY RequestSteps, TickStep, RoleStep, AddressSteps, NoStep DEF Next
<1> QED
  BY <1>1, <1>2, PTL DEF Spec

\* Nothing is applied for a caller who never had the permission of the route
\* while the request was under way (assertAllowed fails closed).
THEOREM EffectsAllowed ==
  Spec => []EffectsPermitted
<1>1. GInv => EffectsPermitted
  BY DEF GInv, EffectsPermitted
<1> QED
  BY <1>1, Invariant, PTL

\* A 403 is given only for a permission or membership that was missing during
\* the request, or for an invitation to another address than the request's that
\* the request itself has not accepted; and a client told that its mutation was
\* applied had it applied once (UpstreamClient, claimIdempotencyKey).
THEOREM AnswersHold ==
  Spec => []AnswersTrue
<1>1. GInv => AnswersTrue
  BY DEF GInv, RequestsOK, Answers, AnswersTrue
<1> QED
  BY <1>1, Invariant, PTL

\* The pipeline is well formed; an expired token opens the guard for less than
\* tokenCacheTtlMs, an address is served for less than membershipCacheTtlMs and
\* one call to Clerk after it was given up; a repeated mutation is applied once.
THEOREM GatewayKept ==
  Spec => []GatewayInv
<1>1. ASSUME GInv
      PROVE  GatewayInv
  <2>1. TokenLifetime /\ EmailLifetime
    BY <1>1 DEF GInv, RequestsOK, Timely, TokenLifetime, EmailLifetime
  <2>2. ASSUME NEW r \in Request
        PROVE  applied[r] <= 1
    <3>1. applied[r] = (IF r \in keys THEN 1 ELSE 0)
      BY <1>1 DEF GInv, RequestsOK, Keyed
    <3> QED
      BY <3>1
  <2>3. clock \in 0..MaxTime /\ role \in Role /\ email \in Email \cup {None}
    BY <1>1, GatewayAssumption DEF GInv, WorldOK
  <2>4. /\ tokenCache = None \/ tokenCache \in 0..clock
        /\ emailCache = None \/ (emailCache.fetchedAt \in 0..clock /\ emailCache.email \in Email \cup {None})
    BY <1>1, <2>3 DEF GInv, CachesOK
  <2>5. ASSUME NEW r \in Request
        PROVE  /\ req[r].at \in Points /\ req[r].since <= clock
               /\ (req[r].at = "done") = (req[r].status # 0)
    BY <1>1 DEF GInv, RequestsOK, Pipeline, Timely, Answers
  <2> QED
    BY <2>1, <2>2, <2>3, <2>4, <2>5 DEF GatewayInv, TypeOK, AppliedOnce
<1> QED
  BY <1>1, Invariant, PTL
=============================================================================
