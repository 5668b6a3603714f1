---------------------------- MODULE AuthSessions ----------------------------
(***************************************************************************)
(* The refresh tokens of ONE user (src/src/auth/auth.service.ts): sign-in, *)
(* rotation, the rescue of a client that lost the answer to a rotation,    *)
(* detection of reuse, logout of one device and of all of them.            *)
(*                                                                         *)
(* Everything that issues or retires tokens, except sign-in and logout of  *)
(* one device, is a transaction under the lock of the User row; its Begin  *)
(* step takes the lock and reads, its Commit step makes the writes visible *)
(* and frees the lock.  Requests of the same device may overlap, die at    *)
(* any step and lose their answers.                                        *)
(*                                                                         *)
(* Token n is the n-th row inserted.  A session is named by the token its  *)
(* sign-in issued (sessionStartedAt is copied to every later one).  Dates  *)
(* are marks that time puts on a row.                                      *)
(***************************************************************************)
EXTENDS Naturals, FiniteSets

CONSTANTS
  Requests,    \* request handlers that may run at the same time
  NoRequest,   \* holder of a free lock
  Devices,     \* the user's devices
  NoDevice,    \* the device of an idle handler
  MaxTokens,   \* bound: rows of RefreshToken
  MaxVersion,  \* bound: tokenVersion up to which "logout everywhere" is asked
  Limit,       \* THROTTLE_AUTH_REFRESH_ACCOUNT_LIMIT
  Strict,      \* REFRESH_STRICT_REUSE
  Patient,     \* devices go on only when none of their requests is in flight
  Events       \* what happens in this instance besides refreshing

ASSUME ConstantsAssumption ==
  /\ NoRequest \notin Requests /\ IsFiniteSet(Requests)
  /\ NoDevice \notin Devices
  /\ MaxTokens \in Nat
  /\ MaxVersion \in Nat
  /\ Limit \in Nat \ {0}
  /\ Strict \in BOOLEAN
  /\ Patient \in BOOLEAN
  /\ Events \subseteq {"logout", "everywhere", "grace", "expiry", "minute", "failure"}

VARIABLES
  tokens,   \* the RefreshToken rows
  issued,   \* how many rows were ever inserted
  version,  \* User.tokenVersion
  lock,     \* who holds the lock of the User row
  run,      \* per handler: the request it serves
  store,    \* per device: the refresh token in its keychain, 0 if signed out
  access,   \* per token: the version in the access token signed with it
  over,     \* sessions past REFRESH_ABSOLUTE_DAYS
  closed    \* history: why a session was retired with all the others

vars == <<tokens, issued, version, lock, run, store, access, over, closed>>

Tokens == 1 .. MaxTokens
States == {"absent", "live", "ROTATED", "RECOVERED", "LOGOUT", "REUSE", "deleted"}
NoRow == [state |-> "absent", next |-> 0, session |-> 0, via |-> "none", marks |-> {}]

Blank == [pc |-> "idle", dev |-> NoDevice, tok |-> 0, seen |-> {}, rows |-> {},
          tv |-> {}, new |-> 0, cause |-> "none"]

At(h, pc) == run[h].pc = pc
Busy == {h \in Requests : ~At(h, "idle")}
InFlight(d) == {h \in Busy : run[h].dev = d}

Is(t, s) == tokens[t].state = s
Live == {t \in Tokens : Is(t, "live")}
Revoked(t) == tokens[t].state \in {"ROTATED", "RECOVERED", "LOGOUT", "REUSE"}
Marked(m) == {t \in Tokens : m \in tokens[t].marks}
SessionOf(t) == tokens[t].session

\* Every request inserts at most one row: a new one starts only if it has room.
Room == issued + Cardinality(Busy) < MaxTokens

-----------------------------------------------------------------------------

Init ==
  /\ tokens = [t \in Tokens |-> NoRow]
  /\ issued = 0
  /\ version = 0
  /\ lock = NoRequest
  /\ run = [h \in Requests |-> Blank]
  /\ store = [d \in Devices |-> 0]
  /\ access = [t \in Tokens |-> {}]
  /\ over = {}
  /\ closed = [t \in Tokens |-> "no"]

-----------------------------------------------------------------------------
(* The lock of the User row, and what is written under it                  *)

\* Mutant: the transaction does not take the lock of the user.
NeverWaits == TRUE

\* lockUserSessions: SELECT ... FOR NO KEY UPDATE waits for its holder.
CanLock == lock = NoRequest

Unlocked(h) == IF lock = h THEN NoRequest ELSE lock

\* Rows that an open rotation has updated: a logout of one of them waits.
RowLocked(t) ==
  \E h \in Requests : (At(h, "rotating") /\ run[h].tok = t)
                      \/ (At(h, "retiring") /\ t \in run[h].rows)

NewRow(session, via) ==
  [state |-> "live", next |-> 0, session |-> session, via |-> via,
   marks |-> {"recent"}]

\* Mutant: rows rotated before keep their reason, only live ones are retired.
RetiredLiveOnly(t, rows, cause) ==
  IF t \in rows /\ Is(t, "live") THEN cause ELSE tokens[t].state

\* Mutant: the reason is none of those the rest of the code knows.
RetiredOtherwise(t, rows, cause) ==
  IF (t \in rows /\ Is(t, "live")) \/ tokens[t].state \in {"ROTATED", "RECOVERED"}
  THEN "REVOKED" ELSE tokens[t].state

\* retireAllUserTokens: the live rows found, and the reason of the old ones.
Retired(t, rows, cause) ==
  IF (t \in rows /\ Is(t, "live")) \/ tokens[t].state \in {"ROTATED", "RECOVERED"}
  THEN cause ELSE tokens[t].state

\* What the dates of a row say at the moment a request looks at them.
Look(t) == (tokens[t].marks \ {"recent"})
           \cup (IF SessionOf(t) \in over THEN {"over"} ELSE {})

-----------------------------------------------------------------------------
(* POST /auth/refresh: refreshAccessToken                                  *)

\* A device presents the token in its keychain, again if it got no answer.
Send(h, d) ==
  /\ At(h, "idle") /\ Room
  /\ store[d] # 0
  /\ Patient => \A g \in InFlight(d) : run[g].tok = store[d]
  /\ run' = [run EXCEPT ![h] = [Blank EXCEPT !.pc = "read", !.dev = d,
                                             !.tok = store[d]]]
  /\ UNCHANGED <<tokens, issued, version, lock, store, access, over, closed>>

\* The first findUnique, outside any transaction.
Read(h) ==
  LET t == run[h].tok IN
  /\ At(h, "read")
  /\ \/ /\ Revoked(t)
        /\ run' = [run EXCEPT ![h].pc = "recover", ![h].seen = Look(t)]
     \/ /\ ~Revoked(t)
        /\ run' = [run EXCEPT ![h].pc =
             IF Is(t, "live") /\ Look(t) \cap {"expired", "over"} = {}
             THEN "rotate" ELSE "refused"]
  /\ UNCHANGED <<tokens, issued, version, lock, store, access, over, closed>>

\* Mutant: the limit counts one token too few.
FullOneLate == Cardinality(Marked("recent")) > Limit

\* The tokens issued to the user in the last minute, counted under the lock.
Full == Cardinality(Marked("recent")) >= Limit

\* Mutant: a lost race is tried again instead of being looked into.
TriesAgain(t) == IF Full /\ Is(t, "live") THEN "throttled" ELSE "rotate"

\* Where a rotation that does not happen leads: 429 only for a living token.
NotRotated(t) == IF Full /\ Is(t, "live") THEN "throttled" ELSE "reread"

\* rotateRefreshToken, up to its conditional update: the limit, then the claim.
RotateBegin(h) ==
  LET t == run[h].tok IN
  /\ At(h, "rotate")
  /\ CanLock /\ ~RowLocked(t)
  /\ \/ /\ Full \/ ~Is(t, "live")
        /\ run' = [run EXCEPT ![h].pc = NotRotated(t)]
        /\ UNCHANGED lock
     \/ /\ ~Full /\ Is(t, "live")
        /\ run' = [run EXCEPT ![h].pc = "rotating", ![h].tv = {version}]
        /\ lock' = h
  /\ UNCHANGED <<tokens, issued, version, store, access, over, closed>>

\* Mutant: the successor is created, the pointer to it is written later.
RotatedUnlinked(t, new) ==
  [tokens EXCEPT ![t].state = "ROTATED",
                 ![new] = NewRow(SessionOf(t), "rotation")]

\* The predecessor, the pointer and the successor become visible together.
Rotated(t, new) ==
  [tokens EXCEPT ![t].state = "ROTATED", ![t].next = new,
                 ![new] = NewRow(SessionOf(t), "rotation")]

RotateCommit(h) ==
  /\ At(h, "rotating")
  /\ tokens' = Rotated(run[h].tok, issued + 1)
  /\ issued' = issued + 1
  /\ lock' = Unlocked(h)
  /\ run' = [run EXCEPT ![h].pc = "cleanup", ![h].new = issued + 1]
  /\ UNCHANGED <<version, store, access, over, closed>>

\* deleteMany expiresAt < now: revoked rows stay until they expire.
Due(t) == "expired" \in tokens[t].marks /\ ~Is(t, "deleted")

Purged == [t \in Tokens |->
  IF Due(t) THEN [tokens[t] EXCEPT !.state = "deleted", !.marks = {"expired"}]
            ELSE tokens[t]]

\* The cleanup that follows a rotation, a statement of its own.
Cleanup(h) ==
  /\ At(h, "cleanup")
  /\ \A t \in Tokens : Due(t) => ~RowLocked(t)
  /\ tokens' = Purged
  /\ run' = [run EXCEPT ![h].pc = "granted"]
  /\ UNCHANGED <<issued, version, lock, store, access, over, closed>>

\* The rotation was won by somebody else: the row is read again.
Reread(h) ==
  LET t == run[h].tok IN
  /\ At(h, "reread")
  /\ IF Is(t, "deleted")
     THEN run' = [run EXCEPT ![h].pc = "refused"]
     ELSE run' = [run EXCEPT ![h].pc = "recover", ![h].seen = Look(t)]
  /\ UNCHANGED <<tokens, issued, version, lock, store, access, over, closed>>

-----------------------------------------------------------------------------
(* recoverLostRotation: the decision on the rows as they are under the     *)
(* lock, on the dates as they were when the request looked                 *)

\* Dead, but no sign of a copy: this request is refused, nothing else happens.
Stale(t, seen) ==
  \/ ~Is(t, "ROTATED") /\ ~Is(t, "RECOVERED")
  \/ tokens[t].next = 0
  \/ seen \cap {"expired", "over"} # {}
  \/ Is(t, "ROTATED") /\ Is(tokens[t].next, "LOGOUT")

\* The chain has forked, or (strict) the grace period is over.
Replay(t, seen) ==
  \/ tokens[t].next \notin Live
  \/ "late" \in seen /\ Strict

RecoverBegin(h) ==
  LET t == run[h].tok  seen == run[h].seen IN
  /\ At(h, "recover")
  /\ CanLock
  /\ \/ /\ Stale(t, seen)
        /\ run' = [run EXCEPT ![h].pc = "refused", ![h].seen = {}]
        /\ UNCHANGED lock
     \/ /\ ~Stale(t, seen) /\ Replay(t, seen)
        /\ run' = [run EXCEPT ![h].pc = "retiring", ![h].cause = "REUSE",
                              ![h].rows = Live, ![h].seen = {}]
        /\ lock' = h
     \/ /\ ~Stale(t, seen) /\ ~Replay(t, seen)
        /\ run' = [run EXCEPT ![h].pc = "recovering", ![h].tv = {version},
                              ![h].seen = {}]
        /\ lock' = h
  /\ UNCHANGED <<tokens, issued, version, store, access, over, closed>>

\* Mutant: the rescue claims the successor, which the client may hold already.
RescueKillsSuccessor(t, new) ==
  [tokens EXCEPT ![t].state = "RECOVERED", ![tokens[t].next].state = "REUSE",
                 ![new] = NewRow(SessionOf(t), "recovery")]

\* The rescued token (unless it was purged meanwhile) stays linked to its
\* successor, which stays alive; the new token is not part of the chain.
Rescued(t, new) ==
  [tokens EXCEPT ![t].state = IF Is(t, "deleted") THEN "deleted" ELSE "RECOVERED",
                 ![new] = NewRow(SessionOf(t), "recovery")]

RecoverCommit(h) ==
  /\ At(h, "recovering")
  /\ tokens' = Rescued(run[h].tok, issued + 1)
  /\ issued' = issued + 1
  /\ lock' = Unlocked(h)
  /\ run' = [run EXCEPT ![h].pc = "granted", ![h].new = issued + 1]
  /\ UNCHANGED <<version, store, access, over, closed>>

-----------------------------------------------------------------------------
(* Retiring every session: detected reuse and POST /auth/logout-everywhere *)

\* The access token of the caller passes JwtAuthGuard.
AskEverywhere(h, d) ==
  /\ "everywhere" \in Events
  /\ At(h, "idle")
  /\ store[d] # 0 /\ version < MaxVersion
  /\ Patient => InFlight(d) = {}
  /\ \E t \in Tokens : version \in access[t]
  /\ run' = [run EXCEPT ![h] = [Blank EXCEPT !.pc = "retire", !.dev = d,
                                             !.tok = store[d]]]
  /\ UNCHANGED <<tokens, issued, version, lock, store, access, over, closed>>

EverywhereBegin(h) ==
  /\ At(h, "retire")
  /\ CanLock
  /\ run' = [run EXCEPT ![h].pc = "retiring", ![h].cause = "LOGOUT", ![h].rows = Live]
  /\ lock' = h
  /\ UNCHANGED <<tokens, issued, version, store, access, over, closed>>

RetireCommit(h) ==
  LET rows == run[h].rows  cause == run[h].cause IN
  /\ At(h, "retiring")
  /\ tokens' = [t \in Tokens |->
                  [tokens[t] EXCEPT !.state = Retired(t, rows, cause)]]
  /\ version' = version + 1
  /\ closed' = [s \in Tokens |->
                  IF closed[s] = "no" /\ \E t \in rows : SessionOf(t) = s
                  THEN cause ELSE closed[s]]
  /\ lock' = Unlocked(h)
  /\ run' = [run EXCEPT ![h].pc = "refused", ![h].rows = {}, ![h].cause = "none"]
  /\ UNCHANGED <<issued, store, access, over>>

-----------------------------------------------------------------------------
(* The answers                                                             *)

\* Signing in computes the access token and inserts the refresh token side by
\* side (Promise.all); every other pair is complete when its request gets here.
PairReady(h) ==
  \/ At(h, "granted")
  \/ At(h, "login") /\ run[h].tv # {} /\ run[h].new # 0

\* Mutant: the version is read when the token is signed.
SignedLate(h) == {version}

\* The version in the access token, read before it is signed.
Signed(h) == run[h].tv

\* The access token is signed after the transaction; the answer may be
\* lost, or arrive at a device that has signed out meanwhile.
Grant(h) ==
  LET d == run[h].dev  new == run[h].new IN
  /\ PairReady(h)
  /\ access' = [access EXCEPT ![new] = Signed(h)]
  /\ \/ UNCHANGED store
     \/ /\ (store[d] = 0) <=> At(h, "login")
        /\ store' = [store EXCEPT ![d] = new]
  /\ run' = [run EXCEPT ![h] = Blank]
  /\ UNCHANGED <<tokens, issued, version, lock, over, closed>>

\* A device that is refused with the token it still holds has to sign in again;
\* after logout everywhere it does so as well.
Refuse(h) ==
  LET d == run[h].dev IN
  /\ At(h, "refused")
  /\ \/ UNCHANGED store
     \/ store[d] = run[h].tok /\ store' = [store EXCEPT ![d] = 0]
  /\ run' = [run EXCEPT ![h] = Blank]
  /\ UNCHANGED <<tokens, issued, version, lock, access, over, closed>>

\* 429: the token was not rotated and will be presented again.
Throttle(h) ==
  /\ At(h, "throttled")
  /\ run' = [run EXCEPT ![h] = Blank]
  /\ UNCHANGED <<tokens, issued, version, lock, store, access, over, closed>>

\* The process crashes or the database call fails: an open transaction is rolled
\* back and its lock is freed.
Dies(h) ==
  /\ "failure" \in Events
  /\ h \in Busy
  /\ run' = [run EXCEPT ![h] = Blank]
  /\ lock' = Unlocked(h)
  /\ UNCHANGED <<tokens, issued, version, store, access, over, closed>>

-----------------------------------------------------------------------------
(* Sign-in and logout of one device: neither takes the lock                *)

SignIn(h, d) ==
  /\ At(h, "idle") /\ Room
  /\ store[d] = 0
  /\ InFlight(d) = {}
  /\ run' = [run EXCEPT ![h] = [Blank EXCEPT !.pc = "login", !.dev = d]]
  /\ UNCHANGED <<tokens, issued, version, lock, store, access, over, closed>>

\* issueAccessToken: the version, read outside any transaction.
LoginReads(h) ==
  /\ At(h, "login") /\ run[h].tv = {}
  /\ run' = [run EXCEPT ![h].tv = {version}]
  /\ UNCHANGED <<tokens, issued, version, lock, store, access, over, closed>>

\* issueRefreshToken: the first token of a new session.
LoginInserts(h) ==
  /\ At(h, "login") /\ run[h].new = 0
  /\ tokens' = [tokens EXCEPT ![issued + 1] = NewRow(issued + 1, "login")]
  /\ issued' = issued + 1
  /\ run' = [run EXCEPT ![h].new = issued + 1]
  /\ UNCHANGED <<version, lock, store, access, over, closed>>

\* Mutant: logout does not ask whether the token is still live.
LoggedOutAlways(t) == IF Is(t, "deleted") THEN "deleted" ELSE "LOGOUT"

LoggedOut(t) == IF Is(t, "live") THEN "LOGOUT" ELSE tokens[t].state

\* POST /auth/logout, one conditional update; the device forgets its token even
\* if the request never arrives.
Logout(d) ==
  LET t == store[d] IN
  /\ "logout" \in Events
  /\ t # 0 /\ ~RowLocked(t)
  /\ Patient => InFlight(d) = {}
  /\ \/ tokens' = [tokens EXCEPT ![t].state = LoggedOut(t)]
     \/ UNCHANGED tokens
  /\ store' = [store EXCEPT ![d] = 0]
  /\ UNCHANGED <<issued, version, lock, run, access, over, closed>>

-----------------------------------------------------------------------------
(* Time                                                                    *)

\* REFRESH_REUSE_GRACE_SECONDS after the rotation; nobody asks it of other rows.
GraceEnds(t) ==
  /\ "grace" \in Events
  /\ Is(t, "ROTATED") \/ Is(t, "RECOVERED")
  /\ "late" \notin tokens[t].marks
  /\ tokens' = [tokens EXCEPT ![t].marks = @ \cup {"late"}]
  /\ UNCHANGED <<issued, version, lock, run, store, access, over, closed>>

\* REFRESH_TOKEN_DAYS after it was issued, so never before its predecessor and
\* long after its first minute.
Expires(t) ==
  /\ "expiry" \in Events
  /\ t <= issued /\ "expired" \notin tokens[t].marks
  /\ \A p \in Tokens : tokens[p].next = t => "expired" \in tokens[p].marks
  /\ tokens' = [tokens EXCEPT ![t].marks = (@ \ {"recent"}) \cup {"expired"}]
  /\ UNCHANGED <<issued, version, lock, run, store, access, over, closed>>

\* THROTTLE_WINDOW_MS after it was issued, the oldest first.
MinutePasses(t) ==
  /\ "minute" \in Events
  /\ t \in Marked("recent") /\ \A p \in Marked("recent") : t <= p
  /\ tokens' = [tokens EXCEPT ![t].marks = @ \ {"recent"}]
  /\ UNCHANGED <<issued, version, lock, run, store, access, over, closed>>

\* REFRESH_ABSOLUTE_DAYS after sign-in.
SessionEnds(s) ==
  /\ "expiry" \in Events
  /\ s \notin over /\ \E t \in Tokens : SessionOf(t) = s /\ ~Is(t, "deleted")
  /\ over' = over \cup {s}
  /\ UNCHANGED <<tokens, issued, version, lock, run, store, access, closed>>

\* The nightly retention job.
Purge ==
  /\ \E t \in Tokens : Due(t)
  /\ \A t \in Tokens : Due(t) => ~RowLocked(t)
  /\ tokens' = Purged
  /\ UNCHANGED <<issued, version, lock, run, store, access, over, closed>>

-----------------------------------------------------------------------------

Handler(h) ==
  \/ Read(h) \/ RotateBegin(h) \/ RotateCommit(h) \/ Cleanup(h) \/ Reread(h)
  \/ RecoverBegin(h) \/ RecoverCommit(h) \/ EverywhereBegin(h) \/ RetireCommit(h)
  \/ LoginReads(h) \/ LoginInserts(h)
  \/ Grant(h) \/ Refuse(h) \/ Throttle(h)

Device(d) ==
  \/ \E h \in Requests : Send(h, d) \/ SignIn(h, d) \/ AskEverywhere(h, d)
  \/ Logout(d)

Time ==
  \/ \E t \in Tokens : GraceEnds(t) \/ Expires(t) \/ MinutePasses(t) \/ SessionEnds(t)
  \/ Purge

Next ==
  \/ \E h \in Requests : Handler(h) \/ Dies(h)
  \/ \E d \in Devices : Device(d)
  \/ Time

Spec == Init /\ [][Next]_vars

\* A request that a living process serves goes on, and PostgreSQL hands the row
\* lock to its waiters in turn.
FairSpec == Spec /\ \A h \in Requests : SF_vars(Handler(h))

-----------------------------------------------------------------------------
(* Type invariant                                                          *)

Vias == {"none", "login", "rotation", "recovery"}
Dates == {"recent", "late", "expired"}

Rows == [state : States, next : 0 .. MaxTokens, session : 0 .. MaxTokens,
         via : Vias, marks : SUBSET Dates]

PCs == {"idle", "read", "rotate", "rotating", "cleanup", "reread", "recover",
        "recovering", "retire", "retiring", "granted", "refused", "throttled",
        "login"}
Causes == {"none", "REUSE", "LOGOUT"}
Seen == {"late", "expired", "over"}

Handlers == [pc : PCs, dev : Devices \cup {NoDevice}, tok : 0 .. MaxTokens,
             seen : SUBSET Seen, rows : SUBSET Tokens, tv : SUBSET Nat,
             new : 0 .. MaxTokens, cause : Causes]

\* Every variable stays in its domain.
TypeOK ==
  /\ tokens \in [Tokens -> Rows]
  /\ issued \in 0 .. MaxTokens
  /\ version \in Nat
  /\ lock \in Requests \cup {NoRequest}
  /\ run \in [Requests -> Handlers]
  /\ store \in [Devices -> 0 .. MaxTokens]
  /\ access \in [Tokens -> SUBSET Nat]
  /\ over \subseteq Tokens
  /\ closed \in [Tokens -> {"no", "LOGOUT", "REUSE"}]

-----------------------------------------------------------------------------
(* Safety                                                                  *)

\* Once all sessions were retired (logoutEverywhere, detected reuse), no token of
\* theirs is live, however rotations and rescues raced with the retirement
\* (lockUserSessions).
RetiredSessionsAreDead == \A t \in Live : closed[SessionOf(t)] = "no"

\* The same for the access tokens of rotations and rescues, signed after their
\* transactions: their version was read inside.
RetiredAccessIsDead ==
  \A t \in Tokens : tokens[t].via \in {"rotation", "recovery"} /\ closed[SessionOf(t)] # "no"
    => version \notin access[t]

\* Both: nothing of a retired session works (lockUserSessions).
RetiredIsDead == RetiredSessionsAreDead /\ RetiredAccessIsDead

\* Two requests with the same token never both rotate it, and a rotated token
\* that can still be presented has its successor, of the same session: a retry
\* never finds a rotation without one and takes it for a fork.
ChainIntact ==
  \A t \in Tokens :
    /\ \A p \in Tokens \ {t} : tokens[p].next = tokens[t].next => tokens[t].next = 0
    /\ (Is(t, "ROTATED") \/ Is(t, "RECOVERED")) /\ "expired" \notin tokens[t].marks
         => /\ tokens[t].next \in 1 .. issued
            /\ ~Is(tokens[t].next, "deleted")
            /\ SessionOf(tokens[t].next) = SessionOf(t)

\* The next refresh of token t would get a pair.
Usable(t) ==
  \/ Is(t, "live")
  \/ /\ Is(t, "ROTATED") \/ Is(t, "RECOVERED")
     /\ tokens[t].next \in Live
     /\ Strict => "late" \notin tokens[t].marks

\* Whatever answers a patient device loses and however its retries overlap, the
\* token in its keychain keeps working until it expires or somebody logs out
\* everywhere: no lost rotation and no other device signs it out.
StoredTokenWorks ==
  \A d \in Devices : LET t == store[d] IN
    /\ t # 0 /\ "expired" \notin tokens[t].marks
    /\ SessionOf(t) \notin over /\ closed[SessionOf(t)] # "LOGOUT"
    => Usable(t)

\* However many requests race, the rotations of a minute stay within the limit of
\* the account.
RotationsWithinLimit ==
  Cardinality({t \in Marked("recent") : tokens[t].via = "rotation"}) <= Limit

-----------------------------------------------------------------------------
(* Action properties                                                       *)

\* Tokens never come back to life, never change their successor, and once a token
\* was logged out or its reuse was detected, no request gives it another reason.
RevocationIsFinal ==
  [][\A t \in Tokens :
       /\ Revoked(t) => tokens'[t].next = tokens[t].next /\ tokens'[t].state # "live"
       /\ Is(t, "LOGOUT") \/ Is(t, "REUSE")
            => tokens'[t].state \in {tokens[t].state, "deleted"}]_vars

\* An old token sets off the alarm once: its echo, or another token of sessions
\* already retired, never retires the sessions started since.
EchoIsHarmless ==
  [][\A h \in Requests :
       RetireCommit(h) /\ run[h].cause = "REUSE"
         => closed[SessionOf(run[h].tok)] = "no"]_vars

\* Both: what was revoked stays as it was, and is not revoked over again
\* (retireAllUserTokens, recoverLostRotation).
RetirementIsFinal == RevocationIsFinal /\ EchoIsHarmless

-----------------------------------------------------------------------------
(* Liveness                                                                *)

\* Every refresh is answered: whoever wins the lock, the losers get on.
Answered == \A h \in Requests : At(h, "read") ~> At(h, "idle")

-----------------------------------------------------------------------------
(* What comments of the source say and the code does not do                *)

\* rotateRefreshToken and refreshAccessToken: no working access token is issued
\* for a session that has just been closed.
ClosedSessionHasNoAccess ==
  \A t \in Tokens : Is(t, "LOGOUT") /\ closed[SessionOf(t)] = "LOGOUT"
    => version \notin access[t]

=============================================================================
