---------------------------- MODULE Accounts_Proofs ----------------------------
(***************************************************************************)
(* What belongs to an account: its sessions (AuthSessions), its mails      *)
(* (MailOutbox) and its subscription at Apple (Subscriptions). Each part   *)
(* stands alone: types, the strengthened invariant, one lemma per kind of  *)
(* step, the theorems.                                                     *)
(*                                                                         *)
(* Sessions (auth.service.ts, the lock of the user row in                  *)
(* lockUserSessions, rotateRefreshToken, recoverLostRotation,              *)
(* retireAllUserTokens): ChainIntact, RetiredIsDead, RetirementIsFinal     *)
(* and RotationsWithinLimit for any number of requests, devices and        *)
(* tokens, and StoredTokenWorks for patient devices. Whoever rotates,      *)
(* rescues or retires holds the lock of the user, so what it has read of   *)
(* the sessions still holds when it commits; only a sign-in adds rows      *)
(* meanwhile, and its session is a new one (HandlerFits). A row expires    *)
(* only after the one it succeeds, so a successor is never purged before   *)
(* the rotated token that points to it (RowFits).                          *)
(*                                                                         *)
(* Mail: a worker that sends holds the claim of the row or has lost it;    *)
(* a copy beyond the first was handed over by a worker of another claim    *)
(* round or under a key the provider had forgotten (CopiesInv); and a row  *)
(* whose account was removed has never been claimed after.                 *)
(*                                                                         *)
(* Subscription: periods and transactions keep in step with the changes    *)
(* of Apple, so no stamp or number leaves its range.                       *)
(***************************************************************************)
EXTENDS AuthSessions, MailOutbox, Subscriptions, Integers,
        FiniteSetTheorems, WellFoundedInduction, TLAPS

Holding == {"rotating", "recovering", "retiring"}
Presenting == {"read", "rotate", "rotating", "reread", "recover", "recovering"}

(* The requests that may still insert a row. *)
Owes(r) == r.pc \in Presenting \/ (r.pc = "login" /\ r.new = 0)
Owing == {h \in Requests : Owes(run[h])}
RoomLeft == issued + Cardinality(Owing) <= MaxTokens

RowFits(t) ==
  /\ t > issued => tokens[t] = NoRow /\ closed[t] = "no"
  /\ t <= issued => SessionOf(t) \in 1 .. t
  /\ tokens[t].next \in 0 .. issued
  /\ tokens[t].next # 0 =>
       /\ SessionOf(tokens[t].next) = SessionOf(t)
       /\ "expired" \in tokens[tokens[t].next].marks => "expired" \in tokens[t].marks
  /\ Is(t, "ROTATED") \/ Is(t, "RECOVERED") => tokens[t].next # 0
  /\ Is(t, "deleted") => "expired" \in tokens[t].marks
  /\ Is(t, "live") \/ Is(t, "ROTATED") \/ Is(t, "RECOVERED") => closed[SessionOf(t)] = "no"

OneSuccessorEach ==
  \A t, p \in Tokens : p # t /\ tokens[p].next = tokens[t].next => tokens[t].next = 0

AccessFits(t) ==
  /\ \A v \in access[t] : v <= version
  /\ tokens[t].via \in {"rotation", "recovery"} /\ closed[SessionOf(t)] # "no"
       => version \notin access[t]

(* What a handler with the record r rests on. *)
HandlerFits(r) ==
  /\ r.pc \in Presenting => r.tok \in 1 .. issued
  /\ \A v \in r.tv : v <= version
  /\ r.pc = "rotating" => Is(r.tok, "live")
  /\ r.pc = "recovering" =>
       /\ tokens[r.tok].state \in {"ROTATED", "RECOVERED", "deleted"}
       /\ tokens[r.tok].next # 0
       /\ closed[SessionOf(r.tok)] = "no"
  /\ r.pc = "retiring" =>
       /\ r.rows \subseteq 1 .. issued
       /\ r.cause \in {"REUSE", "LOGOUT"}
       /\ \A t \in Live \ r.rows, s \in r.rows : SessionOf(t) # SessionOf(s)
       /\ r.cause = "REUSE" => r.tok \in 1 .. issued /\ closed[SessionOf(r.tok)] = "no"
  /\ r.pc \in {"cleanup", "granted"} =>
       /\ r.new \in 1 .. issued
       /\ closed[SessionOf(r.new)] # "no" => version \notin r.tv
  /\ r.pc = "login" /\ r.new # 0 => r.new \in 1 .. issued /\ tokens[r.new].via = "login"

LockHeld == \A h \in Requests : run[h].pc \in Holding => lock = h

AuthInv ==
  /\ TypeOK
  /\ RoomLeft
  /\ LockHeld
  /\ OneSuccessorEach
  /\ \A t \in Tokens : RowFits(t) /\ AccessFits(t)
  /\ \A h \in Requests : HandlerFits(run[h])
  /\ \A d \in Devices : store[d] <= issued

-----------------------------------------------------------------------------
(* Room.                                                                    *)
LEMMA BusyIsFinite ==
  /\ IsFiniteSet(Owing) /\ IsFiniteSet(Busy)
  /\ Cardinality(Owing) \in Nat /\ Cardinality(Busy) \in Nat
  /\ Cardinality(Owing) <= Cardinality(Busy)
<1>1. Owing \subseteq Busy /\ Busy \subseteq Requests /\ Owing \subseteq Requests
  BY DEF Owing, Owes, Busy, At, Presenting
<1>2. IsFiniteSet(Requests)
  BY ConstantsAssumption
<1>3. IsFiniteSet(Owing) /\ IsFiniteSet(Busy)
  BY <1>1, <1>2, FS_Subset
<1> QED
  BY <1>1, <1>3, FS_Subset, FS_CardinalityType

LEMMA RoomStays ==
  ASSUME RoomLeft, issued \in Nat, MaxTokens \in Nat, issued' = issued, Owing' \subseteq Owing
  PROVE  RoomLeft'
<1>1. Cardinality(Owing') <= Cardinality(Owing) /\ Cardinality(Owing') \in Nat
  BY BusyIsFinite, FS_Subset, FS_CardinalityType
<1> QED
  BY <1>1, BusyIsFinite DEF RoomLeft

LEMMA RoomTaken ==
  ASSUME Room, issued \in Nat, MaxTokens \in Nat, issued' = issued,
         NEW h, Owing' \subseteq Owing \cup {h}
  PROVE  RoomLeft'
<1>1. /\ IsFiniteSet(Owing \cup {h}) /\ Cardinality(Owing \cup {h}) \in Nat
      /\ Cardinality(Owing \cup {h}) <= Cardinality(Owing) + 1
  <2> DEFINE n == Cardinality(Owing)
             m == Cardinality(Owing \cup {h})
  <2>1. IsFiniteSet(Owing \cup {h}) /\ (m = n \/ m = n + 1)
    BY BusyIsFinite, FS_AddElement
  <2>2. n \in Nat
    BY BusyIsFinite
  <2> HIDE DEF n, m
  <2>3. m \in Nat /\ m <= n + 1
    BY <2>1, <2>2
  <2> QED
    BY <2>1, <2>3 DEF n, m
<1>2. Cardinality(Owing') <= Cardinality(Owing \cup {h}) /\ Cardinality(Owing') \in Nat
  BY <1>1, FS_Subset, FS_CardinalityType
<1> QED
  BY <1>1, <1>2, BusyIsFinite DEF RoomLeft, Room

LEMMA RoomUsed ==
  ASSUME RoomLeft, issued \in Nat, MaxTokens \in Nat, issued' = issued + 1,
         NEW h \in Owing, Owing' \subseteq Owing \ {h}
  PROVE  RoomLeft' /\ issued + 1 \in 1 .. MaxTokens
<1>1. /\ IsFiniteSet(Owing \ {h}) /\ Cardinality(Owing \ {h}) \in Nat
      /\ Cardinality(Owing \ {h}) = Cardinality(Owing) - 1
  BY BusyIsFinite, FS_RemoveElement, FS_CardinalityType
<1>2. Cardinality(Owing') <= Cardinality(Owing \ {h}) /\ Cardinality(Owing') \in Nat
  BY <1>1, FS_Subset, FS_CardinalityType
<1> QED
  BY <1>1, <1>2, BusyIsFinite DEF RoomLeft

-----------------------------------------------------------------------------
(* One handler moves.                                                       *)
LEMMA RunMoves ==
  ASSUME TypeOK, NEW h \in Requests, NEW r \in Handlers, run' = [run EXCEPT ![h] = r]
  PROVE  /\ run' \in [Requests -> Handlers]
         /\ run'[h] = r
         /\ \A g \in Requests : g # h => run'[g] = run[g]
BY DEF TypeOK

LEMMA OwingAfter ==
  ASSUME NEW h \in Requests, NEW r, run'[h] = r,
         \A g \in Requests : g # h => run'[g] = run[g]
  PROVE  /\ Owing' \subseteq Owing \cup {h}
         /\ ~Owes(r) => Owing' \subseteq Owing \ {h}
         /\ (Owes(r) => Owes(run[h])) => Owing' \subseteq Owing
BY DEF Owing

LEMMA LockMoves ==
  ASSUME LockHeld, NEW h \in Requests, NEW r, run'[h] = r,
         \A g \in Requests : g # h => run'[g] = run[g],
         r.pc \in Holding => lock' = h,
         lock' = lock \/ lock = NoRequest \/ lock = h
  PROVE  LockHeld'
<1>1. NoRequest \notin Requests
  BY ConstantsAssumption
<1>2. \A g \in Requests : run'[g].pc \in Holding /\ g # h => lock = g
  BY DEF LockHeld
<1> QED
  BY <1>1, <1>2 DEF LockHeld

(* It writes no row.                                                        *)
LEMMA Moves ==
  ASSUME AuthInv, NEW h \in Requests, NEW r \in Handlers, run' = [run EXCEPT ![h] = r],
         UNCHANGED <<tokens, issued, version, over, closed>>,
         HandlerFits(r),
         lock' \in Requests \cup {NoRequest},
         r.pc \in Holding => lock' = h,
         lock' = lock \/ lock = NoRequest \/ lock = h,
         (Owes(r) => Owes(run[h])) \/ Room,
         store' \in [Devices -> 0 .. MaxTokens], \A d \in Devices : store'[d] <= issued,
         access' \in [Tokens -> SUBSET Nat], \A t \in Tokens : AccessFits(t)'
  PROVE  AuthInv'
<1>1. /\ run' \in [Requests -> Handlers]
      /\ run'[h] = r
      /\ \A g \in Requests : g # h => run'[g] = run[g]
  BY RunMoves DEF AuthInv
<1>2. TypeOK'
  BY <1>1 DEF AuthInv, TypeOK
<1>3. RoomLeft'
  BY <1>1, RoomStays, RoomTaken, OwingAfter, ConstantsAssumption DEF AuthInv, TypeOK
<1>4. LockHeld'
  BY <1>1, LockMoves DEF AuthInv
<1>5. OneSuccessorEach' /\ \A t \in Tokens : RowFits(t)'
  BY DEF AuthInv, OneSuccessorEach, RowFits, Is, SessionOf
<1>6. \A q : HandlerFits(q) => HandlerFits(q)'
  BY DEF HandlerFits, Is, SessionOf, Live
<1>7. ASSUME NEW g \in Requests PROVE HandlerFits(run[g])'
  <2>1. HandlerFits(run'[g])
    BY <1>1 DEF AuthInv
  <2> QED
    BY <2>1 DEF HandlerFits, Is, SessionOf, Live
<1>8. \A d \in Devices : (store[d] <= issued)'
  OBVIOUS
<1> QED
  BY <1>2, <1>3, <1>4, <1>5, <1>7, <1>8 DEF AuthInv

(* It writes no row and answers nobody.                                     *)
LEMMA MovesOn ==
  ASSUME AuthInv, NEW h \in Requests, NEW r \in Handlers, run' = [run EXCEPT ![h] = r],
         UNCHANGED <<tokens, issued, version, store, access, over, closed>>,
         HandlerFits(r),
         lock' \in Requests \cup {NoRequest},
         r.pc \in Holding => lock' = h,
         lock' = lock \/ lock = NoRequest \/ lock = h,
         (Owes(r) => Owes(run[h])) \/ Room
  PROVE  AuthInv'
<1>1. \A t \in Tokens : AccessFits(t)'
  BY DEF AuthInv, AccessFits, SessionOf
<1>2. /\ store' \in [Devices -> 0 .. MaxTokens] /\ \A d \in Devices : store'[d] <= issued
      /\ access' \in [Tokens -> SUBSET Nat]
  BY DEF AuthInv, TypeOK
<1> QED
  BY <1>1, <1>2, Moves

LEMMA BlankFits == Blank \in Handlers /\ HandlerFits(Blank) /\ ~Owes(Blank) /\ Blank.pc \notin Holding
BY ConstantsAssumption
   DEF Blank, Handlers, PCs, Causes, HandlerFits, Owes, Presenting, Holding

LEMMA AuthStarts == Init => AuthInv
<1> SUFFICES ASSUME Init PROVE AuthInv
  OBVIOUS
<1>1. NoRow \in Rows
  BY ConstantsAssumption DEF NoRow, Rows, States, Vias
<1>2. TypeOK
  BY <1>1, BlankFits, ConstantsAssumption DEF Init, TypeOK
<1>3. Owing = {}
  BY BlankFits DEF Init, Owing
<1>4. RoomLeft
  BY <1>3, FS_EmptySet, ConstantsAssumption DEF Init, RoomLeft
<1>5. LockHeld /\ \A h \in Requests : HandlerFits(run[h])
  BY BlankFits DEF Init, LockHeld
<1>6. OneSuccessorEach
  BY DEF Init, OneSuccessorEach, NoRow
<1>7. \A t \in Tokens : RowFits(t) /\ AccessFits(t)
  BY DEF Init, RowFits, AccessFits, NoRow, Tokens, Is
<1>8. \A d \in Devices : store[d] <= issued
  BY DEF Init
<1> QED
  BY <1>2, <1>4, <1>5, <1>6, <1>7, <1>8 DEF AuthInv

-----------------------------------------------------------------------------
(* The steps that write no row.                                             *)
LEMMA AuthTyped ==
  ASSUME AuthInv
  PROVE  /\ \A h \in Requests : run[h] \in Handlers /\ HandlerFits(run[h])
         /\ \A t \in Tokens : tokens[t] \in Rows /\ RowFits(t) /\ AccessFits(t)
         /\ issued \in 0 .. MaxTokens /\ MaxTokens \in Nat /\ version \in Nat
         /\ \A d \in Devices : store[d] \in 0 .. issued
         /\ lock \in Requests \cup {NoRequest}
BY ConstantsAssumption DEF AuthInv, TypeOK

LEMMA LookIsSeen == ASSUME AuthInv, NEW t \in Tokens PROVE Look(t) \subseteq Seen
BY AuthTyped DEF Look, Rows, Dates, Seen

LEMMA SendKeeps ==
  ASSUME AuthInv, NEW h \in Requests, NEW d \in Devices, Send(h, d) PROVE AuthInv'
<1> DEFINE r == [Blank EXCEPT !.pc = "read", !.dev = d, !.tok = store[d]]
<1>1. store[d] \in 0 .. MaxTokens /\ store[d] \in 1 .. issued
  BY AuthTyped DEF Send
<1>a. /\ Blank \in Handlers /\ Blank.new = 0 /\ Blank.tv = {} /\ 0 \in 0 .. MaxTokens
  BY BlankFits, ConstantsAssumption DEF Blank
<1>b. r \in Handlers /\ r.pc = "read" /\ r.tok = store[d] /\ r.tv = {}
  BY <1>1, <1>a DEF Handlers, PCs
<1>2. HandlerFits(r) /\ r.pc \notin Holding
  BY <1>1, <1>b DEF HandlerFits, Presenting, Holding
<1> HIDE DEF r
<1>3. run' = [run EXCEPT ![h] = r]
  BY DEF Send, r
<1> QED
  BY <1>b, <1>2, <1>3, MovesOn, AuthTyped DEF Send

LEMMA ReadKeeps ==
  ASSUME AuthInv, NEW h \in Requests, Read(h) PROVE AuthInv'
<1> DEFINE q == run[h]
           t == run[h].tok
<1>1. /\ q \in Handlers /\ HandlerFits(q) /\ q.pc = "read" /\ t \in 1 .. issued /\ t \in Tokens
      /\ Owes(q)
  BY AuthTyped DEF Read, At, HandlerFits, Presenting, Tokens, Owes
<1>2. Look(t) \subseteq Seen
  BY <1>1, LookIsSeen
<1>3. CASE run' = [run EXCEPT ![h].pc = "recover", ![h].seen = Look(t)]
  <2> DEFINE r == [q EXCEPT !.pc = "recover", !.seen = Look(t)]
  <2>1. r \in Handlers /\ HandlerFits(r) /\ r.pc \notin Holding
    <3> DEFINE S == Look(t)
    <3>1. S \in SUBSET Seen
      BY <1>2
    <3> HIDE DEF S
    <3> QED
      BY <1>1, <3>1 DEF S, Handlers, PCs, HandlerFits, Presenting, Holding
  <2> HIDE DEF r
  <2>2. run' = [run EXCEPT ![h] = r]
    BY <1>3 DEF r
  <2> QED
    BY <1>1, <2>1, <2>2, MovesOn, AuthTyped DEF Read
<1>4. ASSUME NEW pc \in {"rotate", "refused"}, run' = [run EXCEPT ![h].pc = pc]
      PROVE  AuthInv'
  <2> DEFINE r == [q EXCEPT !.pc = pc]
  <2>1. r \in Handlers /\ HandlerFits(r) /\ r.pc \notin Holding
    BY <1>1 DEF Handlers, PCs, HandlerFits, Presenting, Holding
  <2> HIDE DEF r
  <2>2. run' = [run EXCEPT ![h] = r]
    BY <1>4 DEF r
  <2> QED
    BY <1>1, <2>1, <2>2, MovesOn, AuthTyped DEF Read
<1> QED
  BY <1>3, <1>4 DEF Read

LEMMA RotateBeginKeeps ==
  ASSUME AuthInv, NEW h \in Requests, RotateBegin(h) PROVE AuthInv'
<1> DEFINE q == run[h]
<1>1. /\ q \in Handlers /\ HandlerFits(q) /\ q.pc = "rotate" /\ q.tok \in 1 .. issued
      /\ Owes(q) /\ lock = NoRequest
  BY AuthTyped DEF RotateBegin, At, HandlerFits, Presenting, Owes, CanLock
<1>2. ASSUME NEW pc \in {"throttled", "reread"}, run' = [run EXCEPT ![h].pc = pc], lock' = lock
      PROVE  AuthInv'
  <2> DEFINE r == [q EXCEPT !.pc = pc]
  <2>1. r \in Handlers /\ HandlerFits(r) /\ r.pc \notin Holding
    BY <1>1 DEF Handlers, PCs, HandlerFits, Presenting, Holding
  <2> HIDE DEF r
  <2>2. run' = [run EXCEPT ![h] = r]
    BY <1>2 DEF r
  <2> QED
    BY <1>1, <1>2, <2>1, <2>2, MovesOn, AuthTyped DEF RotateBegin
<1>3. CASE /\ Is(q.tok, "live") /\ lock' = h
           /\ run' = [run EXCEPT ![h].pc = "rotating", ![h].tv = {version}]
  <2> DEFINE r == [q EXCEPT !.pc = "rotating", !.tv = {version}]
  <2>a. version \in Nat /\ version <= version
    BY AuthTyped
  <2>b. r \in Handlers
    BY <1>1, <2>a DEF Handlers, PCs
  <2>c. r.pc = "rotating" /\ r.tok = q.tok /\ r.tv = {version}
    BY <1>1 DEF Handlers
  <2>1. r \in Handlers /\ HandlerFits(r)
    BY <1>1, <1>3, <2>a, <2>b, <2>c DEF HandlerFits, Presenting
  <2> HIDE DEF r
  <2>2. run' = [run EXCEPT ![h] = r]
    BY <1>3 DEF r
  <2> QED
    BY <1>1, <1>3, <2>1, <2>2, MovesOn, AuthTyped DEF RotateBegin
<1> QED
  BY <1>2, <1>3 DEF RotateBegin, NotRotated

LEMMA RereadKeeps ==
  ASSUME AuthInv, NEW h \in Requests, Reread(h) PROVE AuthInv'
<1> DEFINE q == run[h]
           t == run[h].tok
           S == Look(t)
<1>1. /\ q \in Handlers /\ HandlerFits(q) /\ q.pc = "reread" /\ t \in 1 .. issued /\ t \in Tokens
      /\ Owes(q)
  BY AuthTyped DEF Reread, At, HandlerFits, Presenting, Tokens, Owes
<1>2. S \in SUBSET Seen
  BY <1>1, LookIsSeen
<1> HIDE DEF S
<1>3. CASE run' = [run EXCEPT ![h].pc = "recover", ![h].seen = S]
  <2> DEFINE r == [q EXCEPT !.pc = "recover", !.seen = S]
  <2>1. r \in Handlers /\ HandlerFits(r) /\ r.pc \notin Holding
    BY <1>1, <1>2 DEF Handlers, PCs, HandlerFits, Presenting, Holding
  <2> HIDE DEF r
  <2>2. run' = [run EXCEPT ![h] = r]
    BY <1>3 DEF r
  <2> QED
    BY <1>1, <2>1, <2>2, MovesOn, AuthTyped DEF Reread
<1>4. CASE run' = [run EXCEPT ![h].pc = "refused"]
  <2> DEFINE r == [q EXCEPT !.pc = "refused"]
  <2>1. r \in Handlers /\ HandlerFits(r) /\ r.pc \notin Holding
    BY <1>1 DEF Handlers, PCs, HandlerFits, Presenting, Holding
  <2> HIDE DEF r
  <2>2. run' = [run EXCEPT ![h] = r]
    BY <1>4 DEF r
  <2> QED
    BY <1>1, <2>1, <2>2, MovesOn, AuthTyped DEF Reread
<1> QED
  BY <1>3, <1>4 DEF Reread, S

LEMMA RecoverBeginKeeps ==
  ASSUME AuthInv, NEW h \in Requests, RecoverBegin(h) PROVE AuthInv'
<1> DEFINE q == run[h]
           t == run[h].tok
<1>1. /\ q \in Handlers /\ HandlerFits(q) /\ q.pc = "recover" /\ t \in 1 .. issued /\ t \in Tokens
      /\ Owes(q) /\ lock = NoRequest /\ RowFits(t)
  BY AuthTyped DEF RecoverBegin, At, HandlerFits, Presenting, Tokens, Owes, CanLock
<1>2. ~Stale(t, q.seen) => /\ Is(t, "ROTATED") \/ Is(t, "RECOVERED")
                           /\ tokens[t].next # 0 /\ closed[SessionOf(t)] = "no"
  BY <1>1 DEF Stale, RowFits
<1>3. CASE /\ run' = [run EXCEPT ![h].pc = "refused", ![h].seen = {}] /\ lock' = lock
  <2> DEFINE r == [q EXCEPT !.pc = "refused", !.seen = {}]
  <2>1. r \in Handlers /\ HandlerFits(r) /\ r.pc \notin Holding
    BY <1>1 DEF Handlers, PCs, HandlerFits, Presenting, Holding
  <2> HIDE DEF r
  <2>2. run' = [run EXCEPT ![h] = r]
    BY <1>3 DEF r
  <2> QED
    BY <1>1, <1>3, <2>1, <2>2, MovesOn, AuthTyped DEF RecoverBegin
<1>4. CASE /\ ~Stale(t, q.seen) /\ lock' = h
           /\ run' = [run EXCEPT ![h].pc = "retiring", ![h].cause = "REUSE",
                                 ![h].rows = Live, ![h].seen = {}]
  <2> DEFINE S == Live
  <2>a. S \in SUBSET Tokens /\ S = Live
    BY DEF Live
  <2>b. S \subseteq 1 .. issued
    BY <2>a, AuthTyped DEF Live, Is, RowFits, NoRow, Tokens
  <2> HIDE DEF S
  <2> DEFINE r == [q EXCEPT !.pc = "retiring", !.cause = "REUSE", !.rows = S, !.seen = {}]
  <2>1. r \in Handlers
    BY <1>1, <2>a DEF Handlers, PCs, Causes
  <2>2. HandlerFits(r)
    BY <1>1, <1>2, <1>4, <2>a, <2>b DEF HandlerFits, Presenting, Handlers
  <2>3. Owes(r) => Owes(q)
    BY <1>1
  <2> HIDE DEF r
  <2>4. run' = [run EXCEPT ![h] = r]
    BY <1>4 DEF r, S
  <2> QED
    BY <1>1, <1>4, <2>1, <2>2, <2>3, <2>4, MovesOn, AuthTyped DEF RecoverBegin
<1>5. CASE /\ ~Stale(t, q.seen) /\ lock' = h
           /\ run' = [run EXCEPT ![h].pc = "recovering", ![h].tv = {version}, ![h].seen = {}]
  <2> DEFINE r == [q EXCEPT !.pc = "recovering", !.tv = {version}, !.seen = {}]
  <2>1. r \in Handlers
    BY <1>1, AuthTyped DEF Handlers, PCs
  <2>2. HandlerFits(r)
    BY <1>1, <1>2, <1>5, AuthTyped DEF HandlerFits, Presenting, Handlers, Is
  <2> HIDE DEF r
  <2>3. run' = [run EXCEPT ![h] = r]
    BY <1>5 DEF r
  <2> QED
    BY <1>1, <1>5, <2>1, <2>2, <2>3, MovesOn, AuthTyped DEF RecoverBegin
<1> QED
  BY <1>3, <1>4, <1>5 DEF RecoverBegin

LEMMA AskEverywhereKeeps ==
  ASSUME AuthInv, NEW h \in Requests, NEW d \in Devices, AskEverywhere(h, d) PROVE AuthInv'
<1> DEFINE r == [Blank EXCEPT !.pc = "retire", !.dev = d, !.tok = store[d]]
<1>1. store[d] \in 0 .. MaxTokens
  BY AuthTyped
<1>a. /\ Blank \in Handlers /\ Blank.new = 0 /\ Blank.tv = {} /\ 0 \in 0 .. MaxTokens
  BY BlankFits, ConstantsAssumption DEF Blank
<1>b. r \in Handlers /\ r.pc = "retire" /\ r.tv = {}
  BY <1>1, <1>a DEF Handlers, PCs
<1>2. HandlerFits(r) /\ r.pc \notin Holding /\ ~Owes(r)
  BY <1>b DEF HandlerFits, Presenting, Holding, Owes
<1> HIDE DEF r
<1>3. run' = [run EXCEPT ![h] = r]
  BY DEF AskEverywhere, r
<1> QED
  BY <1>b, <1>2, <1>3, MovesOn, AuthTyped DEF AskEverywhere

LEMMA EverywhereBeginKeeps ==
  ASSUME AuthInv, NEW h \in Requests, EverywhereBegin(h) PROVE AuthInv'
<1> DEFINE q == run[h]
           S == Live
           r == [q EXCEPT !.pc = "retiring", !.cause = "LOGOUT", !.rows = S]
<1>1. q \in Handlers /\ HandlerFits(q) /\ q.pc = "retire" /\ lock = NoRequest
  BY AuthTyped DEF EverywhereBegin, At, CanLock
<1>2. S \in SUBSET Tokens /\ S = Live
  BY DEF Live
<1>3. S \subseteq 1 .. issued
  BY <1>2, AuthTyped DEF Live, Is, RowFits, NoRow, Tokens
<1> HIDE DEF S
<1>4. r \in Handlers
  BY <1>1, <1>2 DEF Handlers, PCs, Causes
<1>5. HandlerFits(r) /\ ~Owes(r)
  BY <1>1, <1>2, <1>3 DEF HandlerFits, Presenting, Handlers, Owes
<1> HIDE DEF r
<1>6. run' = [run EXCEPT ![h] = r]
  BY DEF EverywhereBegin, r, S
<1> QED
  BY <1>1, <1>4, <1>5, <1>6, MovesOn, AuthTyped DEF EverywhereBegin

LEMMA GrantKeeps ==
  ASSUME AuthInv, NEW h \in Requests, Grant(h) PROVE AuthInv'
<1> DEFINE q == run[h]
<1>1. /\ q \in Handlers /\ HandlerFits(q) /\ q.pc \in {"granted", "login"}
      /\ q.pc = "login" => q.new # 0
  BY AuthTyped DEF Grant, PairReady, At
<1>2. /\ q.new \in 1 .. issued /\ q.new \in Tokens /\ q.tv \in SUBSET Nat
      /\ \A v \in q.tv : v <= version
      /\ tokens[q.new].via \in {"rotation", "recovery"} /\ closed[SessionOf(q.new)] # "no"
           => version \notin q.tv
  BY <1>1, AuthTyped DEF HandlerFits, Tokens, Handlers
<1>3. access' = [access EXCEPT ![q.new] = q.tv]
  BY DEF Grant, Signed
<1>4. access \in [Tokens -> SUBSET Nat] /\ \A t \in Tokens : AccessFits(t)
  BY DEF AuthInv, TypeOK
<1>5. access' \in [Tokens -> SUBSET Nat]
  BY <1>2, <1>3, <1>4
<1>6. \A t \in Tokens : AccessFits(t)'
  BY <1>2, <1>3, <1>4 DEF AccessFits, Grant, SessionOf
<1>7. store' \in [Devices -> 0 .. MaxTokens] /\ \A d \in Devices : store'[d] <= issued
  <2>1. store \in [Devices -> 0 .. MaxTokens] /\ \A d \in Devices : store[d] <= issued
    BY DEF AuthInv, TypeOK
  <2>2. q.new \in 0 .. MaxTokens /\ q.new <= issued
    BY <1>2, AuthTyped
  <2> QED
    BY <2>1, <2>2 DEF Grant
<1>8. run' = [run EXCEPT ![h] = Blank]
  BY DEF Grant
<1> QED
  BY <1>5, <1>6, <1>7, <1>8, BlankFits, Moves, AuthTyped DEF Grant

LEMMA RefuseKeeps ==
  ASSUME AuthInv, NEW h \in Requests, Refuse(h) PROVE AuthInv'
<1>1. /\ access' \in [Tokens -> SUBSET Nat]
      /\ \A t \in Tokens : AccessFits(t)'
  BY DEF AuthInv, TypeOK, AccessFits, SessionOf, Refuse
<1>2. store' \in [Devices -> 0 .. MaxTokens] /\ \A d \in Devices : store'[d] <= issued
  <2>1. store \in [Devices -> 0 .. MaxTokens] /\ \A d \in Devices : store[d] <= issued
    BY DEF AuthInv, TypeOK
  <2> QED
    BY <2>1, AuthTyped DEF Refuse
<1>3. run' = [run EXCEPT ![h] = Blank]
  BY DEF Refuse
<1> QED
  BY <1>1, <1>2, <1>3, BlankFits, Moves, AuthTyped DEF Refuse

LEMMA ThrottleKeeps ==
  ASSUME AuthInv, NEW h \in Requests, Throttle(h) PROVE AuthInv'
BY BlankFits, MovesOn, AuthTyped DEF Throttle

LEMMA DiesKeeps ==
  ASSUME AuthInv, NEW h \in Requests, Dies(h) PROVE AuthInv'
BY BlankFits, MovesOn, AuthTyped DEF Dies, Unlocked

LEMMA SignInKeeps ==
  ASSUME AuthInv, NEW h \in Requests, NEW d \in Devices, SignIn(h, d) PROVE AuthInv'
<1> DEFINE r == [Blank EXCEPT !.pc = "login", !.dev = d]
<1>a. /\ Blank \in Handlers /\ Blank.new = 0 /\ Blank.tv = {} /\ 0 \in 0 .. MaxTokens
  BY BlankFits, ConstantsAssumption DEF Blank
<1>b. r \in Handlers /\ r.pc = "login" /\ r.new = 0 /\ r.tv = {}
  BY <1>a DEF Handlers, PCs
<1>1. HandlerFits(r) /\ r.pc \notin Holding
  BY <1>b DEF HandlerFits, Presenting, Holding
<1> HIDE DEF r
<1>2. run' = [run EXCEPT ![h] = r]
  BY DEF SignIn, r
<1> QED
  BY <1>b, <1>1, <1>2, MovesOn, AuthTyped DEF SignIn

LEMMA LoginReadsKeeps ==
  ASSUME AuthInv, NEW h \in Requests, LoginReads(h) PROVE AuthInv'
<1> DEFINE q == run[h]
           r == [q EXCEPT !.tv = {version}]
<1>1. q \in Handlers /\ HandlerFits(q) /\ q.pc = "login"
  BY AuthTyped DEF LoginReads, At
<1>2. r \in Handlers /\ HandlerFits(r) /\ r.pc \notin Holding /\ (Owes(r) => Owes(q))
  BY <1>1, AuthTyped DEF Handlers, HandlerFits, Presenting, Holding, Owes
<1> HIDE DEF r
<1>3. run' = [run EXCEPT ![h] = r]
  BY DEF LoginReads, r
<1> QED
  BY <1>2, <1>3, MovesOn, AuthTyped DEF LoginReads

LEMMA SessionEndsKeeps ==
  ASSUME AuthInv, NEW s \in Tokens, SessionEnds(s) PROVE AuthInv'
BY DEF SessionEnds, AuthInv, TypeOK, RoomLeft, Owing, LockHeld, OneSuccessorEach, RowFits,
       AccessFits, HandlerFits, Is, SessionOf, Live

-----------------------------------------------------------------------------
(* Time, the purge and a logout: rows grow older, none is added.            *)
Aged(t) ==
  /\ tokens'[t].next = tokens[t].next
  /\ tokens'[t].session = tokens[t].session
  /\ tokens'[t].via = tokens[t].via
  /\ \/ tokens'[t].state = tokens[t].state
     \/ tokens'[t].state = "deleted" /\ "expired" \in tokens'[t].marks /\ ~RowLocked(t)
     \/ tokens'[t].state = "LOGOUT" /\ tokens[t].state = "live" /\ ~RowLocked(t)
  /\ "expired" \in tokens[t].marks => "expired" \in tokens'[t].marks
  /\ "expired" \in tokens'[t].marks =>
       \/ "expired" \in tokens[t].marks
       \/ \A p \in Tokens : tokens[p].next = t => "expired" \in tokens[p].marks
  /\ t > issued => tokens'[t] = tokens[t]

LEMMA AgedFits ==
  ASSUME AuthInv, UNCHANGED <<issued, version, access, closed>>, \A t \in Tokens : Aged(t)
  PROVE  /\ \A t \in Tokens : RowFits(t)' /\ AccessFits(t)'
         /\ OneSuccessorEach'
         /\ \A g \in Requests : \A q : q = run[g] => HandlerFits(q)'
<1>0. issued \in Nat /\ MaxTokens \in Nat /\ \A t \in Tokens : t \in Nat
  BY AuthTyped DEF Tokens
<1>1. ASSUME NEW t \in Tokens PROVE RowFits(t)'
  <2>1. RowFits(t) /\ Aged(t)
    BY <1>1, AuthTyped
  <2>2. ASSUME tokens[t].next # 0
        PROVE  /\ tokens[t].next \in Tokens /\ Aged(tokens[t].next)
               /\ SessionOf(tokens[t].next) = SessionOf(t)
               /\ "expired" \in tokens'[tokens[t].next].marks => "expired" \in tokens'[t].marks
    <3>1. tokens[t].next \in Tokens
      BY <2>1, <2>2, AuthTyped DEF RowFits, Tokens
    <3> QED
      BY <2>1, <2>2, <3>1 DEF RowFits, Aged
  <2>3. (tokens[t].next # 0 =>
       /\ SessionOf(tokens[t].next) = SessionOf(t)
       /\ "expired" \in tokens[tokens[t].next].marks => "expired" \in tokens[t].marks)'
    BY <2>1, <2>2 DEF Aged, SessionOf
  <2>4. (t <= issued => SessionOf(t) \in 1 .. t)' /\ (tokens[t].next \in 0 .. issued)'
    BY <2>1 DEF RowFits, Aged, SessionOf
  <2>5. (t > issued => tokens[t] = NoRow /\ closed[t] = "no")'
    BY <2>1 DEF RowFits, Aged
  <2>6. /\ (Is(t, "ROTATED") \/ Is(t, "RECOVERED") => tokens[t].next # 0)'
        /\ (Is(t, "deleted") => "expired" \in tokens[t].marks)'
        /\ (Is(t, "live") \/ Is(t, "ROTATED") \/ Is(t, "RECOVERED") => closed[SessionOf(t)] = "no")'
    BY <2>1 DEF RowFits, Aged, Is, SessionOf
  <2> QED
    BY <2>3, <2>4, <2>5, <2>6 DEF RowFits
<1>2. ASSUME NEW t \in Tokens PROVE AccessFits(t)'
  BY <1>2, AuthTyped DEF AccessFits, Aged, SessionOf
<1>3. OneSuccessorEach'
  BY DEF AuthInv, OneSuccessorEach, Aged
<1>4. ASSUME NEW g \in Requests, NEW q, q = run[g] PROVE HandlerFits(q)'
  <2>1. HandlerFits(q) /\ q \in Handlers
    BY <1>4, AuthTyped
  <2>2. 1 .. issued \subseteq Tokens
    BY AuthTyped DEF Tokens
  <2>3. ASSUME q.pc = "rotating" PROVE Is(q.tok, "live")'
    <3>1. q.tok \in Tokens /\ Is(q.tok, "live") /\ Aged(q.tok)
      BY <2>1, <2>2, <2>3 DEF HandlerFits, Presenting
    <3>2. RowLocked(q.tok)
      BY <1>4, <2>3 DEF RowLocked, At
    <3> QED
      BY <3>1, <3>2 DEF Aged, Is
  <2>4. ASSUME q.pc = "recovering"
        PROVE  (/\ tokens[q.tok].state \in {"ROTATED", "RECOVERED", "deleted"}
                /\ tokens[q.tok].next # 0
                /\ closed[SessionOf(q.tok)] = "no")'
    <3>1. q.tok \in Tokens /\ Aged(q.tok)
      BY <2>1, <2>2, <2>4 DEF HandlerFits, Presenting
    <3> QED
      BY <2>1, <2>4, <3>1 DEF HandlerFits, Aged, SessionOf
  <2>5. ASSUME q.pc = "retiring"
        PROVE  (/\ q.rows \subseteq 1 .. issued
                /\ q.cause \in {"REUSE", "LOGOUT"}
                /\ \A t \in Live \ q.rows, s \in q.rows : SessionOf(t) # SessionOf(s)
                /\ q.cause = "REUSE" => q.tok \in 1 .. issued /\ closed[SessionOf(q.tok)] = "no")'
    <3>1. Live' \subseteq Live
      BY DEF Live, Is, Aged
    <3>2. \A t \in Tokens : SessionOf(t)' = SessionOf(t)
      BY DEF SessionOf, Aged
    <3>3. q.rows \subseteq Tokens /\ Live \subseteq Tokens
      BY <2>1 DEF Handlers, Live
    <3>4. \A t \in Live' \ q.rows, s \in q.rows : SessionOf(t)' # SessionOf(s)'
      BY <2>1, <2>5, <3>1, <3>2, <3>3 DEF HandlerFits
    <3>5. q.cause = "REUSE" => q.tok \in 1 .. issued /\ closed[SessionOf(q.tok)'] = "no"
      BY <2>1, <2>2, <2>5, <3>2 DEF HandlerFits
    <3> QED
      BY <2>1, <2>5, <3>4, <3>5 DEF HandlerFits, SessionOf
  <2>6. ASSUME q.pc \in {"cleanup", "granted"}
        PROVE  (/\ q.new \in 1 .. issued
                /\ closed[SessionOf(q.new)] # "no" => version \notin q.tv)'
    <3>1. q.new \in Tokens /\ Aged(q.new)
      BY <2>1, <2>2, <2>6 DEF HandlerFits
    <3> QED
      BY <2>1, <2>6, <3>1 DEF HandlerFits, Aged, SessionOf
  <2>7. ASSUME q.pc = "login" /\ q.new # 0
        PROVE  (q.new \in 1 .. issued /\ tokens[q.new].via = "login")'
    <3>1. q.new \in Tokens /\ Aged(q.new)
      BY <2>1, <2>2, <2>7 DEF HandlerFits
    <3> QED
      BY <2>1, <2>7, <3>1 DEF HandlerFits, Aged
  <2>8. /\ (q.pc \in Presenting => q.tok \in 1 .. issued)'
        /\ (\A v \in q.tv : v <= version)'
    BY <2>1 DEF HandlerFits
  <2> QED
    BY <2>3, <2>4, <2>5, <2>6, <2>7, <2>8 DEF HandlerFits
<1> QED
  BY <1>1, <1>2, <1>3, <1>4

LEMMA Ages ==
  ASSUME AuthInv, UNCHANGED <<issued, version, lock, run, access, over, closed>>,
         tokens' \in [Tokens -> Rows], \A t \in Tokens : Aged(t),
         store' \in [Devices -> 0 .. MaxTokens], \A d \in Devices : store'[d] <= issued
  PROVE  AuthInv'
<1>1. /\ \A t \in Tokens : RowFits(t)' /\ AccessFits(t)'
      /\ OneSuccessorEach'
      /\ \A g \in Requests : \A q : q = run[g] => HandlerFits(q)'
  BY AgedFits
<1>2. \A g \in Requests : HandlerFits(run[g])'
  BY <1>1 DEF HandlerFits
<1>3. TypeOK' /\ LockHeld' /\ RoomLeft' /\ \A d \in Devices : (store[d] <= issued)'
  BY DEF AuthInv, TypeOK, LockHeld, RoomLeft, Owing
<1> QED
  BY <1>1, <1>2, <1>3 DEF AuthInv

LEMMA StoreStays ==
  ASSUME AuthInv, store' = store
  PROVE  store' \in [Devices -> 0 .. MaxTokens] /\ \A d \in Devices : store'[d] <= issued
BY DEF AuthInv, TypeOK

(* A row with other marks.                                                  *)
LEMMA Marking ==
  ASSUME AuthInv, NEW t \in Tokens, t <= issued, NEW M \in SUBSET Dates,
         tokens' = [tokens EXCEPT ![t].marks = M],
         "expired" \in tokens[t].marks => "expired" \in M,
         "expired" \in M =>
           \/ "expired" \in tokens[t].marks
           \/ \A p \in Tokens : tokens[p].next = t => "expired" \in tokens[p].marks
  PROVE  tokens' \in [Tokens -> Rows] /\ \A p \in Tokens : Aged(p)
<1>1. tokens \in [Tokens -> Rows] /\ tokens[t] \in Rows /\ issued \in Nat /\ t \in Nat
  BY AuthTyped DEF AuthInv, TypeOK, Tokens
<1>2. [tokens[t] EXCEPT !.marks = M] \in Rows
  BY <1>1 DEF Rows
<1>3. /\ tokens'[t] = [tokens[t] EXCEPT !.marks = M]
      /\ \A p \in Tokens : p # t => tokens'[p] = tokens[p]
  BY <1>1
<1>4. /\ tokens'[t].next = tokens[t].next /\ tokens'[t].session = tokens[t].session
      /\ tokens'[t].via = tokens[t].via /\ tokens'[t].state = tokens[t].state
      /\ tokens'[t].marks = M
  BY <1>1, <1>3 DEF Rows
<1>5. tokens' \in [Tokens -> Rows]
  BY <1>1, <1>2
<1> QED
  BY <1>1, <1>3, <1>4, <1>5 DEF Aged

LEMMA MarkedRow ==
  ASSUME AuthInv, NEW t \in Tokens, tokens[t].marks # {} \/ Is(t, "ROTATED") \/ Is(t, "RECOVERED")
  PROVE  t <= issued /\ tokens[t].marks \in SUBSET Dates
<1>1. tokens[t] \in Rows /\ RowFits(t) /\ issued \in Nat /\ t \in Nat
  BY AuthTyped DEF Tokens
<1>2. NoRow.marks = {} /\ NoRow.state = "absent"
  BY DEF NoRow
<1>3. t <= issued
  BY <1>1, <1>2 DEF RowFits, Is
<1> QED
  BY <1>1, <1>3 DEF Rows

LEMMA GraceEndsKeeps == ASSUME AuthInv, NEW t \in Tokens, GraceEnds(t) PROVE AuthInv'
<1>1. t <= issued /\ tokens[t].marks \in SUBSET Dates
  BY MarkedRow DEF GraceEnds
<1> DEFINE M == tokens[t].marks \cup {"late"}
<1>2. M \in SUBSET Dates /\ ("expired" \in M <=> "expired" \in tokens[t].marks)
  BY <1>1 DEF Dates
<1>3. tokens' = [tokens EXCEPT ![t].marks = M]
  BY DEF GraceEnds
<1> HIDE DEF M
<1>4. tokens' \in [Tokens -> Rows] /\ \A p \in Tokens : Aged(p)
  BY <1>1, <1>2, <1>3, Marking
<1> QED
  BY <1>4, Ages, StoreStays DEF GraceEnds

LEMMA ExpiresKeeps == ASSUME AuthInv, NEW t \in Tokens, Expires(t) PROVE AuthInv'
<1> DEFINE M == (tokens[t].marks \ {"recent"}) \cup {"expired"}
<1>1. M \in SUBSET Dates
  BY AuthTyped DEF Rows, Dates
<1>2. tokens' = [tokens EXCEPT ![t].marks = M]
  BY DEF Expires
<1>3. "expired" \in M
  OBVIOUS
<1> HIDE DEF M
<1>4. tokens' \in [Tokens -> Rows] /\ \A p \in Tokens : Aged(p)
  BY <1>1, <1>2, <1>3, Marking DEF Expires
<1> QED
  BY <1>4, Ages, StoreStays DEF Expires

LEMMA MinutePassesKeeps == ASSUME AuthInv, NEW t \in Tokens, MinutePasses(t) PROVE AuthInv'
<1>1. t <= issued /\ tokens[t].marks \in SUBSET Dates
  BY MarkedRow DEF MinutePasses, Marked
<1> DEFINE M == tokens[t].marks \ {"recent"}
<1>2. M \in SUBSET Dates /\ ("expired" \in M <=> "expired" \in tokens[t].marks)
  BY <1>1
<1>3. tokens' = [tokens EXCEPT ![t].marks = M]
  BY DEF MinutePasses
<1> HIDE DEF M
<1>4. tokens' \in [Tokens -> Rows] /\ \A p \in Tokens : Aged(p)
  BY <1>1, <1>2, <1>3, Marking
<1> QED
  BY <1>4, Ages, StoreStays DEF MinutePasses

LEMMA PurgedAges ==
  ASSUME AuthInv, tokens' = Purged, \A t \in Tokens : Due(t) => ~RowLocked(t)
  PROVE  tokens' \in [Tokens -> Rows] /\ \A t \in Tokens : Aged(t)
<1>1. ASSUME NEW t \in Tokens PROVE tokens'[t] \in Rows /\ Aged(t)
  <2>1. tokens[t] \in Rows /\ RowFits(t)
    BY AuthTyped
  <2>2. CASE Due(t)
    <3>1. tokens'[t] = [tokens[t] EXCEPT !.state = "deleted", !.marks = {"expired"}]
      BY <2>2 DEF Purged
    <3>2. tokens'[t] \in Rows
      BY <2>1, <3>1 DEF Rows, States, Dates
    <3>3. "expired" \in tokens[t].marks /\ ~RowLocked(t)
      BY <2>2 DEF Due
    <3>4. t <= issued
      BY <3>3, MarkedRow
    <3>5. /\ tokens'[t].next = tokens[t].next /\ tokens'[t].session = tokens[t].session
          /\ tokens'[t].via = tokens[t].via /\ tokens'[t].state = "deleted"
          /\ tokens'[t].marks = {"expired"}
      BY <2>1, <3>1 DEF Rows
    <3>6. ~(t > issued)
      BY <3>4, AuthTyped DEF Tokens
    <3> QED
      BY <3>2, <3>3, <3>5, <3>6 DEF Aged
  <2>3. CASE ~Due(t)
    BY <2>1, <2>3 DEF Purged, Aged
  <2> QED
    BY <2>2, <2>3
<1>2. tokens' \in [Tokens -> Rows]
  BY <1>1 DEF Purged
<1> QED
  BY <1>1, <1>2

LEMMA PurgeKeeps == ASSUME AuthInv, Purge PROVE AuthInv'
BY PurgedAges, Ages, StoreStays DEF Purge

LEMMA LogoutKeeps == ASSUME AuthInv, NEW d \in Devices, Logout(d) PROVE AuthInv'
<1> DEFINE t == store[d]
<1>1. /\ tokens \in [Tokens -> Rows] /\ tokens[t] \in Rows /\ t \in Tokens
      /\ t \in 1 .. issued /\ ~RowLocked(t)
  BY AuthTyped DEF AuthInv, TypeOK, Tokens, Logout
<1>2. tokens' \in [Tokens -> Rows] /\ \A p \in Tokens : Aged(p)
  <2>1. CASE tokens' = tokens
    BY <1>1, <2>1 DEF Aged
  <2>2. CASE tokens' = [tokens EXCEPT ![t].state = LoggedOut(t)]
    <3> DEFINE s == LoggedOut(t)
    <3>1. s \in States /\ (s = tokens[t].state \/ (s = "LOGOUT" /\ tokens[t].state = "live"))
      BY <1>1 DEF LoggedOut, Is, Rows, States
    <3> HIDE DEF s
    <3>2. /\ tokens'[t] = [tokens[t] EXCEPT !.state = s]
          /\ \A p \in Tokens : p # t => tokens'[p] = tokens[p]
      BY <1>1, <2>2 DEF s
    <3>3. /\ tokens'[t] \in Rows
          /\ tokens'[t].next = tokens[t].next /\ tokens'[t].session = tokens[t].session
          /\ tokens'[t].via = tokens[t].via /\ tokens'[t].state = s
          /\ tokens'[t].marks = tokens[t].marks
      BY <1>1, <3>1, <3>2 DEF Rows
    <3>4. tokens' \in [Tokens -> Rows]
      BY <1>1, <2>2, <3>2, <3>3
    <3>5. ~(t > issued)
      BY <1>1, AuthTyped
    <3> HIDE DEF t
    <3> QED
      BY <1>1, <3>1, <3>2, <3>3, <3>4, <3>5 DEF Aged
  <2> QED
    BY <2>1, <2>2 DEF Logout
<1>3. store' \in [Devices -> 0 .. MaxTokens] /\ \A e \in Devices : store'[e] <= issued
  <2>1. store \in [Devices -> 0 .. MaxTokens] /\ \A e \in Devices : store[e] <= issued
    BY DEF AuthInv, TypeOK
  <2> QED
    BY <2>1, AuthTyped DEF Logout
<1> QED
  BY <1>2, <1>3, Ages DEF Logout

LEMMA CleanupKeeps == ASSUME AuthInv, NEW h \in Requests, Cleanup(h) PROVE AuthInv'
<1> DEFINE q == run[h]
<1>1. q \in Handlers /\ HandlerFits(q) /\ q.pc = "cleanup"
  BY AuthTyped DEF Cleanup, At
<1>2. tokens' \in [Tokens -> Rows] /\ \A t \in Tokens : Aged(t)
  BY PurgedAges DEF Cleanup
<1>3. /\ \A t \in Tokens : RowFits(t)' /\ AccessFits(t)'
      /\ OneSuccessorEach'
      /\ \A g \in Requests : \A p : p = run[g] => HandlerFits(p)'
  BY <1>2, AgedFits DEF Cleanup
<1>4. PICK p0 : p0 = run[h]
  OBVIOUS
<1>a. PICK r \in Handlers : /\ r = [p0 EXCEPT !.pc = "granted"] /\ r.pc = "granted"
                            /\ r.new = p0.new /\ r.tv = p0.tv
  <2>1. p0 \in Handlers
    BY <1>1, <1>4
  <2>2. /\ [p0 EXCEPT !.pc = "granted"] \in Handlers
        /\ [p0 EXCEPT !.pc = "granted"].pc = "granted"
        /\ [p0 EXCEPT !.pc = "granted"].new = p0.new
        /\ [p0 EXCEPT !.pc = "granted"].tv = p0.tv
    BY <2>1 DEF Handlers, PCs
  <2> QED
    BY <2>2
<1>5. run' = [run EXCEPT ![h] = r]
  BY <1>4, <1>a DEF Cleanup
<1>6. /\ run' \in [Requests -> Handlers]
      /\ run'[h] = r
      /\ \A g \in Requests : g # h => run'[g] = run[g]
  BY <1>a, <1>5, RunMoves DEF AuthInv
<1>7. \A g \in Requests : HandlerFits(run[g])'
  <2>1. HandlerFits(p0)' /\ p0.pc = "cleanup"
    BY <1>1, <1>3, <1>4
  <2>2. HandlerFits(r)'
    BY <1>a, <2>1 DEF HandlerFits, Presenting
  <2>3. ASSUME NEW g \in Requests, g # h PROVE HandlerFits(run[g])'
    BY <1>3, <1>6, <2>3 DEF HandlerFits
  <2>4. HandlerFits(run[h])'
    BY <1>6, <2>2 DEF HandlerFits
  <2> QED
    BY <2>3, <2>4
<1>8. RoomLeft'
  <2>1. ~Owes(r)
    BY <1>a DEF Owes, Presenting
  <2>2. Owing' \subseteq Owing
    BY <1>6, <2>1, OwingAfter
  <2> QED
    BY <2>2, RoomStays, AuthTyped DEF AuthInv, Cleanup
<1>9. LockHeld'
  BY <1>a, <1>6, LockMoves DEF AuthInv, Cleanup, Holding
<1>10. TypeOK' /\ \A d \in Devices : (store[d] <= issued)'
  BY <1>2, <1>6 DEF AuthInv, TypeOK, Cleanup
<1> QED
  BY <1>3, <1>7, <1>8, <1>9, <1>10 DEF AuthInv

-----------------------------------------------------------------------------
(* h inserts the row n for the session s, and may have taken p.              *)
Inserted(h, r, n, s, via, p) ==
  /\ run' = [run EXCEPT ![h] = r]
  /\ h \in Owing /\ ~Owes(r) /\ r.pc \notin Holding
  /\ n = issued + 1 /\ issued' = n
  /\ s \in 1 .. n /\ closed[s] = "no" /\ via \in {"login", "rotation", "recovery"}
  /\ tokens' \in [Tokens -> Rows] /\ tokens'[n] = NewRow(s, via)
  /\ \A t \in Tokens : t # p /\ t # n => tokens'[t] = tokens[t]
  /\ p \in Tokens =>
       /\ p # n
       /\ tokens'[p].session = tokens[p].session
       /\ tokens'[p].via = tokens[p].via
       /\ tokens'[p].marks = tokens[p].marks
       /\ \/ tokens'[p] = tokens[p]
          \/ /\ Is(p, "live") /\ tokens'[p].state = "ROTATED"
             /\ tokens'[p].next = n /\ s = SessionOf(p)
          \/ /\ Is(p, "ROTATED") \/ Is(p, "RECOVERED")
             /\ tokens'[p].state = "RECOVERED"
             /\ tokens'[p].next = tokens[p].next
  /\ \/ \A g \in Requests : g # h => run[g].pc \notin Holding
     \/ s = n /\ p \notin Tokens
  /\ lock' \in Requests \cup {NoRequest}
  /\ lock' = lock \/ lock = NoRequest \/ lock = h
  /\ UNCHANGED <<version, store, access, over, closed>>

LEMMA Inserts ==
  ASSUME AuthInv, NEW h \in Requests, NEW r \in Handlers, NEW n, NEW s, NEW via, NEW p,
         Inserted(h, r, n, s, via, p), HandlerFits(r)'
  PROVE  AuthInv'
<1> USE DEF Inserted
<1>1. /\ run' \in [Requests -> Handlers]
      /\ run'[h] = r
      /\ \A g \in Requests : g # h => run'[g] = run[g]
  BY RunMoves DEF AuthInv
<1>2. RoomLeft' /\ n \in Tokens
  <2>1. Owing' \subseteq Owing \ {h}
    BY <1>1, OwingAfter
  <2>2. RoomLeft' /\ issued + 1 \in 1 .. MaxTokens
    BY <2>1, RoomUsed, AuthTyped DEF AuthInv
  <2> QED
    BY <2>2 DEF Tokens
<1>3. LockHeld'
  BY <1>1, LockMoves DEF AuthInv
<1>4. TypeOK'
  BY <1>1, <1>2 DEF AuthInv, TypeOK, Tokens
<1>5. /\ issued \in Nat /\ \A t \in Tokens : t \in Nat
      /\ \A t \in Tokens : t # n => (t <= issued <=> t <= n) /\ (t > issued <=> t > n)
      /\ ~(n <= issued) /\ 1 .. issued \subseteq 1 .. n /\ 1 .. issued \subseteq Tokens
      /\ n \notin 0 .. issued /\ n # 0 /\ n > issued /\ ~(n > n)
  BY AuthTyped DEF Tokens
<1>6. /\ tokens'[n].state = "live" /\ tokens'[n].next = 0 /\ tokens'[n].session = s
      /\ tokens'[n].via = via /\ tokens'[n].marks = {"recent"}
  BY DEF NewRow
<1>7. \A t \in Tokens : t # n => /\ tokens'[t].session = tokens[t].session
                                 /\ tokens'[t].via = tokens[t].via
                                 /\ tokens'[t].marks = tokens[t].marks
                                 /\ tokens'[t].next = tokens[t].next \/ (t = p /\ tokens'[t].next = n)
  OBVIOUS
<1>8. tokens[n] = NoRow /\ closed[n] = "no" /\ tokens[n].next = 0
  BY <1>2, <1>5, AuthTyped DEF RowFits, NoRow
<1>9. ASSUME NEW t \in Tokens PROVE RowFits(t)' /\ AccessFits(t)'
  <2>1. CASE t = n
    <3>1. RowFits(n)'
      BY <1>5, <1>6 DEF RowFits, SessionOf, Is
    <3>2. AccessFits(n)'
      BY <1>2, <1>6, AuthTyped DEF AccessFits, SessionOf
    <3> QED
      BY <2>1, <3>1, <3>2
  <2>2. CASE t # n
    <3>1. RowFits(t) /\ AccessFits(t)
      BY AuthTyped
    <3>2. AccessFits(t)'
      BY <1>7, <2>2, <3>1 DEF AccessFits, SessionOf
    <3>3. tokens[t].next \in 0 .. issued /\ tokens[t].next # n
      BY <1>5, <3>1 DEF RowFits
    <3>4. CASE tokens'[t] = tokens[t]
      <4>1. tokens[t].next # 0 => tokens[t].next \in Tokens
        BY <1>5, <3>3
      <4>2. tokens[t].next # 0 => /\ tokens'[tokens[t].next].session = tokens[tokens[t].next].session
                                  /\ tokens'[tokens[t].next].marks = tokens[tokens[t].next].marks
        BY <1>7, <3>3, <4>1
      <4> QED
        BY <1>5, <2>2, <3>1, <3>2, <3>3, <3>4, <4>1, <4>2 DEF RowFits, SessionOf, Is
    <3>5. CASE t = p /\ Is(t, "live") /\ tokens'[t].state = "ROTATED"
               /\ tokens'[t].next = n /\ s = SessionOf(t)
      <4>1. t <= issued
        BY <1>5, <3>1, <3>5 DEF RowFits, Is, NoRow
      <4> QED
        BY <1>5, <1>6, <1>7, <2>2, <3>1, <3>2, <3>5, <4>1 DEF RowFits, SessionOf, Is
    <3>6. CASE t = p /\ (Is(t, "ROTATED") \/ Is(t, "RECOVERED"))
               /\ tokens'[t].state = "RECOVERED" /\ tokens'[t].next = tokens[t].next
      <4>1. t <= issued /\ tokens[t].next \in Tokens /\ tokens[t].next # 0
        BY <1>5, <3>1, <3>3, <3>6 DEF RowFits, Is, NoRow
      <4>2. /\ tokens'[tokens[t].next].session = tokens[tokens[t].next].session
            /\ tokens'[tokens[t].next].marks = tokens[tokens[t].next].marks
        BY <1>7, <3>3, <4>1
      <4> QED
        BY <1>5, <1>7, <2>2, <3>1, <3>2, <3>3, <3>6, <4>1, <4>2 DEF RowFits, SessionOf, Is
    <3> QED
      BY <2>2, <3>4, <3>5, <3>6
  <2> QED
    BY <2>1, <2>2
<1>10. OneSuccessorEach'
  <2> SUFFICES ASSUME NEW t \in Tokens, NEW u \in Tokens, u # t,
                      tokens'[u].next = tokens'[t].next
               PROVE  tokens'[t].next = 0
    BY DEF OneSuccessorEach
  <2>1. \A x \in Tokens : x # n => tokens[x].next # n
    BY <1>5, AuthTyped DEF RowFits
  <2>2. \A x \in Tokens : x # n /\ x # p => tokens'[x].next = tokens[x].next
    BY <1>7
  <2>3. tokens[u].next = tokens[t].next => tokens[t].next = 0
    BY DEF AuthInv, OneSuccessorEach
  <2> QED
    BY <1>5, <1>6, <1>7, <2>1, <2>2, <2>3
<1>11. ASSUME NEW g \in Requests, g # h PROVE HandlerFits(run[g])'
  <2>1. PICK q \in Handlers : q = run[g] /\ HandlerFits(q)
    BY AuthTyped
  <2>2. \A t \in 1 .. issued : /\ t \in Tokens /\ t # n /\ t \in 1 .. n
                               /\ SessionOf(t)' = SessionOf(t)
                               /\ tokens'[t].via = tokens[t].via
    BY <1>5, <1>7 DEF SessionOf
  <2>3. /\ (q.pc \in Presenting => q.tok \in 1 .. issued)'
        /\ (\A v \in q.tv : v <= version)'
    BY <1>5, <2>1 DEF HandlerFits
  <2>4. /\ (q.pc \in {"cleanup", "granted"} =>
              /\ q.new \in 1 .. issued
              /\ closed[SessionOf(q.new)] # "no" => version \notin q.tv)'
        /\ (q.pc = "login" /\ q.new # 0 => q.new \in 1 .. issued /\ tokens[q.new].via = "login")'
    BY <2>1, <2>2 DEF HandlerFits
  <2>5. CASE q.pc \notin Holding
    <3>1. HandlerFits(q)'
      BY <2>3, <2>4, <2>5 DEF HandlerFits, Holding
    <3> QED
      BY <1>1, <1>11, <2>1, <3>1 DEF HandlerFits
  <2>6. CASE s = n /\ p \notin Tokens
    <3>1. \A t \in 1 .. issued : tokens'[t] = tokens[t]
      BY <1>5, <2>2, <2>6
    <3>2. ASSUME q.pc = "rotating" PROVE Is(q.tok, "live")'
      BY <2>1, <3>1, <3>2 DEF HandlerFits, Presenting, Is
    <3>3. ASSUME q.pc = "recovering"
          PROVE  (/\ tokens[q.tok].state \in {"ROTATED", "RECOVERED", "deleted"}
                  /\ tokens[q.tok].next # 0
                  /\ closed[SessionOf(q.tok)] = "no")'
      BY <2>1, <3>1, <3>3 DEF HandlerFits, Presenting, SessionOf
    <3>4. ASSUME q.pc = "retiring"
          PROVE  (/\ q.rows \subseteq 1 .. issued
                  /\ q.cause \in {"REUSE", "LOGOUT"}
                  /\ \A t \in Live \ q.rows, x \in q.rows : SessionOf(t) # SessionOf(x)
                  /\ q.cause = "REUSE" => q.tok \in 1 .. issued /\ closed[SessionOf(q.tok)] = "no")'
      <4>1. q.rows \subseteq 1 .. issued
        BY <2>1, <3>4 DEF HandlerFits
      <4>2. Live' \subseteq Live \cup {n}
        BY <2>6 DEF Live, Is
      <4>3. \A x \in q.rows : SessionOf(x)' = SessionOf(x) /\ SessionOf(x) # n
        BY <1>5, <2>2, <4>1, AuthTyped DEF RowFits
      <4>4. SessionOf(n)' = n
        BY <1>6, <2>6 DEF SessionOf
      <4>5. \A t \in Live : t # n /\ SessionOf(t)' = SessionOf(t)
        BY <1>2, <1>7, <1>8 DEF Live, Is, NoRow, SessionOf
      <4>6. \A t \in Live \ q.rows, x \in q.rows : SessionOf(t) # SessionOf(x)
        BY <2>1, <3>4 DEF HandlerFits
      <4>7. \A t \in Live' \ q.rows, x \in q.rows : SessionOf(t)' # SessionOf(x)'
        BY <4>2, <4>3, <4>4, <4>5, <4>6
      <4>8. q.cause \in {"REUSE", "LOGOUT"} /\ q.rows \subseteq 1 .. n
        BY <1>5, <2>1, <3>4, <4>1 DEF HandlerFits
      <4>9. q.cause = "REUSE" => q.tok \in 1 .. n /\ closed[SessionOf(q.tok)'] = "no"
        BY <2>1, <2>2, <3>4 DEF HandlerFits
      <4> QED
        BY <4>7, <4>8, <4>9 DEF SessionOf
    <3>5. HandlerFits(q)'
      BY <2>3, <2>4, <3>2, <3>3, <3>4 DEF HandlerFits
    <3> QED
      BY <1>1, <1>11, <2>1, <3>5 DEF HandlerFits
  <2> QED
    BY <1>11, <2>1, <2>5, <2>6
<1>12. HandlerFits(run[h])'
  BY <1>1 DEF HandlerFits
<1>13. \A d \in Devices : (store[d] <= issued)'
  <2>1. \A d \in Devices : store[d] \in 0 .. issued
    BY AuthTyped
  <2> QED
    BY <1>5, <2>1
<1> QED
  BY <1>2, <1>3, <1>4, <1>9, <1>10, <1>11, <1>12, <1>13 DEF AuthInv

LEMMA NewRowFits ==
  ASSUME NEW s \in 0 .. MaxTokens, NEW via \in {"login", "rotation", "recovery"}
  PROVE  NewRow(s, via) \in Rows
BY ConstantsAssumption DEF NewRow, Rows, States, Vias, Dates

(* The row that h is about to insert has its place. *)
LEMMA PlaceLeft ==
  ASSUME AuthInv, NEW h \in Owing PROVE issued + 1 \in Tokens /\ issued + 1 \in 1 .. MaxTokens
<1>1. /\ IsFiniteSet(Owing) /\ Cardinality(Owing) \in Nat
  BY BusyIsFinite
<1>2. Cardinality(Owing) # 0
  BY <1>1, FS_EmptySet
<1> QED
  BY <1>1, <1>2, AuthTyped DEF AuthInv, RoomLeft, Tokens

LEMMA HoldsAlone ==
  ASSUME AuthInv, NEW h \in Requests, run[h].pc \in Holding
  PROVE  lock = h /\ \A g \in Requests : g # h => run[g].pc \notin Holding
BY DEF AuthInv, LockHeld

LEMMA RotateCommitKeeps ==
  ASSUME AuthInv, NEW h \in Requests, RotateCommit(h) PROVE AuthInv'
<1>1. PICK q \in Handlers : q = run[h] /\ HandlerFits(q) /\ q.pc = "rotating"
  BY AuthTyped DEF RotateCommit, At
<1>2. PICK n : n = issued + 1
  OBVIOUS
<1>3. PICK p : p = q.tok
  OBVIOUS
<1>4. /\ p \in 1 .. issued /\ p \in Tokens /\ Is(p, "live") /\ h \in Owing
      /\ n \in Tokens /\ n \in 1 .. MaxTokens
      /\ lock = h /\ \A g \in Requests : g # h => run[g].pc \notin Holding
  <2>1. h \in Owing
    BY <1>1 DEF Owing, Owes, Presenting
  <2> QED
    BY <1>1, <1>2, <1>3, <2>1, PlaceLeft, HoldsAlone, AuthTyped
       DEF HandlerFits, Presenting, Holding, Tokens
<1>5. /\ p # n /\ issued \in Nat /\ n \notin 1 .. issued
  BY <1>2, <1>4, AuthTyped
<1>6. PICK s : s = SessionOf(p)
  OBVIOUS
<1>7. s \in 1 .. n /\ closed[s] = "no" /\ s \in 0 .. MaxTokens
  BY <1>2, <1>4, <1>6, AuthTyped DEF RowFits, Tokens
<1>8. /\ tokens' = [tokens EXCEPT ![p].state = "ROTATED", ![p].next = n, ![n] = NewRow(s, "rotation")]
      /\ run' = [run EXCEPT ![h].pc = "cleanup", ![h].new = n]
      /\ issued' = n /\ lock' = NoRequest
  BY <1>1, <1>2, <1>3, <1>4, <1>6 DEF RotateCommit, Rotated, Unlocked
<1>9. PICK r \in Handlers : /\ r = [q EXCEPT !.pc = "cleanup", !.new = n]
                           /\ r.pc = "cleanup" /\ r.new = n /\ r.tv = q.tv
  <2>1. n \in 0 .. MaxTokens /\ "cleanup" \in PCs
    BY <1>4, AuthTyped DEF PCs
  <2>2. /\ [q EXCEPT !.pc = "cleanup", !.new = n] \in Handlers
        /\ [q EXCEPT !.pc = "cleanup", !.new = n].pc = "cleanup"
        /\ [q EXCEPT !.pc = "cleanup", !.new = n].new = n
        /\ [q EXCEPT !.pc = "cleanup", !.new = n].tv = q.tv
    BY <1>1, <2>1 DEF Handlers
  <2> QED
    BY <2>2
<1>10. run' = [run EXCEPT ![h] = r]
  BY <1>1, <1>8, <1>9
<1>11. tokens \in [Tokens -> Rows] /\ NewRow(s, "rotation") \in Rows
  BY <1>7, NewRowFits DEF AuthInv, TypeOK
<1>12. /\ tokens'[n] = NewRow(s, "rotation")
       /\ tokens'[p] = [tokens[p] EXCEPT !.state = "ROTATED", !.next = n]
       /\ \A t \in Tokens : t # p /\ t # n => tokens'[t] = tokens[t]
  BY <1>4, <1>5, <1>8, <1>11
<1>13. /\ tokens'[p] \in Rows
       /\ tokens'[p].state = "ROTATED" /\ tokens'[p].next = n
       /\ tokens'[p].session = tokens[p].session /\ tokens'[p].via = tokens[p].via
       /\ tokens'[p].marks = tokens[p].marks
  <2>1. n \in 0 .. MaxTokens /\ "ROTATED" \in States /\ tokens[p] \in Rows
    BY <1>4, <1>11, AuthTyped DEF States
  <2> QED
    BY <1>12, <2>1 DEF Rows
<1>14. tokens' \in [Tokens -> Rows]
  <2>1. \A t \in Tokens : tokens'[t] \in Rows
    BY <1>11, <1>12, <1>13
  <2>2. tokens' = [t \in Tokens |-> tokens'[t]]
    BY <1>8, <1>11
  <2> QED
    BY <2>1, <2>2
<1>15. SessionOf(n)' = s
  BY <1>12 DEF SessionOf, NewRow
<1>16. HandlerFits(r)'
  <2>1. \A v \in r.tv : v <= version
    BY <1>1, <1>9 DEF HandlerFits
  <2>2. n \in 1 .. n
    BY <1>4
  <2> QED
    BY <1>7, <1>8, <1>9, <1>15, <2>1, <2>2 DEF HandlerFits, Presenting, RotateCommit
<1>17. ~Owes(r) /\ r.pc \notin Holding
  BY <1>9 DEF Owes, Presenting, Holding
<1>18. /\ p \in Tokens => /\ p # n
                         /\ tokens'[p].session = tokens[p].session
                         /\ tokens'[p].via = tokens[p].via
                         /\ tokens'[p].marks = tokens[p].marks
                         /\ \/ tokens'[p] = tokens[p]
                            \/ /\ Is(p, "live") /\ tokens'[p].state = "ROTATED"
                               /\ tokens'[p].next = n /\ s = SessionOf(p)
                            \/ /\ Is(p, "ROTATED") \/ Is(p, "RECOVERED")
                               /\ tokens'[p].state = "RECOVERED"
                               /\ tokens'[p].next = tokens[p].next
  BY <1>4, <1>5, <1>6, <1>13
<1>19. /\ \/ \A g \in Requests : g # h => run[g].pc \notin Holding
          \/ s = n /\ p \notin Tokens
       /\ lock' \in Requests \cup {NoRequest}
       /\ lock' = lock \/ lock = NoRequest \/ lock = h
       /\ UNCHANGED <<version, store, access, over, closed>>
  BY <1>4, <1>8 DEF RotateCommit
<1>20. Inserted(h, r, n, s, "rotation", p)
  BY <1>2, <1>4, <1>7, <1>8, <1>10, <1>12, <1>14, <1>17, <1>18, <1>19 DEF Inserted
<1> QED
  BY <1>16, <1>20, Inserts

LEMMA RecoverCommitKeeps ==
  ASSUME AuthInv, NEW h \in Requests, RecoverCommit(h) PROVE AuthInv'
<1>1. PICK q \in Handlers : q = run[h] /\ HandlerFits(q) /\ q.pc = "recovering"
  BY AuthTyped DEF RecoverCommit, At
<1>2. PICK n : n = issued + 1
  OBVIOUS
<1>3. PICK p : p = q.tok
  OBVIOUS
<1>4. /\ p \in 1 .. issued /\ p \in Tokens /\ h \in Owing
      /\ tokens[p].state \in {"ROTATED", "RECOVERED", "deleted"}
      /\ closed[SessionOf(p)] = "no"
      /\ n \in Tokens /\ n \in 1 .. MaxTokens
      /\ lock = h /\ \A g \in Requests : g # h => run[g].pc \notin Holding
  <2>1. h \in Owing
    BY <1>1 DEF Owing, Owes, Presenting
  <2> QED
    BY <1>1, <1>2, <1>3, <2>1, PlaceLeft, HoldsAlone, AuthTyped
       DEF HandlerFits, Presenting, Holding, Tokens
<1>5. /\ p # n /\ issued \in Nat /\ n \notin 1 .. issued
  BY <1>2, <1>4, AuthTyped
<1>6. PICK s : s = SessionOf(p)
  OBVIOUS
<1>7. s \in 1 .. n /\ closed[s] = "no" /\ s \in 0 .. MaxTokens
  BY <1>2, <1>4, <1>6, AuthTyped DEF RowFits, Tokens
<1>a. PICK e : e = IF Is(p, "deleted") THEN "deleted" ELSE "RECOVERED"
  OBVIOUS
<1>8. /\ tokens' = [tokens EXCEPT ![p].state = e, ![n] = NewRow(s, "recovery")]
      /\ run' = [run EXCEPT ![h].pc = "granted", ![h].new = n]
      /\ issued' = n /\ lock' = NoRequest
  BY <1>1, <1>2, <1>3, <1>4, <1>6, <1>a DEF RecoverCommit, Rescued, Unlocked
<1>9. PICK r \in Handlers : /\ r = [q EXCEPT !.pc = "granted", !.new = n]
                           /\ r.pc = "granted" /\ r.new = n /\ r.tv = q.tv
  <2>1. n \in 0 .. MaxTokens /\ "granted" \in PCs
    BY <1>4, AuthTyped DEF PCs
  <2>2. /\ [q EXCEPT !.pc = "granted", !.new = n] \in Handlers
        /\ [q EXCEPT !.pc = "granted", !.new = n].pc = "granted"
        /\ [q EXCEPT !.pc = "granted", !.new = n].new = n
        /\ [q EXCEPT !.pc = "granted", !.new = n].tv = q.tv
    BY <1>1, <2>1 DEF Handlers
  <2> QED
    BY <2>2
<1>10. run' = [run EXCEPT ![h] = r]
  BY <1>1, <1>8, <1>9
<1>11. tokens \in [Tokens -> Rows] /\ NewRow(s, "recovery") \in Rows
  BY <1>7, NewRowFits DEF AuthInv, TypeOK
<1>12. /\ tokens'[n] = NewRow(s, "recovery")
       /\ tokens'[p] = [tokens[p] EXCEPT !.state = e]
       /\ \A t \in Tokens : t # p /\ t # n => tokens'[t] = tokens[t]
  BY <1>4, <1>5, <1>8, <1>11
<1>13. /\ tokens'[p] \in Rows
       /\ tokens'[p].state = e /\ tokens'[p].next = tokens[p].next
       /\ tokens'[p].session = tokens[p].session /\ tokens'[p].via = tokens[p].via
       /\ tokens'[p].marks = tokens[p].marks
  BY <1>4, <1>11, <1>12, <1>a DEF Rows, States
<1>b. e = "deleted" => tokens'[p] = tokens[p]
  <2>1. tokens[p] \in Rows
    BY <1>4, <1>11
  <2> QED
    BY <1>4, <1>12, <1>a, <2>1 DEF Rows, Is
<1>14. tokens' \in [Tokens -> Rows]
  <2>1. \A t \in Tokens : tokens'[t] \in Rows
    BY <1>11, <1>12, <1>13
  <2>2. tokens' = [t \in Tokens |-> tokens'[t]]
    BY <1>8, <1>11
  <2> QED
    BY <2>1, <2>2
<1>15. SessionOf(n)' = s
  BY <1>12 DEF SessionOf, NewRow
<1>16. HandlerFits(r)'
  <2>1. \A v \in r.tv : v <= version
    BY <1>1, <1>9 DEF HandlerFits
  <2>2. n \in 1 .. n
    BY <1>4
  <2> QED
    BY <1>7, <1>8, <1>9, <1>15, <2>1, <2>2 DEF HandlerFits, Presenting, RecoverCommit
<1>17. ~Owes(r) /\ r.pc \notin Holding
  BY <1>9 DEF Owes, Presenting, Holding
<1>18. /\ p \in Tokens => /\ p # n
                         /\ tokens'[p].session = tokens[p].session
                         /\ tokens'[p].via = tokens[p].via
                         /\ tokens'[p].marks = tokens[p].marks
                         /\ \/ tokens'[p] = tokens[p]
                            \/ /\ Is(p, "live") /\ tokens'[p].state = "ROTATED"
                               /\ tokens'[p].next = n /\ s = SessionOf(p)
                            \/ /\ Is(p, "ROTATED") \/ Is(p, "RECOVERED")
                               /\ tokens'[p].state = "RECOVERED"
                               /\ tokens'[p].next = tokens[p].next
  BY <1>4, <1>5, <1>13, <1>a, <1>b DEF Is
<1>19. /\ \/ \A g \in Requests : g # h => run[g].pc \notin Holding
          \/ s = n /\ p \notin Tokens
       /\ lock' \in Requests \cup {NoRequest}
       /\ lock' = lock \/ lock = NoRequest \/ lock = h
       /\ UNCHANGED <<version, store, access, over, closed>>
  BY <1>4, <1>8 DEF RecoverCommit
<1>20. Inserted(h, r, n, s, "recovery", p)
  BY <1>2, <1>4, <1>7, <1>8, <1>10, <1>12, <1>14, <1>17, <1>18, <1>19 DEF Inserted
<1> QED
  BY <1>16, <1>20, Inserts

LEMMA LoginInsertsKeeps ==
  ASSUME AuthInv, NEW h \in Requests, LoginInserts(h) PROVE AuthInv'
<1>1. PICK q \in Handlers : q = run[h] /\ HandlerFits(q) /\ q.pc = "login" /\ q.new = 0
  BY AuthTyped DEF LoginInserts, At
<1>2. PICK n : n = issued + 1
  OBVIOUS
<1>3. /\ h \in Owing /\ n \in Tokens /\ n \in 1 .. MaxTokens /\ n \in 1 .. n
      /\ issued \in Nat /\ n > issued /\ n \in 0 .. MaxTokens
  <2>1. h \in Owing
    BY <1>1 DEF Owing, Owes
  <2>2. n \in Tokens /\ n \in 1 .. MaxTokens
    BY <1>2, <2>1, PlaceLeft
  <2> QED
    BY <1>2, <2>1, <2>2, AuthTyped
<1>4. closed[n] = "no"
  BY <1>3, AuthTyped DEF RowFits
<1>5. /\ tokens' = [tokens EXCEPT ![n] = NewRow(n, "login")]
      /\ run' = [run EXCEPT ![h].new = n] /\ issued' = n /\ lock' = lock
      /\ UNCHANGED <<version, store, access, over, closed>>
  BY <1>2 DEF LoginInserts
<1>6. PICK r \in Handlers : r = [q EXCEPT !.new = n] /\ r.pc = "login" /\ r.new = n /\ r.tv = q.tv
  <2>1. /\ [q EXCEPT !.new = n] \in Handlers
        /\ [q EXCEPT !.new = n].pc = "login"
        /\ [q EXCEPT !.new = n].new = n
        /\ [q EXCEPT !.new = n].tv = q.tv
    BY <1>1, <1>3 DEF Handlers
  <2> QED
    BY <2>1
<1>7. run' = [run EXCEPT ![h] = r]
  BY <1>1, <1>5, <1>6
<1>8. /\ tokens' \in [Tokens -> Rows] /\ tokens'[n] = NewRow(n, "login")
      /\ \A t \in Tokens : t # 0 /\ t # n => tokens'[t] = tokens[t]
  <2>1. tokens \in [Tokens -> Rows] /\ NewRow(n, "login") \in Rows
    BY <1>3, NewRowFits DEF AuthInv, TypeOK
  <2> QED
    BY <1>3, <1>5, <2>1
<1>9. 0 \notin Tokens
  BY DEF Tokens
<1>10. HandlerFits(r)'
  <2>1. \A v \in r.tv : v <= version
    BY <1>1, <1>6 DEF HandlerFits
  <2>2. tokens'[n].via = "login"
    BY <1>8 DEF NewRow
  <2> QED
    BY <1>3, <1>5, <1>6, <2>1, <2>2 DEF HandlerFits, Presenting
<1>11. ~Owes(r) /\ r.pc \notin Holding
  BY <1>3, <1>6 DEF Owes, Presenting, Holding
<1>12. lock' \in Requests \cup {NoRequest}
  BY <1>5, AuthTyped
<1>13. Inserted(h, r, n, n, "login", 0)
  BY <1>2, <1>3, <1>4, <1>5, <1>7, <1>8, <1>9, <1>11, <1>12 DEF Inserted
<1> QED
  BY <1>10, <1>13, Inserts

-----------------------------------------------------------------------------
(* Every session of the rows that were live under the lock ends.            *)
LEMMA RetireCommitKeeps ==
  ASSUME AuthInv, NEW h \in Requests, RetireCommit(h) PROVE AuthInv'
<1>1. PICK q \in Handlers : q = run[h] /\ HandlerFits(q) /\ q.pc = "retiring"
  BY AuthTyped DEF RetireCommit, At
<1>2. PICK rows : rows = q.rows
  OBVIOUS
<1>3. PICK cause : cause = q.cause
  OBVIOUS
<1>4. /\ rows \subseteq 1 .. issued /\ rows \subseteq Tokens /\ cause \in {"REUSE", "LOGOUT"}
      /\ \A t \in Live \ rows, s \in rows : SessionOf(t) # SessionOf(s)
  BY <1>1, <1>2, <1>3 DEF HandlerFits, Handlers
<1>5. lock = h /\ \A g \in Requests : g # h => run[g].pc \notin Holding
  BY <1>1, HoldsAlone DEF Holding
<1>6. /\ tokens' = [t \in Tokens |-> [tokens[t] EXCEPT !.state = Retired(t, rows, cause)]]
      /\ version' = version + 1
      /\ closed' = [s \in Tokens |-> IF closed[s] = "no" /\ \E t \in rows : SessionOf(t) = s
                                     THEN cause ELSE closed[s]]
      /\ lock' = NoRequest
      /\ run' = [run EXCEPT ![h].pc = "refused", ![h].rows = {}, ![h].cause = "none"]
      /\ UNCHANGED <<issued, store, access, over>>
  BY <1>1, <1>2, <1>3, <1>5 DEF RetireCommit, Unlocked
<1>7. PICK r \in Handlers : /\ r = [q EXCEPT !.pc = "refused", !.rows = {}, !.cause = "none"]
                           /\ r.pc = "refused" /\ r.tv = q.tv
  <2>1. /\ [q EXCEPT !.pc = "refused", !.rows = {}, !.cause = "none"] \in Handlers
        /\ [q EXCEPT !.pc = "refused", !.rows = {}, !.cause = "none"].pc = "refused"
        /\ [q EXCEPT !.pc = "refused", !.rows = {}, !.cause = "none"].tv = q.tv
    BY <1>1 DEF Handlers, PCs, Causes
  <2> QED
    BY <2>1
<1>8. run' = [run EXCEPT ![h] = r]
  BY <1>1, <1>6, <1>7
<1>9. /\ run' \in [Requests -> Handlers]
      /\ run'[h] = r
      /\ \A g \in Requests : g # h => run'[g] = run[g]
  BY <1>7, <1>8, RunMoves DEF AuthInv
<1>10. ASSUME NEW t \in Tokens
       PROVE  /\ tokens'[t] \in Rows
              /\ tokens'[t].next = tokens[t].next /\ tokens'[t].session = tokens[t].session
              /\ tokens'[t].via = tokens[t].via /\ tokens'[t].marks = tokens[t].marks
              /\ tokens'[t].state = Retired(t, rows, cause)
              /\ tokens[t].state = Retired(t, rows, cause) => tokens'[t] = tokens[t]
  <2>1. PICK e : e = Retired(t, rows, cause)
    OBVIOUS
  <2>2. tokens[t] \in Rows /\ e \in States
    BY <1>4, <2>1, AuthTyped DEF Retired, States, Rows
  <2>3. tokens'[t] = [tokens[t] EXCEPT !.state = e]
    BY <1>6, <2>1
  <2> QED
    BY <2>1, <2>2, <2>3 DEF Rows
<1>11. \A t \in Tokens :
         /\ Retired(t, rows, cause) \in {tokens[t].state, cause}
         /\ Retired(t, rows, cause) \notin {"ROTATED", "RECOVERED"}
         /\ Retired(t, rows, cause) = "live" => Is(t, "live") /\ t \notin rows
         /\ Retired(t, rows, cause) = "deleted" => Is(t, "deleted")
         /\ Is(t, "absent") => Retired(t, rows, cause) = "absent"
  BY <1>4 DEF Retired, Is
<1>12. ASSUME NEW t \in Tokens PROVE RowFits(t)'
  <2>1. RowFits(t) /\ issued \in Nat /\ t \in Nat
    BY AuthTyped DEF Tokens
  <2>2. ASSUME t > issued PROVE tokens'[t] = NoRow /\ closed'[t] = "no"
    <3>1. tokens[t] = NoRow /\ closed[t] = "no" /\ Is(t, "absent")
      BY <2>1, <2>2 DEF RowFits, NoRow, Is
    <3>2. tokens'[t] = NoRow
      BY <1>10, <1>11, <3>1 DEF Is
    <3>3. \A x \in rows : SessionOf(x) # t
      BY <1>4, <2>1, <2>2, AuthTyped DEF RowFits, Tokens
    <3> QED
      BY <1>6, <3>1, <3>2, <3>3
  <2>3. ASSUME tokens'[t].state = "live" PROVE closed'[SessionOf(t)'] = "no"
    <3>1. Is(t, "live") /\ t \notin rows
      BY <1>10, <1>11, <2>3
    <3>2. closed[SessionOf(t)] = "no" /\ \A x \in rows : SessionOf(x) # SessionOf(t)
      BY <1>4, <2>1, <3>1 DEF RowFits, Live
    <3>3. SessionOf(t)' = SessionOf(t)
      BY <1>10 DEF SessionOf
    <3>4. SessionOf(t) \in Tokens
      <4>1. t <= issued
        BY <2>1, <3>1 DEF RowFits, Is, NoRow
      <4> QED
        BY <2>1, <4>1, AuthTyped DEF RowFits, Tokens
    <3> QED
      BY <1>6, <3>2, <3>3, <3>4
  <2>4. (tokens[t].next # 0 =>
           /\ SessionOf(tokens[t].next) = SessionOf(t)
           /\ "expired" \in tokens[tokens[t].next].marks => "expired" \in tokens[t].marks)'
    <3>1. tokens[t].next # 0 => tokens[t].next \in Tokens
      BY <2>1, AuthTyped DEF RowFits, Tokens
    <3> QED
      BY <1>10, <2>1, <3>1 DEF RowFits, SessionOf
  <2>5. /\ (t <= issued => SessionOf(t) \in 1 .. t)'
        /\ (tokens[t].next \in 0 .. issued)'
    BY <1>6, <1>10, <2>1 DEF RowFits, SessionOf
  <2>6. /\ (Is(t, "ROTATED") \/ Is(t, "RECOVERED") => tokens[t].next # 0)'
        /\ (Is(t, "deleted") => "expired" \in tokens[t].marks)'
        /\ (Is(t, "live") \/ Is(t, "ROTATED") \/ Is(t, "RECOVERED") => closed[SessionOf(t)] = "no")'
    BY <1>10, <1>11, <2>1, <2>3 DEF RowFits, Is
  <2> QED
    BY <1>6, <2>2, <2>4, <2>5, <2>6 DEF RowFits
<1>13. ASSUME NEW t \in Tokens PROVE AccessFits(t)'
  <2>1. AccessFits(t) /\ version \in Nat /\ access[t] \subseteq Nat
    BY AuthTyped DEF AuthInv, TypeOK
  <2>2. \A v \in access[t] : v <= version + 1 /\ v # version + 1
    BY <2>1 DEF AccessFits
  <2> QED
    BY <1>6, <2>2 DEF AccessFits
<1>14. OneSuccessorEach'
  BY <1>10 DEF AuthInv, OneSuccessorEach
<1>15. ASSUME NEW g \in Requests, g # h PROVE HandlerFits(run[g])'
  <2>1. PICK p \in Handlers : p = run[g] /\ HandlerFits(p) /\ p.pc \notin Holding
    BY <1>5, <1>15, AuthTyped
  <2>2. version \in Nat /\ p.tv \subseteq Nat
    BY <2>1, AuthTyped DEF Handlers
  <2>3. \A v \in p.tv : v <= version + 1 /\ v # version + 1
    BY <2>1, <2>2 DEF HandlerFits
  <2>4. 1 .. issued \subseteq Tokens
    BY AuthTyped DEF Tokens
  <2>5. HandlerFits(p)'
    BY <1>6, <1>10, <2>1, <2>3, <2>4 DEF HandlerFits, Holding, Presenting
  <2> QED
    BY <1>9, <1>15, <2>1, <2>5 DEF HandlerFits
<1>16. HandlerFits(run[h])'
  <2>1. \A v \in r.tv : v <= version + 1
    <3>1. \A v \in r.tv : v <= version /\ v \in Nat
      BY <1>1, <1>7 DEF HandlerFits, Handlers
    <3> QED
      BY <3>1, AuthTyped
  <2>2. HandlerFits(r)'
    BY <1>6, <1>7, <2>1 DEF HandlerFits, Presenting
  <2> QED
    BY <1>9, <2>2 DEF HandlerFits
<1>17. RoomLeft'
  <2>1. ~Owes(r)
    BY <1>7 DEF Owes, Presenting
  <2>2. Owing' \subseteq Owing
    BY <1>9, <2>1, OwingAfter
  <2> QED
    BY <1>6, <2>2, RoomStays, AuthTyped DEF AuthInv
<1>18. LockHeld'
  BY <1>5, <1>6, <1>7, <1>9, LockMoves DEF AuthInv, Holding
<1>19. TypeOK' /\ \A d \in Devices : (store[d] <= issued)'
  <2>1. tokens' \in [Tokens -> Rows]
    BY <1>6, <1>10
  <2>2. closed' \in [Tokens -> {"no", "LOGOUT", "REUSE"}]
    BY <1>4, <1>6 DEF AuthInv, TypeOK
  <2>3. version' \in Nat
    BY <1>6, AuthTyped
  <2> QED
    BY <1>6, <1>9, <2>1, <2>2, <2>3 DEF AuthInv, TypeOK
<1> QED
  BY <1>12, <1>13, <1>14, <1>15, <1>16, <1>17, <1>18, <1>19 DEF AuthInv

-----------------------------------------------------------------------------
LEMMA AuthStep == AuthInv /\ [Next]_vars => AuthInv'
<1> SUFFICES ASSUME AuthInv, [Next]_vars PROVE AuthInv'
  OBVIOUS
<1>1. ASSUME NEW h \in Requests, Handler(h) \/ Dies(h) PROVE AuthInv'
  BY <1>1, ReadKeeps, RotateBeginKeeps, RotateCommitKeeps, CleanupKeeps, RereadKeeps,
     RecoverBeginKeeps, RecoverCommitKeeps, EverywhereBeginKeeps, RetireCommitKeeps,
     LoginReadsKeeps, LoginInsertsKeeps, GrantKeeps, RefuseKeeps, ThrottleKeeps, DiesKeeps
     DEF Handler
<1>2. ASSUME NEW d \in Devices, Device(d) PROVE AuthInv'
  BY <1>2, SendKeeps, SignInKeeps, AskEverywhereKeeps, LogoutKeeps DEF Device
<1>3. CASE Time
  BY <1>3, GraceEndsKeeps, ExpiresKeeps, MinutePassesKeeps, SessionEndsKeeps, PurgeKeeps DEF Time
<1>4. CASE UNCHANGED vars
  BY <1>4 DEF vars, AuthInv, TypeOK, RoomLeft, Owing, LockHeld, OneSuccessorEach, RowFits,
              AccessFits, HandlerFits, Is, SessionOf, Live
<1> QED
  BY <1>1, <1>2, <1>3, <1>4 DEF Next

LEMMA AuthHolds == Spec => []AuthInv
BY AuthStarts, AuthStep, PTL DEF Spec

(* The rows, the lock, the requests and the devices stay in their domains, and *)
(* no request inserts a row beyond MaxTokens.                                  *)
THEOREM AuthTypeCorrect == Spec => []TypeOK
<1>1. AuthInv => TypeOK
  BY DEF AuthInv
<1> QED
  BY <1>1, AuthHolds, PTL

(* No two requests rotate one token, and a rotated token that can still be     *)
(* presented has a successor of its session (ChainIntact).                     *)
THEOREM ChainStaysIntact == Spec => []ChainIntact
<1>1. AuthInv => ChainIntact
  <2> SUFFICES ASSUME AuthInv, NEW t \in Tokens
               PROVE  /\ \A p \in Tokens \ {t} : tokens[p].next = tokens[t].next => tokens[t].next = 0
                      /\ (Is(t, "ROTATED") \/ Is(t, "RECOVERED")) /\ "expired" \notin tokens[t].marks
                           => /\ tokens[t].next \in 1 .. issued
                              /\ ~Is(tokens[t].next, "deleted")
                              /\ SessionOf(tokens[t].next) = SessionOf(t)
    BY DEF ChainIntact
  <2>1. \A p \in Tokens \ {t} : tokens[p].next = tokens[t].next => tokens[t].next = 0
    BY DEF AuthInv, OneSuccessorEach
  <2>2. ASSUME Is(t, "ROTATED") \/ Is(t, "RECOVERED"), "expired" \notin tokens[t].marks
        PROVE  /\ tokens[t].next \in 1 .. issued
               /\ ~Is(tokens[t].next, "deleted")
               /\ SessionOf(tokens[t].next) = SessionOf(t)
    <3>1. RowFits(t) /\ tokens[t].next \in 1 .. issued
      BY <2>2, AuthTyped DEF RowFits
    <3>2. tokens[t].next \in Tokens
      BY <3>1, AuthTyped DEF Tokens
    <3>3. RowFits(tokens[t].next)
      BY <3>2, AuthTyped
    <3> QED
      BY <2>2, <3>1, <3>3 DEF RowFits
  <2> QED
    BY <2>1, <2>2
<1> QED
  BY <1>1, AuthHolds, PTL

(* Nothing of a retired session works: none of its refresh tokens is live, and *)
(* no access token of its rotations and rescues carries the present version    *)
(* (RetiredIsDead).                                                            *)
THEOREM RetiredStaysDead == Spec => []RetiredIsDead
<1>1. AuthInv => RetiredIsDead
  BY AuthTyped DEF RetiredIsDead, RetiredSessionsAreDead, RetiredAccessIsDead, RowFits, AccessFits, Live
<1> QED
  BY <1>1, AuthHolds, PTL

(* What a step may do to a revoked row. *)
Kept(t) ==
  /\ Revoked(t) => tokens'[t].next = tokens[t].next /\ tokens'[t].state # "live"
  /\ Is(t, "LOGOUT") \/ Is(t, "REUSE") => tokens'[t].state \in {tokens[t].state, "deleted"}

LEMMA RotateCommitFinal ==
  ASSUME AuthInv, NEW h \in Requests, RotateCommit(h), NEW t \in Tokens PROVE Kept(t)
<1>1. PICK p : p = run[h].tok
  OBVIOUS
<1>2. p \in Tokens /\ Is(p, "live") /\ issued + 1 > issued
  BY <1>1, AuthTyped DEF RotateCommit, At, HandlerFits, Presenting, Tokens
<1>3. \A u \in Tokens : u # p /\ u # issued + 1 => tokens'[u] = tokens[u]
  BY <1>1, <1>2 DEF RotateCommit, Rotated, AuthInv, TypeOK
<1>4. CASE t = issued + 1
  BY <1>2, <1>4, AuthTyped DEF RowFits, NoRow, Kept, Revoked, Is
<1>5. CASE t # issued + 1
  BY <1>2, <1>3, <1>5 DEF Kept, Revoked, Is
<1> QED
  BY <1>4, <1>5

LEMMA RecoverCommitFinal ==
  ASSUME AuthInv, NEW h \in Requests, RecoverCommit(h), NEW t \in Tokens PROVE Kept(t)
<1>1. PICK p : p = run[h].tok
  OBVIOUS
<1>2. /\ p \in Tokens /\ p <= issued /\ issued + 1 > issued /\ p # issued + 1
      /\ tokens[p].state \in {"ROTATED", "RECOVERED", "deleted"}
  BY <1>1, AuthTyped DEF RecoverCommit, At, HandlerFits, Presenting, Tokens
<1>3. \A u \in Tokens : u # p /\ u # issued + 1 => tokens'[u] = tokens[u]
  BY <1>1, <1>2 DEF RecoverCommit, Rescued, AuthInv, TypeOK
<1>4. CASE t = issued + 1
  BY <1>2, <1>4, AuthTyped DEF RowFits, NoRow, Kept, Revoked, Is
<1>5. CASE t = p
  <2>1. PICK e : e = IF Is(p, "deleted") THEN "deleted" ELSE "RECOVERED"
    OBVIOUS
  <2>2. PICK n : n = issued + 1
    OBVIOUS
  <2>3. tokens \in [Tokens -> Rows] /\ tokens[p] \in Rows
    BY <1>2 DEF AuthInv, TypeOK
  <2>4. tokens' = [tokens EXCEPT ![p].state = e, ![n] = NewRow(SessionOf(p), "recovery")]
    BY <1>1, <2>1, <2>2 DEF RecoverCommit, Rescued
  <2>5. tokens'[p] = [tokens[p] EXCEPT !.state = e]
    BY <1>2, <2>2, <2>3, <2>4
  <2>6. tokens'[p].next = tokens[p].next /\ tokens'[p].state = e
    BY <2>3, <2>5 DEF Rows
  <2> QED
    BY <1>2, <1>5, <2>1, <2>6 DEF Kept, Revoked, Is
<1>6. CASE t # issued + 1 /\ t # p
  BY <1>3, <1>6 DEF Kept, Revoked, Is
<1> QED
  BY <1>4, <1>5, <1>6

LEMMA LoginInsertsFinal ==
  ASSUME AuthInv, NEW h \in Requests, LoginInserts(h), NEW t \in Tokens PROVE Kept(t)
<1>1. \A u \in Tokens : u # issued + 1 => tokens'[u] = tokens[u]
  BY DEF LoginInserts, AuthInv, TypeOK
<1>2. t = issued + 1 => tokens[t] = NoRow
  BY AuthTyped DEF RowFits
<1> QED
  BY <1>1, <1>2 DEF NoRow, Kept, Revoked, Is

LEMMA RetireCommitFinal ==
  ASSUME AuthInv, NEW h \in Requests, RetireCommit(h), NEW t \in Tokens PROVE Kept(t)
<1>1. PICK e : e = Retired(t, run[h].rows, run[h].cause)
  OBVIOUS
<1>2. tokens[t] \in Rows
  BY AuthTyped
<1>3. tokens'[t] = [tokens[t] EXCEPT !.state = e]
  BY <1>1 DEF RetireCommit
<1>4. tokens'[t].next = tokens[t].next /\ tokens'[t].state = e
  BY <1>2, <1>3 DEF Rows
<1>5. run[h].cause \in {"REUSE", "LOGOUT"}
  BY AuthTyped DEF RetireCommit, At, HandlerFits
<1> QED
  BY <1>1, <1>4, <1>5 DEF Kept, Revoked, Is, Retired

(* A revocation is final, and one reuse raises one alarm (RetirementIsFinal).  *)
THEOREM RevokedOnce == Spec => RetirementIsFinal
<1> DEFINE Final == \A t \in Tokens : Kept(t)
           Once == \A h \in Requests : RetireCommit(h) /\ run[h].cause = "REUSE"
                     => closed[SessionOf(run[h].tok)] = "no"
<1> USE DEF Kept
<1>1. AuthInv => Once
  BY AuthTyped DEF HandlerFits, RetireCommit, At
<1>2. AuthInv /\ Next => Final
  <2> SUFFICES ASSUME AuthInv, Next, NEW t \in Tokens PROVE Kept(t)
    BY DEF Kept
  <2>1. tokens \in [Tokens -> Rows] /\ tokens[t] \in Rows
    BY DEF AuthInv, TypeOK
  <2>2. ASSUME tokens' = tokens PROVE Kept(t)
    BY <2>2 DEF Kept, Revoked, Is
  <2>3. ASSUME NEW h \in Requests, RotateCommit(h) PROVE Kept(t)
    BY <2>3, RotateCommitFinal
  <2>4. ASSUME NEW h \in Requests, RecoverCommit(h) PROVE Kept(t)
    BY <2>4, RecoverCommitFinal
  <2>5. ASSUME NEW h \in Requests, LoginInserts(h) PROVE Kept(t)
    BY <2>5, LoginInsertsFinal
  <2>6. ASSUME NEW h \in Requests, RetireCommit(h) PROVE Kept(t)
    BY <2>6, RetireCommitFinal
  <2>7. ASSUME tokens' = Purged PROVE Kept(t)
    BY <2>1, <2>7 DEF Purged, Rows, Kept, Revoked, Is
  <2>8. ASSUME NEW d \in Devices, Logout(d) PROVE Kept(t)
    BY <2>1, <2>2, <2>8 DEF Logout, LoggedOut, Rows, Kept, Revoked, Is
  <2>9. ASSUME NEW u \in Tokens, GraceEnds(u) \/ Expires(u) \/ MinutePasses(u) PROVE Kept(t)
    BY <2>1, <2>9 DEF GraceEnds, Expires, MinutePasses, Rows, Kept, Revoked, Is
  <2>10. ASSUME NEW h \in Requests, Handler(h) \/ Dies(h) PROVE Kept(t)
    BY <2>2, <2>3, <2>4, <2>5, <2>6, <2>7, <2>10
       DEF Handler, Dies, Read, RotateBegin, Cleanup, Reread, RecoverBegin, EverywhereBegin,
           LoginReads, Grant, Refuse, Throttle
  <2>11. ASSUME NEW d \in Devices, Device(d) PROVE Kept(t)
    BY <2>2, <2>8, <2>11 DEF Device, Send, SignIn, AskEverywhere
  <2>12. CASE Time
    BY <2>2, <2>7, <2>9, <2>12 DEF Time, SessionEnds, Purge
  <2> QED
    BY <2>10, <2>11, <2>12 DEF Next
<1> QED
  BY <1>1, <1>2, AuthHolds, PTL DEF Spec, RetirementIsFinal, RevocationIsFinal, EchoIsHarmless
-----------------------------------------------------------------------------
(* The limit of the account: who rotates has found room under the lock, and  *)
(* nobody else rotates until it commits (LimitHolds).                        *)
Rotations(rows) == {t \in Tokens : "recent" \in rows[t].marks /\ rows[t].via = "rotation"}

LimitHolds ==
  /\ Cardinality(Rotations(tokens)) <= Limit
  /\ \A h \in Requests : run[h].pc = "rotating" => Cardinality(Rotations(tokens)) < Limit

LEMMA RotationsCount ==
  ASSUME NEW rows
  PROVE  IsFiniteSet(Rotations(rows)) /\ Cardinality(Rotations(rows)) \in Nat
<1>1. IsFiniteSet(Tokens)
  BY ConstantsAssumption, FS_Interval DEF Tokens
<1>2. Rotations(rows) \subseteq Tokens
  BY DEF Rotations
<1> QED
  BY <1>1, <1>2, FS_Subset, FS_CardinalityType

LEMMA FewerRotations ==
  ASSUME NEW rows, NEW after, Rotations(after) \subseteq Rotations(rows)
  PROVE  Cardinality(Rotations(after)) <= Cardinality(Rotations(rows))
BY RotationsCount, FS_Subset

(* Nobody finds room but below the limit. *)
LEMMA RoomBelowLimit ==
  ASSUME AuthInv, ~Full PROVE Cardinality(Rotations(tokens)) < Limit
<1>1. IsFiniteSet(Marked("recent"))
  <2>1. IsFiniteSet(Tokens)
    BY ConstantsAssumption, FS_Interval DEF Tokens
  <2>2. Marked("recent") \subseteq Tokens
    BY DEF Marked
  <2> QED
    BY <2>1, <2>2, FS_Subset
<1>2. Rotations(tokens) \subseteq Marked("recent")
  BY DEF Rotations, Marked
<1>3. Cardinality(Rotations(tokens)) <= Cardinality(Marked("recent"))
  BY <1>1, <1>2, FS_Subset
<1>4. Cardinality(Marked("recent")) \in Nat /\ Limit \in Nat
  BY <1>1, FS_CardinalityType, ConstantsAssumption
<1> QED
  BY <1>3, <1>4, RotationsCount DEF Full

(* A step that makes no rotation. *)
NoRotation ==
  /\ Rotations(tokens') \subseteq Rotations(tokens)
  /\ \A h \in Requests : run'[h].pc = "rotating" =>
       run[h].pc = "rotating" \/ Cardinality(Rotations(tokens)) < Limit

LEMMA NoRotationKeeps == ASSUME LimitHolds, NoRotation PROVE LimitHolds'
<1>1. /\ Cardinality(Rotations(tokens')) <= Cardinality(Rotations(tokens))
      /\ Cardinality(Rotations(tokens')) \in Nat /\ Cardinality(Rotations(tokens)) \in Nat
      /\ Limit \in Nat
  BY FewerRotations, RotationsCount, ConstantsAssumption DEF NoRotation
<1> QED
  BY <1>1 DEF LimitHolds, NoRotation

LEMMA RotateCommitLimit ==
  ASSUME AuthInv, LimitHolds, NEW h \in Requests, RotateCommit(h) PROVE LimitHolds'
<1>1. PICK p : p = run[h].tok
  OBVIOUS
<1>2. PICK n : n = issued + 1
  OBVIOUS
<1>3. /\ p \in Tokens /\ p # n /\ run[h].pc = "rotating" /\ issued \in Nat
      /\ tokens \in [Tokens -> Rows] /\ tokens[p] \in Rows
  BY <1>1, <1>2, AuthTyped DEF RotateCommit, At, HandlerFits, Presenting, Tokens, AuthInv, TypeOK
<1>4. tokens' = [tokens EXCEPT ![p].state = "ROTATED", ![p].next = n,
                               ![n] = NewRow(SessionOf(p), "rotation")]
  BY <1>1, <1>2 DEF RotateCommit, Rotated
<1>5. /\ tokens'[p] = [tokens[p] EXCEPT !.state = "ROTATED", !.next = n]
      /\ \A t \in Tokens : t # p /\ t # n => tokens'[t] = tokens[t]
  BY <1>3, <1>4
<1>6. tokens'[p].marks = tokens[p].marks /\ tokens'[p].via = tokens[p].via
  BY <1>3, <1>5 DEF Rows
<1>7. \A t \in Tokens : t # n => tokens'[t].marks = tokens[t].marks /\ tokens'[t].via = tokens[t].via
  BY <1>5, <1>6
<1>8. Rotations(tokens') \subseteq Rotations(tokens) \union {n}
  BY <1>7 DEF Rotations
<1>9. Cardinality(Rotations(tokens')) <= Cardinality(Rotations(tokens)) + 1
  <2>1. /\ IsFiniteSet(Rotations(tokens) \union {n})
        /\ Cardinality(Rotations(tokens) \union {n}) <= Cardinality(Rotations(tokens)) + 1
    <3>1. IsFiniteSet(Rotations(tokens)) /\ Cardinality(Rotations(tokens)) \in Nat
      BY RotationsCount
    <3>2. /\ IsFiniteSet(Rotations(tokens) \union {n})
          /\ \/ Cardinality(Rotations(tokens) \union {n}) = Cardinality(Rotations(tokens))
             \/ Cardinality(Rotations(tokens) \union {n}) = Cardinality(Rotations(tokens)) + 1
      BY <3>1, FS_AddElement
    <3> QED
      BY <3>1, <3>2
  <2>2. Cardinality(Rotations(tokens')) <= Cardinality(Rotations(tokens) \union {n})
    BY <1>8, <2>1, FS_Subset
  <2>3. Cardinality(Rotations(tokens) \union {n}) \in Nat
    BY <2>1, FS_CardinalityType
  <2> QED
    BY <2>1, <2>2, <2>3, RotationsCount
<1>10. Cardinality(Rotations(tokens)) < Limit
  BY <1>3 DEF LimitHolds
<1>11. Cardinality(Rotations(tokens')) <= Limit
  BY <1>9, <1>10, RotationsCount, ConstantsAssumption
<1>12. ASSUME NEW g \in Requests PROVE run'[g].pc # "rotating"
  <2>1. CASE g = h
    BY <2>1 DEF RotateCommit, AuthInv, TypeOK, Handlers
  <2>2. CASE g # h
    <3>1. run[g].pc \notin Holding
      BY <1>3, <2>2 DEF AuthInv, LockHeld, Holding
    <3> QED
      BY <2>2, <3>1 DEF RotateCommit, AuthInv, TypeOK, Holding
  <2> QED
    BY <2>1, <2>2
<1> QED
  BY <1>11, <1>12 DEF LimitHolds

LEMMA InsertsNoRotation ==
  ASSUME AuthInv, NEW h \in Requests, RecoverCommit(h) \/ LoginInserts(h)
  PROVE  Rotations(tokens') \subseteq Rotations(tokens)
<1>1. tokens \in [Tokens -> Rows]
  BY DEF AuthInv, TypeOK
<1>2. CASE LoginInserts(h)
  <2>1. PICK n : n = issued + 1
    OBVIOUS
  <2>2. tokens' = [tokens EXCEPT ![n] = NewRow(n, "login")]
    BY <1>2, <2>1 DEF LoginInserts
  <2>3. \A t \in Tokens : tokens'[t] = tokens[t] \/ tokens'[t].via = "login"
    BY <1>1, <2>2 DEF NewRow
  <2> QED
    BY <2>3 DEF Rotations
<1>3. CASE RecoverCommit(h)
  <2>1. PICK n : n = issued + 1
    OBVIOUS
  <2>2. PICK p : p = run[h].tok
    OBVIOUS
  <2>3. PICK e : e = IF Is(p, "deleted") THEN "deleted" ELSE "RECOVERED"
    OBVIOUS
  <2>4. tokens' = [tokens EXCEPT ![p].state = e, ![n] = NewRow(SessionOf(p), "recovery")]
    BY <1>3, <2>1, <2>2, <2>3 DEF RecoverCommit, Rescued
  <2>5. PICK w : w = NewRow(SessionOf(p), "recovery")
    OBVIOUS
  <2>6. w.via = "recovery"
    BY <2>5 DEF NewRow
  <2>7. \A t \in Tokens : \/ tokens'[t] = w
                          \/ tokens'[t] = [tokens[t] EXCEPT !.state = e]
                          \/ tokens'[t] = tokens[t]
    BY <1>1, <2>4, <2>5
  <2>8. \A t \in Tokens : [tokens[t] EXCEPT !.state = e].marks = tokens[t].marks
                          /\ [tokens[t] EXCEPT !.state = e].via = tokens[t].via
    BY <1>1 DEF Rows
  <2> QED
    BY <2>6, <2>7, <2>8 DEF Rotations
<1> QED
  BY <1>2, <1>3

(* The rows only grow older, or have another state. *)
LEMMA OtherWritesNoRotation ==
  ASSUME AuthInv,
         \/ tokens' = tokens
         \/ tokens' = Purged
         \/ \E h \in Requests : RetireCommit(h)
         \/ \E d \in Devices : Logout(d)
         \/ \E t \in Tokens : GraceEnds(t) \/ Expires(t) \/ MinutePasses(t)
  PROVE  Rotations(tokens') \subseteq Rotations(tokens)
<1>1. tokens \in [Tokens -> Rows]
  BY DEF AuthInv, TypeOK
<1>2. CASE tokens' = tokens
  BY <1>2
<1>3. CASE tokens' = Purged
  BY <1>1, <1>3 DEF Purged, Rows, Rotations
<1>4. ASSUME NEW h \in Requests, RetireCommit(h) PROVE Rotations(tokens') \subseteq Rotations(tokens)
  BY <1>1, <1>4 DEF RetireCommit, Rows, Rotations
<1>5. ASSUME NEW d \in Devices, Logout(d) PROVE Rotations(tokens') \subseteq Rotations(tokens)
  BY <1>1, <1>5 DEF Logout, Rows, Rotations
<1>6. ASSUME NEW t \in Tokens, GraceEnds(t) \/ Expires(t) \/ MinutePasses(t)
      PROVE  Rotations(tokens') \subseteq Rotations(tokens)
  BY <1>1, <1>6 DEF GraceEnds, Expires, MinutePasses, Rows, Rotations
<1> QED
  BY <1>2, <1>3, <1>4, <1>5, <1>6

(* Who begins to rotate has found room. *)
LEMMA RotatorsFoundRoom ==
  ASSUME AuthInv, [Next]_vars, NEW h \in Requests, run'[h].pc = "rotating",
         run[h].pc # "rotating"
  PROVE  Cardinality(Rotations(tokens)) < Limit
<1>1. run \in [Requests -> Handlers] /\ run[h] \in Handlers
  BY DEF AuthInv, TypeOK
<1>2. run' # run
  OBVIOUS
<1>3. Blank.pc = "idle" /\ Blank \in Handlers
  BY BlankFits DEF Blank
<1>4. CASE ~Full
  BY <1>4, RoomBelowLimit
<1>5. CASE Full
  <2>1. ASSUME NEW g \in Requests, Handler(g) PROVE FALSE
    BY <1>1, <1>3, <1>5, <2>1
       DEF Handler, Read, RotateBegin, NotRotated, RotateCommit, Cleanup, Reread, RecoverBegin,
           RecoverCommit, EverywhereBegin, RetireCommit, LoginReads, LoginInserts, Grant, Refuse,
           Throttle, Handlers
  <2>2. ASSUME NEW g \in Requests, Dies(g) PROVE FALSE
    BY <1>1, <1>3, <2>2 DEF Dies
  <2>3. ASSUME NEW d \in Devices, Device(d) PROVE FALSE
    <3>1. ASSUME NEW g \in Requests, Send(g, d) PROVE FALSE
      BY <1>1, <1>3, <3>1 DEF Send, Blank
    <3>2. ASSUME NEW g \in Requests, SignIn(g, d) PROVE FALSE
      BY <1>1, <1>3, <3>2 DEF SignIn, Blank
    <3>3. ASSUME NEW g \in Requests, AskEverywhere(g, d) PROVE FALSE
      BY <1>1, <1>3, <3>3 DEF AskEverywhere, Blank
    <3> QED
      BY <1>2, <2>3, <3>1, <3>2, <3>3 DEF Device, Logout
  <2>4. ~Time /\ ~UNCHANGED vars
    BY <1>2 DEF Time, GraceEnds, Expires, MinutePasses, SessionEnds, Purge, vars
  <2> QED
    BY <2>1, <2>2, <2>3, <2>4 DEF Next
<1> QED
  BY <1>4, <1>5

LEMMA LimitStep == ASSUME AuthInv, LimitHolds, [Next]_vars PROVE LimitHolds'
<1>1. CASE \E h \in Requests : RotateCommit(h)
  BY <1>1, RotateCommitLimit
<1>2. CASE ~\E h \in Requests : RotateCommit(h)
  <2>1. ASSUME NEW h \in Requests, Handler(h) \/ Dies(h)
        PROVE  Rotations(tokens') \subseteq Rotations(tokens)
    <3>1. CASE RecoverCommit(h) \/ LoginInserts(h)
      BY <3>1, InsertsNoRotation
    <3>2. CASE ~(RecoverCommit(h) \/ LoginInserts(h))
      BY <1>2, <2>1, <3>2, OtherWritesNoRotation
         DEF Handler, Dies, Read, RotateBegin, Cleanup, Reread, RecoverBegin, EverywhereBegin,
             LoginReads, Grant, Refuse, Throttle
    <3> QED
      BY <3>1, <3>2
  <2>2. ASSUME NEW d \in Devices, Device(d) PROVE Rotations(tokens') \subseteq Rotations(tokens)
    BY <2>2, OtherWritesNoRotation DEF Device, Send, SignIn, AskEverywhere
  <2>3. ASSUME Time PROVE Rotations(tokens') \subseteq Rotations(tokens)
    BY <2>3, OtherWritesNoRotation DEF Time, SessionEnds, Purge
  <2>4. ASSUME UNCHANGED vars PROVE Rotations(tokens') \subseteq Rotations(tokens)
    BY <2>4, OtherWritesNoRotation DEF vars
  <2>5. Rotations(tokens') \subseteq Rotations(tokens)
    BY <2>1, <2>2, <2>3, <2>4 DEF Next
  <2>6. NoRotation
    BY <2>5, RotatorsFoundRoom DEF NoRotation
  <2> QED
    BY <2>6, NoRotationKeeps
<1> QED
  BY <1>1, <1>2

LEMMA LimitStarts == ASSUME Init PROVE LimitHolds
<1>1. Rotations(tokens) = {}
  BY DEF Init, Rotations, NoRow
<1>2. \A h \in Requests : run[h].pc # "rotating"
  BY DEF Init, Blank
<1>3. Cardinality(Rotations(tokens)) = 0 /\ Limit \in Nat
  BY <1>1, FS_EmptySet, ConstantsAssumption
<1> QED
  BY <1>2, <1>3 DEF LimitHolds

(* However many requests race, the rotations of a minute stay within the limit  *)
(* of the account: it is counted and used under one lock                        *)
(* (rotateRefreshToken, RotationsWithinLimit).                                  *)
THEOREM RotationsAreLimited == Spec => []RotationsWithinLimit
<1>1. Init => LimitHolds
  BY LimitStarts
<1>2. AuthInv /\ LimitHolds /\ [Next]_vars => LimitHolds'
  BY LimitStep
<1>3. LimitHolds => RotationsWithinLimit
  <2>1. Rotations(tokens) = {t \in Marked("recent") : tokens[t].via = "rotation"}
    BY DEF Rotations, Marked
  <2> QED
    BY <2>1 DEF LimitHolds, RotationsWithinLimit
<1> QED
  BY <1>1, <1>2, <1>3, AuthHolds, PTL DEF Spec

-----------------------------------------------------------------------------
(***************************************************************************)
(* Patient devices (StoredTokenWorks).  A device touches the tokens in its *)
(* keychain and in its requests.  A patient one presents one token at a    *)
(* time, its oldest (Patience): so the successor of a token it touches is  *)
(* never rotated before the device has moved on to it, and never looks     *)
(* like the fork of a chain.  No two devices touch tokens of one session   *)
(* (Apart), and whatever is touched gets a pair, is purged, or belongs to  *)
(* sessions their user has closed (AllGood).                               *)
(***************************************************************************)
Touches(q, st, d, n) ==
  /\ n # 0
  /\ \/ st[d] = n
     \/ \E h \in Requests : q[h].dev = d /\ n \in {q[h].tok, q[h].new}

Serves(r, st) ==
  /\ r.pc = "idle" => r.dev = NoDevice /\ r.tok = 0 /\ r.new = 0
  /\ r.pc # "idle" => r.dev \in Devices
  /\ r.pc = "login" => r.tok = 0 /\ st[r.dev] = 0
  /\ r.pc \notin {"idle", "login"} => r.tok # 0

OneAtATime(q) ==
  \A g, h \in Requests : g # h /\ q[g].dev = q[h].dev /\ q[g].pc # "idle"
    => q[g].pc # "login" /\ q[g].tok = q[h].tok

InOrder(q, st) ==
  \A h \in Requests : \A n : q[h].pc # "idle" /\ Touches(q, st, q[h].dev, n) => q[h].tok <= n

Issued(q, st, last) == \A d \in Devices : \A n : Touches(q, st, d, n) => n \in 1 .. last

Patience(q, st, last) ==
  /\ \A h \in Requests : Serves(q[h], st)
  /\ OneAtATime(q) /\ InOrder(q, st) /\ Issued(q, st, last)

Good(rows, shut, n) ==
  \/ shut[rows[n].session] = "LOGOUT"
  \/ rows[n].state \in {"live", "deleted"}
  \/ /\ rows[n].state \in {"ROTATED", "RECOVERED"}
     /\ rows[n].next # 0 /\ rows[rows[n].next].state = "live"

AllGood == \A d \in Devices : \A n : Touches(run, store, d, n) => Good(tokens, closed, n)

Apart ==
  \A d, e \in Devices : \A n, m :
    d # e /\ Touches(run, store, d, n) /\ Touches(run, store, e, m)
      => tokens[n].session # tokens[m].session

NextLater == \A t \in Tokens : tokens[t].next # 0 => t < tokens[t].next

(* Who retires has seen every successor that lives, and no reuse.            *)
Sees(r) ==
  r.pc = "retiring" =>
    /\ r.cause = "LOGOUT"
    /\ \A t \in Tokens : tokens[t].next # 0 /\ tokens[tokens[t].next].state = "live"
                           => tokens[t].next \in r.rows

PatientInv ==
  /\ Patience(run, store, issued)
  /\ AllGood /\ Apart /\ NextLater
  /\ \A h \in Requests : Sees(run[h])

NoNewTouch ==
  \A d \in Devices : \A n : Touches(run', store', d, n) => Touches(run, store, d, n)

-----------------------------------------------------------------------------
(* What the steps do to requests and keychains.                              *)
OnlyMoves(h) == \A g \in Requests : g # h => run'[g] = run[g]

LEMMA GoesOn ==
  ASSUME AuthInv, Patience(run, store, issued), NEW h \in Requests, NEW r,
         run'[h] = r, OnlyMoves(h), UNCHANGED <<store, issued>>,
         run[h].pc # "idle", r.pc # "idle", r.pc = "login" <=> run[h].pc = "login",
         r.dev = run[h].dev, r.tok = run[h].tok, r.new = run[h].new
  PROVE  Patience(run', store', issued') /\ NoNewTouch
<1>1. run'[h] = r /\ \A g \in Requests : g # h => run'[g] = run[g]
  BY DEF OnlyMoves
<1>2. \A d, n : Touches(run', store', d, n) <=> Touches(run, store, d, n)
  BY <1>1 DEF Touches
<1>3. \A g \in Requests : /\ run'[g].dev = run[g].dev /\ run'[g].tok = run[g].tok
                          /\ run'[g].new = run[g].new
                          /\ (run'[g].pc = "idle" <=> run[g].pc = "idle")
                          /\ (run'[g].pc = "login" <=> run[g].pc = "login")
  BY <1>1
<1>4. \A g \in Requests : Serves(run'[g], store')
  BY <1>3 DEF Patience, Serves
<1>5. OneAtATime(run')
  BY <1>3 DEF Patience, OneAtATime
<1>6. InOrder(run', store')
  BY <1>2, <1>3 DEF Patience, InOrder
<1>7. Issued(run', store', issued')
  BY <1>2 DEF Patience, Issued
<1> QED
  BY <1>2, <1>4, <1>5, <1>6, <1>7 DEF Patience, NoNewTouch

LEMMA Leaves ==
  ASSUME AuthInv, Patience(run, store, issued), NEW h \in Requests,
         run' = [run EXCEPT ![h] = Blank], issued' = issued, run[h].pc # "idle",
         \/ store' = store
         \/ store' = [store EXCEPT ![run[h].dev] = 0]
         \/ store' = [store EXCEPT ![run[h].dev] = run[h].new]
  PROVE  Patience(run', store', issued') /\ NoNewTouch
<1>1. run'[h] = Blank /\ \A g \in Requests : g # h => run'[g] = run[g]
  BY RunMoves, BlankFits DEF AuthInv
<1>2. Blank.pc = "idle" /\ Blank.dev = NoDevice /\ Blank.tok = 0 /\ Blank.new = 0
  BY DEF Blank
<1>3. run[h].dev \in Devices /\ NoDevice \notin Devices /\ store \in [Devices -> 0 .. MaxTokens]
  BY ConstantsAssumption DEF Patience, Serves, AuthInv, TypeOK
<1> HIDE DEF Blank
<1>4. \A e \in Devices : \/ store'[e] = store[e] \/ store'[e] = 0
                         \/ e = run[h].dev /\ store'[e] = run[h].new
  BY <1>3
<1>5. \A e \in Devices : \A n : Touches(run', store', e, n) => Touches(run, store, e, n)
  BY <1>1, <1>2, <1>3, <1>4 DEF Touches
<1>6. ASSUME NEW g \in Requests PROVE Serves(run'[g], store')
  <2>1. CASE g = h
    BY <1>1, <1>2, <2>1 DEF Serves
  <2>2. CASE g # h
    <3>1. run'[g] = run[g] /\ Serves(run[g], store)
      BY <1>1, <2>2 DEF Patience
    <3>2. run[g].pc = "login" => run[g].dev # run[h].dev
      BY <2>2 DEF Patience, OneAtATime
    <3>3. run[g].pc = "login" => store'[run[g].dev] = store[run[g].dev]
      BY <1>3, <3>1, <3>2 DEF Serves
    <3> QED
      BY <3>1, <3>3 DEF Serves
  <2> QED
    BY <2>1, <2>2
<1>7. OneAtATime(run')
  <2>1. \A g \in Requests : run'[g].pc # "idle" =>
          g # h /\ run'[g] = run[g] /\ run[g].dev # NoDevice
    BY <1>1, <1>2, <1>3 DEF Patience, Serves
  <2>2. ASSUME NEW f \in Requests, NEW g \in Requests, f # g, run'[f].dev = run'[g].dev,
               run'[f].pc # "idle"
        PROVE  run'[f].pc # "login" /\ run'[f].tok = run'[g].tok
    <3>1. f # h /\ run'[f] = run[f] /\ run[f].dev # NoDevice
      BY <2>1, <2>2
    <3>2. g # h /\ run'[g] = run[g]
      BY <1>1, <1>2, <2>2, <3>1
    <3> QED
      BY <2>2, <3>1, <3>2 DEF Patience, OneAtATime
  <2> QED
    BY <2>2 DEF OneAtATime
<1>9. Issued(run', store', issued')
  BY <1>5 DEF Patience, Issued
<1>8. InOrder(run', store')
  <2>1. \A g \in Requests : run'[g].pc # "idle" => g # h /\ run'[g] = run[g] /\ run[g].dev \in Devices
    BY <1>1, <1>2 DEF Patience, Serves
  <2> QED
    BY <1>5, <2>1 DEF Patience, InOrder
<1> QED
  BY <1>5, <1>6, <1>7, <1>8, <1>9 DEF Patience, NoNewTouch

LEMMA Arrives ==
  ASSUME AuthInv, Patience(run, store, issued), NEW h \in Requests, NEW d \in Devices,
         NEW r, run'[h] = r, OnlyMoves(h), UNCHANGED <<store, issued>>,
         run[h].pc = "idle", r.pc \notin {"idle", "login"}, r.dev = d, r.new = 0,
         r.tok = store[d], store[d] # 0,
         \A g \in Requests : run[g].pc # "idle" /\ run[g].dev = d => run[g].tok = store[d]
  PROVE  Patience(run', store', issued') /\ NoNewTouch
<1>1. run'[h] = r /\ \A g \in Requests : g # h => run'[g] = run[g]
  BY DEF OnlyMoves
<1>2. \A e \in Devices : \A n : Touches(run', store', e, n) => Touches(run, store, e, n)
  BY <1>1 DEF Touches
<1>3. \A g \in Requests : Serves(run'[g], store')
  BY <1>1 DEF Patience, Serves
<1>4. \A g \in Requests : run[g].pc = "login" => run[g].dev # d
  BY DEF Patience, Serves
<1>5. NoDevice \notin Devices /\ \A g \in Requests : run[g].dev = d => run[g].pc # "idle"
  BY ConstantsAssumption DEF Patience, Serves
<1>6. OneAtATime(run')
  BY <1>1, <1>4, <1>5 DEF Patience, OneAtATime
<1>7. Issued(run', store', issued')
  BY <1>2 DEF Patience, Issued
<1>8. ASSUME NEW g \in Requests, NEW n, run'[g].pc # "idle", Touches(run', store', run'[g].dev, n)
      PROVE  run'[g].tok <= n
  <2>1. run'[g].dev \in Devices
    BY <1>3, <1>8 DEF Serves
  <2>2. Touches(run, store, run'[g].dev, n)
    BY <1>2, <1>8, <2>1
  <2>3. CASE g # h
    BY <1>1, <1>8, <2>2, <2>3 DEF Patience, InOrder
  <2>4. CASE g = h
    <3>1. run'[g].dev = d /\ run'[g].tok = store[d] /\ store[d] \in Nat
      BY <1>1, <2>4, AuthTyped
    <3>2. CASE store[d] = n
      BY <3>1, <3>2
    <3>3. ASSUME NEW f \in Requests, run[f].dev = d, n \in {run[f].tok, run[f].new} PROVE store[d] <= n
      <4>1. run[f].pc # "idle" /\ run[f].tok = store[d]
        BY <1>5, <3>3
      <4>2. Touches(run, store, run[f].dev, n)
        BY <2>2, <3>1, <3>3
      <4> QED
        BY <4>1, <4>2 DEF Patience, InOrder
    <3> QED
      BY <2>2, <3>1, <3>2, <3>3 DEF Touches
  <2> QED
    BY <2>3, <2>4
<1>9. InOrder(run', store')
  BY <1>8 DEF InOrder
<1> QED
  BY <1>2, <1>3, <1>6, <1>7, <1>9 DEF Patience, NoNewTouch

LEMMA SignsIn ==
  ASSUME AuthInv, Patience(run, store, issued), NEW h \in Requests, NEW d \in Devices,
         NEW r, run'[h] = r, OnlyMoves(h), UNCHANGED <<store, issued>>,
         run[h].pc = "idle", r.pc = "login", r.dev = d, r.new = 0, r.tok = 0, store[d] = 0,
         \A g \in Requests : run[g].dev = d => run[g].pc = "idle"
  PROVE  Patience(run', store', issued') /\ NoNewTouch
<1>1. run'[h] = r /\ \A g \in Requests : g # h => run'[g] = run[g]
  BY DEF OnlyMoves
<1>2. \A e \in Devices : \A n : Touches(run', store', e, n) => Touches(run, store, e, n)
  BY <1>1 DEF Touches
<1>3. \A g \in Requests : Serves(run'[g], store')
  BY <1>1 DEF Patience, Serves
<1>4. NoDevice \notin Devices /\ \A g \in Requests : run[g].dev # d
  BY ConstantsAssumption DEF Patience, Serves
<1>5. OneAtATime(run')
  BY <1>1, <1>4 DEF Patience, OneAtATime
<1>6. Issued(run', store', issued')
  BY <1>2 DEF Patience, Issued
<1>7. InOrder(run', store')
  <2>1. \A g \in Requests : run'[g].pc # "idle" => run'[g].dev \in Devices
    BY <1>3 DEF Serves
  <2>2. \A n : Touches(run, store, d, n) => n \in 1 .. issued
    BY DEF Patience, Issued
  <2>3. \A n : Touches(run', store', d, n) => 0 <= n
    BY <1>2, <2>2, AuthTyped
  <2> QED
    BY <1>1, <1>2, <2>1, <2>3 DEF Patience, InOrder
<1> QED
  BY <1>2, <1>3, <1>5, <1>6, <1>7 DEF Patience, NoNewTouch

LEMMA Stores ==
  ASSUME AuthInv, Patience(run, store, issued), NEW h \in Requests, NEW r,
         run'[h] = r, OnlyMoves(h), UNCHANGED store, issued' = issued + 1,
         run[h].pc # "idle", r.pc # "idle", r.pc = "login" <=> run[h].pc = "login",
         r.dev = run[h].dev, r.tok = run[h].tok, r.new = issued + 1
  PROVE  /\ Patience(run', store', issued')
         /\ \A d \in Devices : \A n : Touches(run', store', d, n) =>
              Touches(run, store, d, n) \/ (d = run[h].dev /\ n = issued + 1)
<1>1. run'[h] = r /\ \A g \in Requests : g # h => run'[g] = run[g]
  BY DEF OnlyMoves
<1>2. \A d \in Devices : \A n : Touches(run', store', d, n) =>
        Touches(run, store, d, n) \/ (d = run[h].dev /\ n = issued + 1)
  BY <1>1 DEF Touches
<1>3. \A g \in Requests : /\ run'[g].dev = run[g].dev /\ run'[g].tok = run[g].tok
                          /\ (run'[g].pc = "idle" <=> run[g].pc = "idle")
                          /\ (run'[g].pc = "login" <=> run[g].pc = "login")
  BY <1>1
<1>4. \A g \in Requests : Serves(run'[g], store')
  <2>1. \A g \in Requests : run'[g].pc = "idle" => run'[g].new = run[g].new
    BY <1>1
  <2> QED
    BY <1>3, <2>1 DEF Patience, Serves
<1>5. issued \in Nat /\ \A g \in Requests : run[g].tok \in Nat
  BY AuthTyped DEF Handlers
<1>6. OneAtATime(run')
  BY <1>3 DEF Patience, OneAtATime
<1>9. Issued(run', store', issued')
  <2>1. 1 <= issued + 1 /\ \A n : n \in 1 .. issued => n \in 1 .. issued + 1
    BY <1>5
  <2> QED
    BY <1>2, <1>5, <2>1 DEF Patience, Issued
<1>7. ASSUME NEW g \in Requests, NEW n, run'[g].pc # "idle", Touches(run', store', run'[g].dev, n)
      PROVE  run'[g].tok <= n
  <2>1. run[g].dev \in Devices /\ run[g].pc # "idle"
    BY <1>3, <1>7 DEF Patience, Serves
  <2>2. CASE Touches(run, store, run[g].dev, n)
    BY <1>3, <2>1, <2>2 DEF Patience, InOrder
  <2>3. CASE n = issued + 1
    <3>1. run[g].tok # 0 => Touches(run, store, run[g].dev, run[g].tok)
      BY DEF Touches
    <3>2. run[g].tok <= issued
      BY <1>5, <2>1, <3>1 DEF Patience, Issued
    <3> QED
      BY <1>3, <1>5, <2>3, <3>2
  <2> QED
    BY <1>2, <1>3, <1>7, <2>1, <2>2, <2>3
<1>8. InOrder(run', store')
  BY <1>7 DEF InOrder
<1> QED
  BY <1>2, <1>4, <1>6, <1>8, <1>9 DEF Patience

LEMMA Forgets ==
  ASSUME AuthInv, Patience(run, store, issued), UNCHANGED <<run, issued>>,
         store' = store \/ \E d \in Devices : store' = [store EXCEPT ![d] = 0]
  PROVE  Patience(run', store', issued') /\ NoNewTouch
<1>1. \A e \in Devices : store'[e] = store[e] \/ store'[e] = 0
  BY DEF AuthInv, TypeOK
<1>2. \A e \in Devices : \A n : Touches(run', store', e, n) => Touches(run, store, e, n)
  BY <1>1 DEF Touches
<1>3. \A g \in Requests : Serves(run'[g], store')
  BY <1>1 DEF Patience, Serves
<1>4. OneAtATime(run') /\ Issued(run', store', issued')
  BY <1>2 DEF Patience, OneAtATime, Issued
<1>5. InOrder(run', store')
  BY <1>2 DEF Patience, InOrder, Serves
<1> QED
  BY <1>2, <1>3, <1>4, <1>5 DEF Patience, NoNewTouch

-----------------------------------------------------------------------------
(* What the steps do to the tokens that are touched.                          *)
LEMMA Touched ==
  ASSUME AuthInv, Patience(run, store, issued), NEW d \in Devices, NEW n, Touches(run, store, d, n)
  PROVE  n \in Tokens /\ n \in 1 .. issued /\ tokens[n] \in Rows /\ RowFits(n)
<1>1. n \in 1 .. issued /\ n \in Tokens
  BY AuthTyped DEF Patience, Issued, Tokens
<1> QED
  BY <1>1, AuthTyped

(* A successor is a row, of the session of the token before it.                *)
LEMMA NextRow ==
  ASSUME AuthInv, NEW t \in Tokens, tokens[t].next # 0
  PROVE  tokens[t].next \in Tokens /\ tokens[t].next \in 1 .. issued
         /\ tokens[tokens[t].next].session = tokens[t].session
BY AuthTyped DEF RowFits, Tokens, SessionOf

(* A row may grow older, or be deleted, but not before the one it succeeds.    *)
Ageing(t) ==
  /\ tokens'[t].next = tokens[t].next /\ tokens'[t].session = tokens[t].session
  /\ tokens'[t].state \in {tokens[t].state, "deleted"}
  /\ tokens[t].next # 0 /\ tokens[tokens[t].next].state = "live"
       => tokens'[tokens[t].next].state = "live" \/ tokens'[t].state = "deleted"

LEMMA RowsAge ==
  ASSUME AuthInv, PatientInv, NoNewTouch, closed' = closed, \A t \in Tokens : Ageing(t)
  PROVE  AllGood' /\ Apart' /\ NextLater'
<1>1. \A d \in Devices : \A n : Touches(run', store', d, n) =>
        Touches(run, store, d, n) /\ n \in Tokens /\ tokens'[n].session = tokens[n].session
  BY Touched DEF PatientInv, NoNewTouch, Ageing
<1>2. Apart'
  <2> SUFFICES ASSUME NEW d \in Devices, NEW e \in Devices, NEW n, NEW m, d # e,
                      Touches(run', store', d, n), Touches(run', store', e, m)
               PROVE  tokens'[n].session # tokens'[m].session
    BY DEF Apart
  <2>1. /\ Touches(run, store, d, n) /\ Touches(run, store, e, m)
        /\ tokens'[n].session = tokens[n].session /\ tokens'[m].session = tokens[m].session
    BY <1>1
  <2> QED
    BY <2>1 DEF PatientInv, Apart
<1>3. NextLater'
  BY DEF PatientInv, NextLater, Ageing
<1>4. ASSUME NEW d \in Devices, NEW n, Touches(run', store', d, n) PROVE Good(tokens', closed', n)
  <2>1. n \in Tokens /\ Good(tokens, closed, n) /\ Ageing(n)
    BY <1>1, <1>4 DEF PatientInv, AllGood
  <2> QED
    BY <2>1 DEF Good, Ageing
<1> QED
  BY <1>2, <1>3, <1>4 DEF AllGood

LEMMA RowsStay ==
  ASSUME AuthInv, PatientInv, NoNewTouch, UNCHANGED <<tokens, closed>>
  PROVE  AllGood' /\ Apart' /\ NextLater'
<1>1. \A t \in Tokens : Ageing(t)
  BY DEF Ageing
<1> QED
  BY <1>1, RowsAge

(* A logout of d, with no request of d in flight.                             *)
LEMMA RowsLogout ==
  ASSUME AuthInv, PatientInv, NEW d \in Devices, store[d] # 0,
         \A h \in Requests : run[h].dev # d, run' = run, closed' = closed,
         store' = [store EXCEPT ![d] = 0],
         \A t \in Tokens : /\ tokens'[t].next = tokens[t].next
                           /\ tokens'[t].session = tokens[t].session
                           /\ t # store[d] => tokens'[t].state = tokens[t].state
  PROVE  AllGood' /\ Apart' /\ NextLater'
<1> DEFINE t == store[d]
<1>1. store \in [Devices -> 0 .. MaxTokens]
  BY DEF AuthInv, TypeOK
<1>2. \A e \in Devices : \A n : Touches(run', store', e, n) => e # d /\ Touches(run, store, e, n)
  BY <1>1 DEF Touches
<1>3. Touches(run, store, d, t)
  BY DEF Touches
<1>4. \A e \in Devices : \A n : Touches(run', store', e, n) =>
        Touches(run, store, e, n) /\ n \in Tokens /\ tokens'[n].session = tokens[n].session
  BY <1>2, Touched DEF PatientInv
<1>5. Apart'
  BY <1>4 DEF PatientInv, Apart
<1>6. NextLater'
  BY DEF PatientInv, NextLater
<1>7. ASSUME NEW e \in Devices, NEW n, Touches(run', store', e, n)
      PROVE  Good(tokens', closed', n)
  <2>1. n \in Tokens /\ Good(tokens, closed, n) /\ tokens[n].session # tokens[t].session
    <3>1. e # d /\ Touches(run, store, e, n) /\ n \in Tokens
      BY <1>2, <1>4, <1>7
    <3>2. Good(tokens, closed, n)
      BY <3>1 DEF PatientInv, AllGood
    <3>3. tokens[n].session # tokens[t].session
      BY <1>3, <3>1 DEF PatientInv, Apart
    <3> QED
      BY <3>1, <3>2, <3>3
  <2>2. tokens[n].next # 0 => tokens[n].next \in Tokens /\ tokens[n].next # t
    BY <2>1, NextRow
  <2>3. n # t
    BY <2>1
  <2> HIDE DEF t
  <2>4. tokens'[n].next = tokens[n].next /\ tokens'[n].session = tokens[n].session
        /\ tokens'[n].state = tokens[n].state
    BY <2>1, <2>3 DEF t
  <2>5. tokens[n].next # 0 => tokens'[tokens[n].next].state = tokens[tokens[n].next].state
    BY <2>2 DEF t
  <2> QED
    BY <2>1, <2>4, <2>5 DEF Good
<1> QED
  BY <1>5, <1>6, <1>7 DEF AllGood

(* d gets the new row n, of the session of a token it touches or of a new one.  *)
NewTouch(d, n) ==
  \A e \in Devices : \A m : Touches(run', store', e, m) =>
    Touches(run, store, e, m) \/ (e = d /\ m = n)

LEMMA RowsGrow ==
  ASSUME AuthInv, PatientInv, NEW d \in Devices, NEW n \in Tokens, n = issued + 1,
         NewTouch(d, n), closed' = closed,
         \A t \in Tokens : t # n => tokens'[t].session = tokens[t].session,
         \A t \in Tokens : t # n => \/ tokens'[t].next = tokens[t].next
                                    \/ tokens'[t].next = n /\ t <= issued,
         tokens'[n].next = 0, tokens'[n].state = "live",
         \/ tokens'[n].session = n
         \/ \E p : Touches(run, store, d, p) /\ tokens'[n].session = tokens[p].session,
         \A e \in Devices : \A m : Touches(run, store, e, m) => Good(tokens', closed', m)
  PROVE  AllGood' /\ Apart' /\ NextLater'
<1>1. issued \in Nat /\ \A t \in Tokens : t \in Nat
  BY AuthTyped DEF Tokens
<1>2. \A e \in Devices : \A m : Touches(run, store, e, m) =>
        /\ m \in Tokens /\ m \in 1 .. issued /\ m # n /\ tokens[m].session \in 1 .. issued
        /\ tokens'[m].session = tokens[m].session
  <2> SUFFICES ASSUME NEW e \in Devices, NEW m, Touches(run, store, e, m)
               PROVE  /\ m \in Tokens /\ m \in 1 .. issued /\ m # n /\ tokens[m].session \in 1 .. issued
                      /\ tokens'[m].session = tokens[m].session
    OBVIOUS
  <2>1. m \in Tokens /\ m \in 1 .. issued /\ RowFits(m)
    BY Touched DEF PatientInv
  <2>2. m # n /\ tokens[m].session \in 1 .. issued
    BY <1>1, <2>1 DEF RowFits, SessionOf
  <2> QED
    BY <2>1, <2>2
<1>3. NextLater'
  <2> SUFFICES ASSUME NEW t \in Tokens, tokens'[t].next # 0 PROVE t < tokens'[t].next
    BY DEF NextLater
  <2>1. t # n
    OBVIOUS
  <2>2. CASE tokens'[t].next = tokens[t].next
    BY <2>2 DEF PatientInv, NextLater
  <2>3. CASE tokens'[t].next = n /\ tokens[t].next # n
    <3>1. t <= issued
      BY <2>1, <2>3
    <3>2. t < n
      BY <1>1, <3>1
    <3> QED
      BY <2>3, <3>2
  <2> QED
    BY <2>1, <2>2, <2>3
<1>4. AllGood'
  <2> SUFFICES ASSUME NEW e \in Devices, NEW m, Touches(run', store', e, m)
               PROVE  Good(tokens', closed', m)
    BY DEF AllGood
  <2>1. CASE Touches(run, store, e, m)
    BY <2>1
  <2>2. CASE m = n
    BY <2>2 DEF Good
  <2> QED
    BY <2>1, <2>2 DEF NewTouch
<1>5. Apart'
  <2> SUFFICES ASSUME NEW e \in Devices, NEW f \in Devices, NEW m, NEW k, e # f,
                      Touches(run', store', e, m), Touches(run', store', f, k)
               PROVE  tokens'[m].session # tokens'[k].session
    BY DEF Apart
  <2>1. CASE Touches(run, store, e, m) /\ Touches(run, store, f, k)
    BY <1>2, <2>1 DEF PatientInv, Apart
  <2>2. ASSUME NEW c \in Devices, NEW j, c # d, Touches(run, store, c, j)
        PROVE  tokens'[j].session # tokens'[n].session
    <3>1. tokens'[j].session = tokens[j].session /\ tokens[j].session \in 1 .. issued
      BY <1>2, <2>2
    <3>2. CASE tokens'[n].session = n
      BY <1>1, <3>1, <3>2
    <3>3. ASSUME NEW p, Touches(run, store, d, p), tokens'[n].session = tokens[p].session
          PROVE  tokens'[j].session # tokens'[n].session
      BY <2>2, <3>1, <3>3 DEF PatientInv, Apart
    <3> QED
      BY <3>2, <3>3
  <2>3. CASE e = d /\ m = n
    <3>1. f # d /\ Touches(run, store, f, k)
      BY <2>3 DEF NewTouch
    <3> QED
      BY <2>2, <2>3, <3>1
  <2>4. CASE f = d /\ k = n
    <3>1. e # d /\ Touches(run, store, e, m)
      BY <2>4 DEF NewTouch
    <3> QED
      BY <2>2, <2>4, <3>1
  <2> QED
    BY <2>1, <2>3, <2>4 DEF NewTouch
<1> QED
  BY <1>3, <1>4, <1>5

(* All sessions are retired: the successors that live are among the rows seen. *)
LEMMA RowsRetire ==
  ASSUME AuthInv, PatientInv, NoNewTouch, NEW h \in Requests, RetireCommit(h)
  PROVE  AllGood' /\ Apart' /\ NextLater'
<1> DEFINE rows == run[h].rows
<1>1. /\ run[h].pc = "retiring" /\ run[h].cause = "LOGOUT"
      /\ \A t \in Tokens : tokens[t].next # 0 /\ tokens[tokens[t].next].state = "live"
                             => tokens[t].next \in rows
  BY DEF RetireCommit, At, PatientInv, Sees
<1>2. \A t \in Tokens : /\ tokens[t] \in Rows
                        /\ tokens'[t] = [tokens[t] EXCEPT !.state = Retired(t, rows, "LOGOUT")]
  BY <1>1, AuthTyped DEF RetireCommit
<1>3. \A t \in Tokens : /\ tokens'[t].next = tokens[t].next
                        /\ tokens'[t].session = tokens[t].session
                        /\ tokens'[t].state = Retired(t, rows, "LOGOUT")
  BY <1>2 DEF Rows
<1>4. closed' = [s \in Tokens |-> IF closed[s] = "no" /\ \E t \in rows : SessionOf(t) = s
                                  THEN "LOGOUT" ELSE closed[s]]
  BY <1>1 DEF RetireCommit
<1>5. \A d \in Devices : \A n : Touches(run', store', d, n) =>
        Touches(run, store, d, n) /\ n \in Tokens /\ tokens'[n].session = tokens[n].session
  BY <1>3, Touched DEF PatientInv, NoNewTouch
<1>6. Apart'
  BY <1>5 DEF PatientInv, Apart
<1>7. NextLater'
  BY <1>3 DEF PatientInv, NextLater
<1>8. ASSUME NEW d \in Devices, NEW n, Touches(run', store', d, n) PROVE Good(tokens', closed', n)
  <2>1. n \in Tokens /\ Good(tokens, closed, n) /\ RowFits(n) /\ n <= issued
        /\ tokens[n].session \in Tokens
    <3>1. Touches(run, store, d, n)
      BY <1>5, <1>8
    <3>2. n \in Tokens /\ RowFits(n) /\ n \in 1 .. issued /\ Good(tokens, closed, n)
      BY <3>1, Touched DEF PatientInv, AllGood
    <3> QED
      BY <3>2, AuthTyped DEF RowFits, SessionOf, Tokens
  <2>2. CASE closed[tokens[n].session] = "LOGOUT"
    BY <1>3, <1>4, <2>1, <2>2 DEF Good
  <2>3. CASE tokens[n].state = "live" /\ n \notin rows
    BY <1>3, <2>1, <2>3 DEF Good, Retired, Is
  <2>4. CASE tokens[n].state = "live" /\ n \in rows
    BY <1>3, <1>4, <2>1, <2>4 DEF Good, RowFits, Is, SessionOf
  <2>5. CASE tokens[n].state = "deleted"
    BY <1>3, <2>1, <2>5 DEF Good, Retired, Is
  <2>6. CASE /\ tokens[n].state \in {"ROTATED", "RECOVERED"}
             /\ tokens[n].next # 0 /\ tokens[tokens[n].next].state = "live"
    <3>1. tokens[n].next \in rows /\ tokens[tokens[n].next].session = tokens[n].session
      BY <1>1, <2>1, <2>6, NextRow
    <3>2. closed[tokens[n].session] = "no"
      BY <2>1, <2>6 DEF RowFits, Is, SessionOf
    <3> QED
      BY <1>3, <1>4, <2>1, <3>1, <3>2 DEF Good, SessionOf
  <2> QED
    BY <2>1, <2>2, <2>3, <2>4, <2>5, <2>6 DEF Good
<1> QED
  BY <1>6, <1>7, <1>8 DEF AllGood

-----------------------------------------------------------------------------
(* The steps, when the devices are patient and reuse is not strict.            *)
LEMMA Waits ==
  ASSUME AuthInv, PatientInv, NEW h \in Requests, OnlyMoves(h), Sees(run'[h]),
         Patience(run', store', issued'), NoNewTouch, UNCHANGED <<tokens, closed>>
  PROVE  PatientInv'
<1>1. AllGood' /\ Apart' /\ NextLater'
  BY RowsStay
<1>2. \A g \in Requests : Sees(run'[g])
  BY DEF PatientInv, OnlyMoves
<1>3. \A g \in Requests : Sees(run[g])'
  BY <1>2 DEF Sees
<1> QED
  BY <1>1, <1>3 DEF PatientInv

(* A request goes on and retires nothing.                                      *)
LEMMA GoingOn ==
  ASSUME AuthInv, PatientInv, NEW h \in Requests, OnlyMoves(h), UNCHANGED <<tokens, store, issued, closed>>,
         run[h].pc # "idle", run'[h].pc # "idle", run'[h].pc = "login" <=> run[h].pc = "login",
         run'[h].dev = run[h].dev, run'[h].tok = run[h].tok, run'[h].new = run[h].new,
         Sees(run'[h])
  PROVE  PatientInv'
<1>1. Patience(run', store', issued') /\ NoNewTouch
  BY GoesOn DEF PatientInv
<1> QED
  BY <1>1, Waits

LEMMA ReadPatient == ASSUME AuthInv, PatientInv, NEW h \in Requests, Read(h) PROVE PatientInv'
<1>1. run \in [Requests -> Handlers] /\ run[h] \in Handlers /\ run[h].pc = "read"
  BY DEF AuthInv, TypeOK, Read, At
<1>2. PICK pc \in {"recover", "rotate", "refused"}, S \in {Look(run[h].tok), run[h].seen} :
         run' = [run EXCEPT ![h].pc = pc, ![h].seen = S]
  <2>1. CASE Revoked(run[h].tok)
    BY <2>1 DEF Read
  <2>2. CASE ~Revoked(run[h].tok)
    <3>1. PICK pc \in {"rotate", "refused"} : run' = [run EXCEPT ![h].pc = pc]
      BY <2>2 DEF Read
    <3>2. [run EXCEPT ![h].pc = pc] = [run EXCEPT ![h].pc = pc, ![h].seen = run[h].seen]
      BY <1>1 DEF Handlers
    <3> QED
      BY <3>1, <3>2
  <2> QED
    BY <2>1, <2>2
<1>3. /\ OnlyMoves(h) /\ run'[h].pc = pc /\ run'[h].dev = run[h].dev
      /\ run'[h].tok = run[h].tok /\ run'[h].new = run[h].new
  BY <1>1, <1>2 DEF Handlers, OnlyMoves
<1> QED
  BY <1>1, <1>3, GoingOn DEF Read, Sees

LEMMA RotateBeginPatient ==
  ASSUME AuthInv, PatientInv, NEW h \in Requests, RotateBegin(h) PROVE PatientInv'
<1>1. run \in [Requests -> Handlers] /\ run[h] \in Handlers /\ run[h].pc = "rotate"
  BY DEF AuthInv, TypeOK, RotateBegin, At
<1>2. \/ \E pc \in {"throttled", "reread"} : run' = [run EXCEPT ![h].pc = pc]
      \/ run' = [run EXCEPT ![h].pc = "rotating", ![h].tv = {version}]
  BY DEF RotateBegin, NotRotated
<1>3. /\ OnlyMoves(h) /\ run'[h].pc \in {"throttled", "reread", "rotating"}
      /\ run'[h].dev = run[h].dev /\ run'[h].tok = run[h].tok /\ run'[h].new = run[h].new
  BY <1>1, <1>2 DEF Handlers, OnlyMoves
<1> QED
  BY <1>1, <1>3, GoingOn DEF RotateBegin, Sees

LEMMA RereadPatient == ASSUME AuthInv, PatientInv, NEW h \in Requests, Reread(h) PROVE PatientInv'
<1>1. run \in [Requests -> Handlers] /\ run[h] \in Handlers /\ run[h].pc = "reread"
  BY DEF AuthInv, TypeOK, Reread, At
<1>2. /\ OnlyMoves(h) /\ run'[h].pc \in {"refused", "recover"}
      /\ run'[h].dev = run[h].dev /\ run'[h].tok = run[h].tok /\ run'[h].new = run[h].new
  BY <1>1 DEF Reread, Handlers, OnlyMoves
<1> QED
  BY <1>1, <1>2, GoingOn DEF Reread, Sees

(* The token of a patient request never looks reused.                          *)
LEMMA NeverReplayed ==
  ASSUME ~Strict, AuthInv, PatientInv, NEW h \in Requests, run[h].pc = "recover",
         ~Stale(run[h].tok, run[h].seen)
  PROVE  ~Replay(run[h].tok, run[h].seen)
<1> DEFINE t == run[h].tok
<1>1. t # 0 /\ run[h].dev \in Devices /\ Touches(run, store, run[h].dev, t)
  BY DEF PatientInv, Patience, Serves, Touches
<1>2. t \in Tokens /\ RowFits(t) /\ Good(tokens, closed, t)
  BY <1>1, Touched DEF PatientInv, AllGood
<1>3. tokens[t].state \in {"ROTATED", "RECOVERED"} /\ tokens[t].next # 0
  BY DEF Stale, Is
<1>4. closed[tokens[t].session] = "no"
  BY <1>2, <1>3 DEF RowFits, Is, SessionOf
<1>5. tokens[tokens[t].next].state = "live" /\ tokens[t].next \in Tokens
  BY <1>2, <1>3, <1>4, NextRow DEF Good
<1> QED
  BY <1>5 DEF Replay, Live, Is

LEMMA RecoverBeginPatient ==
  ASSUME ~Strict, AuthInv, PatientInv, NEW h \in Requests, RecoverBegin(h) PROVE PatientInv'
<1>1. run \in [Requests -> Handlers] /\ run[h] \in Handlers /\ run[h].pc = "recover"
  BY DEF AuthInv, TypeOK, RecoverBegin, At
<1>2. \/ run' = [run EXCEPT ![h].pc = "refused", ![h].seen = {}]
      \/ run' = [run EXCEPT ![h].pc = "recovering", ![h].tv = {version}, ![h].seen = {}]
  BY <1>1, NeverReplayed DEF RecoverBegin
<1>3. /\ OnlyMoves(h) /\ run'[h].pc \in {"refused", "recovering"}
      /\ run'[h].dev = run[h].dev /\ run'[h].tok = run[h].tok /\ run'[h].new = run[h].new
  BY <1>1, <1>2 DEF Handlers, OnlyMoves
<1> QED
  BY <1>1, <1>3, GoingOn DEF RecoverBegin, Sees

LEMMA EverywhereBeginPatient ==
  ASSUME AuthInv, PatientInv, NEW h \in Requests, EverywhereBegin(h) PROVE PatientInv'
<1>1. run \in [Requests -> Handlers] /\ run[h] \in Handlers /\ run[h].pc = "retire"
  BY DEF AuthInv, TypeOK, EverywhereBegin, At
<1>2. PICK S : S = Live
  OBVIOUS
<1>3. run' = [run EXCEPT ![h].pc = "retiring", ![h].cause = "LOGOUT", ![h].rows = S]
  BY <1>2 DEF EverywhereBegin
<1>4. /\ OnlyMoves(h) /\ run'[h].pc = "retiring" /\ run'[h].cause = "LOGOUT" /\ run'[h].rows = S
      /\ run'[h].dev = run[h].dev /\ run'[h].tok = run[h].tok /\ run'[h].new = run[h].new
  BY <1>1, <1>3 DEF Handlers, OnlyMoves
<1>5. Sees(run'[h])
  BY <1>2, <1>4, NextRow DEF Sees, Live, Is
<1> QED
  BY <1>1, <1>4, <1>5, GoingOn DEF EverywhereBegin

LEMMA LoginReadsPatient ==
  ASSUME AuthInv, PatientInv, NEW h \in Requests, LoginReads(h) PROVE PatientInv'
<1>1. run \in [Requests -> Handlers] /\ run[h] \in Handlers /\ run[h].pc = "login"
  BY DEF AuthInv, TypeOK, LoginReads, At
<1>2. /\ OnlyMoves(h) /\ run'[h].pc = "login"
      /\ run'[h].dev = run[h].dev /\ run'[h].tok = run[h].tok /\ run'[h].new = run[h].new
  BY <1>1 DEF LoginReads, Handlers, OnlyMoves
<1> QED
  BY <1>1, <1>2, GoingOn DEF LoginReads, Sees

LEMMA SendPatient ==
  ASSUME Patient, AuthInv, PatientInv, NEW h \in Requests, NEW d \in Devices, Send(h, d)
  PROVE  PatientInv'
<1>1. run \in [Requests -> Handlers] /\ Blank \in Handlers /\ run[h].pc = "idle"
  BY BlankFits DEF AuthInv, TypeOK, Send, At
<1>2. /\ OnlyMoves(h) /\ run'[h].pc = "read" /\ run'[h].dev = d /\ run'[h].tok = store[d]
      /\ run'[h].new = 0
  BY <1>1 DEF Send, Blank, OnlyMoves
<1>3. \A g \in Requests : run[g].pc # "idle" /\ run[g].dev = d => run[g].tok = store[d]
  BY DEF Send, InFlight, Busy, At
<1>4. Patience(run', store', issued') /\ NoNewTouch
  BY <1>1, <1>2, <1>3, Arrives DEF Send, PatientInv
<1> QED
  BY <1>2, <1>4, Waits DEF Send, Sees

LEMMA AskEverywherePatient ==
  ASSUME Patient, AuthInv, PatientInv, NEW h \in Requests, NEW d \in Devices, AskEverywhere(h, d)
  PROVE  PatientInv'
<1>1. run \in [Requests -> Handlers] /\ Blank \in Handlers /\ run[h].pc = "idle"
  BY BlankFits DEF AuthInv, TypeOK, AskEverywhere, At
<1>2. /\ OnlyMoves(h) /\ run'[h].pc = "retire" /\ run'[h].dev = d /\ run'[h].tok = store[d]
      /\ run'[h].new = 0
  BY <1>1 DEF AskEverywhere, Blank, OnlyMoves
<1>3. \A g \in Requests : run[g].pc # "idle" /\ run[g].dev = d => run[g].tok = store[d]
  BY DEF AskEverywhere, InFlight, Busy, At
<1>4. Patience(run', store', issued') /\ NoNewTouch
  BY <1>1, <1>2, <1>3, Arrives DEF AskEverywhere, PatientInv
<1> QED
  BY <1>2, <1>4, Waits DEF AskEverywhere, Sees

LEMMA SignInPatient ==
  ASSUME AuthInv, PatientInv, NEW h \in Requests, NEW d \in Devices, SignIn(h, d) PROVE PatientInv'
<1>1. run \in [Requests -> Handlers] /\ Blank \in Handlers /\ run[h].pc = "idle"
  BY BlankFits DEF AuthInv, TypeOK, SignIn, At
<1>2. /\ OnlyMoves(h) /\ run'[h].pc = "login" /\ run'[h].dev = d /\ run'[h].tok = 0
      /\ run'[h].new = 0
  BY <1>1 DEF SignIn, Blank, OnlyMoves
<1>3. \A g \in Requests : run[g].dev = d => run[g].pc = "idle"
  BY DEF SignIn, InFlight, Busy, At
<1>4. Patience(run', store', issued') /\ NoNewTouch
  BY <1>1, <1>2, <1>3, SignsIn DEF SignIn, PatientInv
<1> QED
  BY <1>2, <1>4, Waits DEF SignIn, Sees

(* A request ends, answered or not.                                            *)
LEMMA EndsPatient ==
  ASSUME AuthInv, PatientInv, NEW h \in Requests,
         Grant(h) \/ Refuse(h) \/ Throttle(h) \/ Dies(h)
  PROVE  PatientInv'
<1>1. /\ run' = [run EXCEPT ![h] = Blank] /\ run[h].pc # "idle"
      /\ UNCHANGED <<tokens, issued, closed>>
  BY DEF Grant, PairReady, Refuse, Throttle, Dies, Busy, At
<1>2. \/ store' = store
      \/ store' = [store EXCEPT ![run[h].dev] = 0]
      \/ store' = [store EXCEPT ![run[h].dev] = run[h].new]
  BY DEF Grant, Refuse, Throttle, Dies
<1>3. Patience(run', store', issued') /\ NoNewTouch
  BY <1>1, <1>2, Leaves DEF PatientInv
<1>4. OnlyMoves(h) /\ run'[h] = Blank
  BY <1>1, BlankFits DEF OnlyMoves, AuthInv, TypeOK
<1>5. Sees(run'[h])
  BY <1>4 DEF Sees, Blank
<1> QED
  BY <1>1, <1>3, <1>4, <1>5, Waits

(* Rows grow older; nobody starts to retire.                                   *)
LEMMA AgesPatient ==
  ASSUME AuthInv, PatientInv, Patience(run', store', issued'), NoNewTouch, closed' = closed,
         \A t \in Tokens : Ageing(t),
         \A g \in Requests : run'[g].pc = "retiring" => run'[g] = run[g]
  PROVE  PatientInv'
<1>1. AllGood' /\ Apart' /\ NextLater'
  BY RowsAge
<1>2. ASSUME NEW g \in Requests, NEW t \in Tokens, run'[g].pc = "retiring",
             tokens'[t].next # 0, tokens'[tokens'[t].next].state = "live"
      PROVE  tokens'[t].next \in run'[g].rows
  <2>1. run'[g] = run[g] /\ Sees(run[g]) /\ tokens'[t].next = tokens[t].next
    BY <1>2 DEF PatientInv, Ageing
  <2>2. tokens[t].next \in Tokens
    BY <1>2, <2>1, NextRow
  <2>3. tokens[tokens[t].next].state = "live"
    BY <1>2, <2>1, <2>2 DEF Ageing
  <2> QED
    BY <1>2, <2>1, <2>3 DEF Sees
<1>3. \A g \in Requests : Sees(run[g])'
  BY <1>2 DEF PatientInv, Sees
<1> QED
  BY <1>1, <1>3 DEF PatientInv

LEMMA PurgedAgeing == ASSUME AuthInv, tokens' = Purged, NEW t \in Tokens PROVE Ageing(t)
<1>1. tokens[t] \in Rows /\ tokens'[t] = IF Due(t)
        THEN [tokens[t] EXCEPT !.state = "deleted", !.marks = {"expired"}] ELSE tokens[t]
  BY AuthTyped DEF Purged
<1>2. /\ tokens'[t].next = tokens[t].next /\ tokens'[t].session = tokens[t].session
      /\ tokens'[t].state = IF Due(t) THEN "deleted" ELSE tokens[t].state
  BY <1>1 DEF Rows
<1>3. ASSUME tokens[t].next # 0, tokens[tokens[t].next].state = "live",
             tokens'[tokens[t].next].state # "live"
      PROVE  tokens'[t].state = "deleted"
  <2>1. tokens[t].next \in Tokens /\ RowFits(t)
    BY <1>3, NextRow, AuthTyped
  <2>2. "expired" \in tokens[tokens[t].next].marks
    BY <1>3, <2>1 DEF Purged, Due
  <2>3. "expired" \in tokens[t].marks
    BY <1>3, <2>1, <2>2 DEF RowFits
  <2> QED
    BY <1>2, <2>3 DEF Due, Is
<1> QED
  BY <1>2, <1>3 DEF Ageing

LEMMA CleanupPatient == ASSUME AuthInv, PatientInv, NEW h \in Requests, Cleanup(h) PROVE PatientInv'
<1>1. run \in [Requests -> Handlers] /\ run[h] \in Handlers /\ run[h].pc = "cleanup"
  BY DEF AuthInv, TypeOK, Cleanup, At
<1>2. /\ OnlyMoves(h) /\ run'[h].pc = "granted"
      /\ run'[h].dev = run[h].dev /\ run'[h].tok = run[h].tok /\ run'[h].new = run[h].new
  BY <1>1 DEF Cleanup, Handlers, OnlyMoves
<1>3. Patience(run', store', issued') /\ NoNewTouch
  BY <1>1, <1>2, GoesOn DEF Cleanup, PatientInv
<1>4. \A t \in Tokens : Ageing(t)
  BY PurgedAgeing DEF Cleanup
<1> QED
  BY <1>2, <1>3, <1>4, AgesPatient DEF Cleanup, OnlyMoves

LEMMA TimePatient == ASSUME AuthInv, PatientInv, Time PROVE PatientInv'
<1>1. UNCHANGED <<run, store, issued, closed>>
  BY DEF Time, GraceEnds, Expires, MinutePasses, SessionEnds, Purge
<1>2. Patience(run', store', issued') /\ NoNewTouch
  BY <1>1, Forgets DEF PatientInv
<1>3. ASSUME NEW t \in Tokens PROVE Ageing(t)
  <2>1. CASE tokens' = Purged
    BY <2>1, PurgedAgeing
  <2>2. CASE tokens' = tokens
    BY <2>2 DEF Ageing
  <2>3. ASSUME NEW u \in Tokens, GraceEnds(u) \/ Expires(u) \/ MinutePasses(u) PROVE Ageing(t)
    <3>1. tokens \in [Tokens -> Rows]
      BY DEF AuthInv, TypeOK
    <3>2. \A p \in Tokens : tokens'[p].next = tokens[p].next
                            /\ tokens'[p].session = tokens[p].session
                            /\ tokens'[p].state = tokens[p].state
      BY <2>3, <3>1 DEF GraceEnds, Expires, MinutePasses, Rows
    <3> QED
      BY <3>2, NextRow DEF Ageing
  <2> QED
    BY <2>1, <2>2, <2>3 DEF Time, SessionEnds, Purge
<1> QED
  BY <1>1, <1>2, <1>3, AgesPatient

LEMMA LogoutPatient ==
  ASSUME Patient, AuthInv, PatientInv, NEW d \in Devices, Logout(d) PROVE PatientInv'
<1> DEFINE t == store[d]
<1>1. /\ UNCHANGED <<issued, run, closed>> /\ store' = [store EXCEPT ![d] = 0] /\ t # 0
      /\ \/ tokens' = [tokens EXCEPT ![t].state = LoggedOut(t)]
         \/ tokens' = tokens
  BY DEF Logout
<1>2. \A h \in Requests : run[h].dev # d
  <2>1. \A h \in Requests : run[h].pc # "idle" => run[h].dev # d
    BY DEF Logout, InFlight, Busy, At
  <2> QED
    BY <2>1, ConstantsAssumption DEF PatientInv, Patience, Serves
<1>3. tokens \in [Tokens -> Rows] /\ t \in Tokens
  BY <1>1, AuthTyped DEF AuthInv, TypeOK, Tokens
<1>4. \A p \in Tokens : /\ tokens'[p].next = tokens[p].next
                        /\ tokens'[p].session = tokens[p].session
                        /\ tokens'[p].state = "live" => tokens[p].state = "live"
                        /\ p # t => tokens'[p].state = tokens[p].state
  <2>1. LoggedOut(t) = "live" => tokens[t].state = "live"
    BY DEF LoggedOut, Is
  <2>2. PICK e : e = LoggedOut(t)
    OBVIOUS
  <2>3. \/ tokens' = [tokens EXCEPT ![t].state = e]
        \/ tokens' = tokens
    BY <1>1, <2>2
  <2> HIDE DEF t
  <2> QED
    BY <1>3, <2>1, <2>2, <2>3 DEF Rows
<1>5. AllGood' /\ Apart' /\ NextLater'
  BY <1>1, <1>2, <1>4, RowsLogout
<1>6. Patience(run', store', issued')
  BY <1>1, Forgets DEF PatientInv
<1>7. ASSUME NEW g \in Requests PROVE Sees(run[g])'
  <2>1. Sees(run[g]) /\ run'[g] = run[g]
    BY <1>1 DEF PatientInv
  <2>2. \A p \in Tokens : tokens[p].next # 0 => tokens[p].next \in Tokens
    BY NextRow
  <2> QED
    BY <1>4, <2>1, <2>2 DEF Sees
<1> QED
  BY <1>5, <1>6, <1>7 DEF PatientInv

-----------------------------------------------------------------------------
(* Who holds the lock is the only one to retire.                               *)
LEMMA HolderSees ==
  ASSUME AuthInv, NEW h \in Requests, run[h].pc \in Holding, OnlyMoves(h),
         run'[h].pc \notin Holding
  PROVE  \A g \in Requests : Sees(run[g])'
<1>1. \A g \in Requests : g # h => run[g].pc \notin Holding
  BY HoldsAlone
<1>2. \A g \in Requests : run'[g].pc # "retiring"
  BY <1>1 DEF OnlyMoves, Holding
<1> QED
  BY <1>2 DEF Sees

(* The room of a request that still inserts its row.                           *)
LEMMA NewRowIsToken ==
  ASSUME AuthInv, NEW h \in Requests, Owes(run[h])
  PROVE  issued + 1 \in Tokens /\ issued \in Nat
BY PlaceLeft, AuthTyped DEF Tokens, Owing

LEMMA RotateCommitPatient ==
  ASSUME AuthInv, PatientInv, NEW h \in Requests, RotateCommit(h) PROVE PatientInv'
<1> DEFINE d == run[h].dev
<1>1. PICK p : p = run[h].tok
  OBVIOUS
<1>2. PICK n : n = issued + 1
  OBVIOUS
<1>3. /\ run \in [Requests -> Handlers] /\ run[h] \in Handlers /\ run[h].pc = "rotating"
      /\ tokens \in [Tokens -> Rows] /\ Owes(run[h])
  BY DEF AuthInv, TypeOK, RotateCommit, At, Owes, Presenting
<1>4. n \in Tokens /\ issued \in Nat /\ d \in Devices /\ p # 0 /\ Touches(run, store, d, p)
  BY <1>1, <1>2, <1>3, NewRowIsToken DEF PatientInv, Patience, Serves, Touches
<1>5. p \in Tokens /\ p \in 1 .. issued /\ p # n /\ tokens[p] \in Rows
  BY <1>2, <1>4, Touched DEF PatientInv
<1>6. /\ OnlyMoves(h) /\ run'[h].pc = "cleanup" /\ run'[h].new = n
      /\ run'[h].dev = run[h].dev /\ run'[h].tok = run[h].tok
      /\ issued' = issued + 1 /\ UNCHANGED <<store, closed>>
  BY <1>2, <1>3 DEF RotateCommit, Handlers, OnlyMoves
<1>7. Patience(run', store', issued') /\ NewTouch(d, n)
  BY <1>2, <1>3, <1>6, Stores DEF PatientInv, NewTouch
<1>8. tokens' = [tokens EXCEPT ![p].state = "ROTATED", ![p].next = n,
                               ![n] = NewRow(SessionOf(p), "rotation")]
  BY <1>1, <1>2 DEF RotateCommit, Rotated
<1>9. /\ tokens'[p] = [tokens[p] EXCEPT !.state = "ROTATED", !.next = n]
      /\ tokens'[n] = NewRow(SessionOf(p), "rotation")
      /\ \A t \in Tokens : t # p /\ t # n => tokens'[t] = tokens[t]
  BY <1>3, <1>4, <1>5, <1>8
<1>10. /\ tokens'[p].state = "ROTATED" /\ tokens'[p].next = n
       /\ tokens'[p].session = tokens[p].session
       /\ tokens'[n].session = tokens[p].session /\ tokens'[n].state = "live"
       /\ tokens'[n].next = 0
  BY <1>5, <1>9 DEF Rows, NewRow, SessionOf
<1>11. ASSUME NEW e \in Devices, NEW m, Touches(run, store, e, m)
       PROVE  Good(tokens', closed', m)
  <2>1. CASE m = p
    BY <1>2, <1>4, <1>10, <2>1 DEF Good
  <2>2. CASE m # p
    <3>1. m \in Tokens /\ m \in 1 .. issued /\ m # n /\ Good(tokens, closed, m)
      BY <1>2, <1>4, <1>11, Touched DEF PatientInv, AllGood
    <3>2. tokens'[m] = tokens[m]
      BY <1>9, <2>2, <3>1
    <3>3. ASSUME tokens[m].next # 0
          PROVE  tokens[m].next # p /\ tokens[m].next \in Tokens /\ tokens[m].next # n
      <4>1. tokens[m].next \in Tokens /\ tokens[m].next \in 1 .. issued
            /\ tokens[tokens[m].next].session = tokens[m].session
        BY <3>1, <3>3, NextRow
      <4>2. CASE e # d
        <5>1. tokens[m].session # tokens[p].session
          BY <1>4, <1>11, <4>2 DEF PatientInv, Apart
        <5> QED
          BY <1>2, <1>4, <4>1, <5>1
      <4>3. CASE e = d
        <5>1. p <= m
          BY <1>1, <1>3, <1>11, <4>3 DEF PatientInv, Patience, InOrder
        <5>2. m < tokens[m].next
          BY <3>1, <3>3 DEF PatientInv, NextLater
        <5> QED
          BY <1>2, <1>4, <1>5, <3>1, <4>1, <5>1, <5>2
      <4> QED
        BY <4>2, <4>3
    <3>4. tokens[m].next # 0 => tokens'[tokens[m].next] = tokens[tokens[m].next]
      BY <1>9, <3>3
    <3> QED
      BY <1>6, <3>1, <3>2, <3>4 DEF Good
  <2> QED
    BY <2>1, <2>2
<1>12. AllGood' /\ Apart' /\ NextLater'
  <2>1. \A t \in Tokens : t # n => tokens'[t].session = tokens[t].session
    BY <1>9, <1>10
  <2>2. \A t \in Tokens : t # n => \/ tokens'[t].next = tokens[t].next
                                   \/ tokens'[t].next = n /\ t <= issued
    <3>1. p <= issued
      BY <1>4, <1>5
    <3> QED
      BY <1>9, <1>10, <3>1
  <2>3. \E q : Touches(run, store, d, q) /\ tokens'[n].session = tokens[q].session
    BY <1>4, <1>10
  <2> QED
    BY <1>2, <1>4, <1>6, <1>7, <1>10, <1>11, <2>1, <2>2, <2>3, RowsGrow
<1>13. \A g \in Requests : Sees(run[g])'
  BY <1>3, <1>6, HolderSees DEF Holding
<1> QED
  BY <1>7, <1>12, <1>13 DEF PatientInv

LEMMA RecoverCommitPatient ==
  ASSUME AuthInv, PatientInv, NEW h \in Requests, RecoverCommit(h) PROVE PatientInv'
<1> DEFINE d == run[h].dev
<1>1. PICK p : p = run[h].tok
  OBVIOUS
<1>2. PICK n : n = issued + 1
  OBVIOUS
<1>3. /\ run \in [Requests -> Handlers] /\ run[h] \in Handlers /\ run[h].pc = "recovering"
      /\ tokens \in [Tokens -> Rows] /\ Owes(run[h])
  BY DEF AuthInv, TypeOK, RecoverCommit, At, Owes, Presenting
<1>4. n \in Tokens /\ issued \in Nat /\ d \in Devices /\ p # 0 /\ Touches(run, store, d, p)
  BY <1>1, <1>2, <1>3, NewRowIsToken DEF PatientInv, Patience, Serves, Touches
<1>5. /\ p \in Tokens /\ p \in 1 .. issued /\ p # n /\ tokens[p] \in Rows
      /\ tokens[p].state \in {"ROTATED", "RECOVERED", "deleted"}
  <2>1. HandlerFits(run[h])
    BY AuthTyped
  <2> QED
    BY <1>1, <1>2, <1>3, <1>4, <2>1, Touched DEF PatientInv, HandlerFits
<1>6. /\ OnlyMoves(h) /\ run'[h].pc = "granted" /\ run'[h].new = n
      /\ run'[h].dev = run[h].dev /\ run'[h].tok = run[h].tok
      /\ issued' = issued + 1 /\ UNCHANGED <<store, closed>>
  BY <1>2, <1>3 DEF RecoverCommit, Handlers, OnlyMoves
<1>7. Patience(run', store', issued') /\ NewTouch(d, n)
  BY <1>2, <1>3, <1>6, Stores DEF PatientInv, NewTouch
<1>8. PICK s : s = IF tokens[p].state = "deleted" THEN "deleted" ELSE "RECOVERED"
  OBVIOUS
<1>9. tokens' = [tokens EXCEPT ![p].state = s, ![n] = NewRow(SessionOf(p), "recovery")]
  BY <1>1, <1>2, <1>8 DEF RecoverCommit, Rescued, Is
<1>10. /\ tokens'[p] = [tokens[p] EXCEPT !.state = s]
       /\ tokens'[n] = NewRow(SessionOf(p), "recovery")
       /\ \A t \in Tokens : t # p /\ t # n => tokens'[t] = tokens[t]
  BY <1>3, <1>4, <1>5, <1>9
<1>11. /\ tokens'[p].state = s /\ tokens'[p].next = tokens[p].next
       /\ tokens'[p].session = tokens[p].session
       /\ tokens'[n].session = tokens[p].session /\ tokens'[n].state = "live"
       /\ tokens'[n].next = 0
  BY <1>5, <1>10 DEF Rows, NewRow, SessionOf
<1>12. ASSUME NEW e \in Devices, NEW m, Touches(run, store, e, m)
       PROVE  Good(tokens', closed', m)
  <2>1. m \in Tokens /\ m \in 1 .. issued /\ m # n /\ Good(tokens, closed, m)
    BY <1>2, <1>4, <1>12, Touched DEF PatientInv, AllGood
  <2>2. tokens'[m].next = tokens[m].next /\ tokens'[m].session = tokens[m].session
    BY <1>10, <1>11, <2>1
  <2>3. tokens'[m].state = tokens[m].state \/ (m = p /\ tokens'[m].state = s)
    BY <1>10, <1>11, <2>1
  <2>4. tokens[m].next # 0 /\ tokens[tokens[m].next].state = "live"
          => tokens'[tokens[m].next].state = "live"
    BY <1>5, <1>10, <1>11, <2>1, NextRow
  <2> QED
    BY <1>5, <1>6, <1>8, <2>1, <2>2, <2>3, <2>4 DEF Good
<1>13. AllGood' /\ Apart' /\ NextLater'
  <2>1. \A t \in Tokens : t # n => tokens'[t].session = tokens[t].session
    BY <1>10, <1>11
  <2>2. \A t \in Tokens : t # n => tokens'[t].next = tokens[t].next
    BY <1>10, <1>11
  <2>3. \E q : Touches(run, store, d, q) /\ tokens'[n].session = tokens[q].session
    BY <1>4, <1>11
  <2> QED
    BY <1>2, <1>4, <1>6, <1>7, <1>11, <1>12, <2>1, <2>2, <2>3, RowsGrow
<1>14. \A g \in Requests : Sees(run[g])'
  BY <1>3, <1>6, HolderSees DEF Holding
<1> QED
  BY <1>7, <1>13, <1>14 DEF PatientInv

LEMMA LoginInsertsPatient ==
  ASSUME AuthInv, PatientInv, NEW h \in Requests, LoginInserts(h) PROVE PatientInv'
<1> DEFINE d == run[h].dev
<1>2. PICK n : n = issued + 1
  OBVIOUS
<1>3. /\ run \in [Requests -> Handlers] /\ run[h] \in Handlers /\ run[h].pc = "login"
      /\ tokens \in [Tokens -> Rows] /\ Owes(run[h])
  BY DEF AuthInv, TypeOK, LoginInserts, At, Owes
<1>4. n \in Tokens /\ issued \in Nat /\ d \in Devices
  BY <1>2, <1>3, NewRowIsToken DEF PatientInv, Patience, Serves
<1>6. /\ OnlyMoves(h) /\ run'[h].pc = "login" /\ run'[h].new = n
      /\ run'[h].dev = run[h].dev /\ run'[h].tok = run[h].tok
      /\ issued' = issued + 1 /\ UNCHANGED <<store, closed>>
  BY <1>2, <1>3 DEF LoginInserts, Handlers, OnlyMoves
<1>7. Patience(run', store', issued') /\ NewTouch(d, n)
  BY <1>2, <1>3, <1>6, Stores DEF PatientInv, NewTouch
<1>8. /\ tokens'[n] = NewRow(n, "login")
      /\ \A t \in Tokens : t # n => tokens'[t] = tokens[t]
  BY <1>2, <1>3, <1>4 DEF LoginInserts
<1>9. tokens'[n].session = n /\ tokens'[n].state = "live" /\ tokens'[n].next = 0
  BY <1>8 DEF NewRow
<1>10. \A t \in Tokens : tokens[t].next # 0 => tokens[t].next \in Tokens /\ tokens[t].next # n
  BY <1>2, <1>4, NextRow
<1>12. ASSUME NEW e \in Devices, NEW m, Touches(run, store, e, m)
       PROVE  Good(tokens', closed', m)
  <2>1. m \in Tokens /\ m # n /\ Good(tokens, closed, m)
    BY <1>2, <1>4, <1>12, Touched DEF PatientInv, AllGood
  <2>2. tokens'[m] = tokens[m]
        /\ (tokens[m].next # 0 => tokens'[tokens[m].next] = tokens[tokens[m].next])
    BY <1>8, <1>10, <2>1
  <2> QED
    BY <1>6, <2>1, <2>2 DEF Good
<1>13. AllGood' /\ Apart' /\ NextLater'
  BY <1>2, <1>4, <1>6, <1>7, <1>8, <1>9, <1>12, RowsGrow
<1>14. ASSUME NEW g \in Requests PROVE Sees(run[g])'
  <2>1. CASE g = h
    BY <1>6, <2>1 DEF Sees
  <2>2. CASE g # h
    <3>1. Sees(run[g]) /\ run'[g] = run[g]
      BY <1>6, <2>2 DEF PatientInv, OnlyMoves
    <3> QED
      BY <1>8, <1>9, <1>10, <3>1 DEF Sees
  <2> QED
    BY <2>1, <2>2
<1> QED
  BY <1>7, <1>13, <1>14 DEF PatientInv

LEMMA RetireCommitPatient ==
  ASSUME AuthInv, PatientInv, NEW h \in Requests, RetireCommit(h) PROVE PatientInv'
<1>1. run \in [Requests -> Handlers] /\ run[h] \in Handlers /\ run[h].pc = "retiring"
  BY DEF AuthInv, TypeOK, RetireCommit, At
<1>2. /\ OnlyMoves(h) /\ run'[h].pc = "refused"
      /\ run'[h].dev = run[h].dev /\ run'[h].tok = run[h].tok /\ run'[h].new = run[h].new
  BY <1>1 DEF RetireCommit, Handlers, OnlyMoves
<1>3. Patience(run', store', issued') /\ NoNewTouch
  BY <1>1, <1>2, GoesOn DEF RetireCommit, PatientInv
<1>4. AllGood' /\ Apart' /\ NextLater'
  BY <1>3, RowsRetire
<1>5. \A g \in Requests : Sees(run[g])'
  BY <1>1, <1>2, HolderSees DEF Holding
<1> QED
  BY <1>3, <1>4, <1>5 DEF PatientInv

-----------------------------------------------------------------------------
LEMMA PatientStep ==
  ASSUME Patient, ~Strict, AuthInv, PatientInv, [Next]_vars PROVE PatientInv'
<1>1. ASSUME NEW h \in Requests, Handler(h) \/ Dies(h) PROVE PatientInv'
  BY <1>1, ReadPatient, RotateBeginPatient, RotateCommitPatient, CleanupPatient, RereadPatient,
     RecoverBeginPatient, RecoverCommitPatient, EverywhereBeginPatient, RetireCommitPatient,
     LoginReadsPatient, LoginInsertsPatient, EndsPatient
     DEF Handler
<1>2. ASSUME NEW d \in Devices, Device(d) PROVE PatientInv'
  BY <1>2, SendPatient, SignInPatient, AskEverywherePatient, LogoutPatient DEF Device
<1>3. CASE Time
  BY <1>3, TimePatient
<1>4. CASE UNCHANGED vars
  <2>1. Patience(run', store', issued') /\ NoNewTouch
    BY <1>4, Forgets DEF PatientInv, vars
  <2>2. \A t \in Tokens : Ageing(t)
    BY <1>4 DEF vars, Ageing
  <2> QED
    BY <1>4, <2>1, <2>2, AgesPatient DEF vars
<1> QED
  BY <1>1, <1>2, <1>3, <1>4 DEF Next

LEMMA PatientStarts == ASSUME Init PROVE PatientInv
<1>1. \A d \in Devices : \A n : ~Touches(run, store, d, n)
  BY DEF Init, Touches, Blank
<1>2. \A h \in Requests : run[h] = Blank /\ Blank.pc = "idle" /\ Blank.dev = NoDevice
                          /\ Blank.tok = 0 /\ Blank.new = 0
  BY DEF Init, Blank
<1>3. Patience(run, store, issued)
  BY <1>1, <1>2 DEF Patience, Serves, OneAtATime, InOrder, Issued
<1>4. NextLater
  BY DEF Init, NextLater, NoRow
<1>5. \A h \in Requests : Sees(run[h])
  BY <1>2 DEF Sees
<1> QED
  BY <1>1, <1>3, <1>4, <1>5 DEF PatientInv, AllGood, Apart

(* Without strict reuse detection, a patient device keeps a token that works    *)
(* until it expires or its user logs out everywhere, whatever answers it loses, *)
(* however its retries overlap and whichever requests die                       *)
(* (refreshAccessToken, recoverLostRotation, StoredTokenWorks).                 *)
THEOREM KeychainWorks == ASSUME Patient, ~Strict PROVE Spec => []StoredTokenWorks
<1>1. Init => PatientInv
  BY PatientStarts
<1>2. AuthInv /\ PatientInv /\ [Next]_vars => PatientInv'
  BY PatientStep
<1>3. AuthInv /\ PatientInv => StoredTokenWorks
  <2> SUFFICES ASSUME AuthInv, PatientInv, NEW d \in Devices, store[d] # 0,
                      "expired" \notin tokens[store[d]].marks,
                      closed[SessionOf(store[d])] # "LOGOUT"
               PROVE  Usable(store[d])
    BY DEF StoredTokenWorks
  <2>1. Touches(run, store, d, store[d])
    BY DEF Touches
  <2>2. store[d] \in Tokens /\ RowFits(store[d]) /\ Good(tokens, closed, store[d])
    BY <2>1, Touched DEF PatientInv, AllGood
  <2>3. tokens[store[d]].state # "deleted"
    BY <2>2 DEF RowFits, Is
  <2>4. tokens[store[d]].next # 0 => tokens[store[d]].next \in Tokens
    BY <2>2, NextRow
  <2> QED
    BY <2>2, <2>3, <2>4 DEF Good, Usable, Is, Live, SessionOf
<1> QED
  BY <1>1, <1>2, <1>3, AuthHolds, PTL DEF Spec

-----------------------------------------------------------------------------
(* Mail: types                                                             *)

LEMMA MailZero == 0 \in 0 .. MaxCrashes /\ 0 \in 0 .. MaxRetries /\ 0 \in 0 .. MaxLapses
  BY MailAssumption

LEMMA NoJobType == NoJob \in MailJobs
  BY MailZero DEF NoJob, MailJobs, SendingSteps

LEMMA NoMailType == NoMail \in MailRow
  BY MailZero DEF NoMail, MailRow, Status

\* Rows change one field at a time, to a value of its domain.
LEMMA PutType ==
  ASSUME MailShapes, NEW m \in Messages, NEW row \in MailRow, Put(m, row)
  PROVE  mail' \in [Messages -> MailRow]
<1>1. [row EXCEPT !.stuck = FALSE] \in MailRow
  BY DEF MailRow
<1> QED
  BY <1>1 DEF Put, MailShapes

LEMMA GetsType ==
  ASSUME MailShapes, NEW w \in Workers, NEW m \in Messages, NEW j \in MailJobs, Gets(w, m, j)
  PROVE  job' \in [Workers -> [Messages -> MailJobs]]
  BY DEF Gets, MailShapes, MailJobs

LEMMA StepsType ==
  ASSUME MailShapes, NEW w \in Workers, NEW m \in Messages, NEW pc \in SendingSteps
  PROVE  [job[w][m] EXCEPT !.pc = pc] \in MailJobs /\ [NoJob EXCEPT !.pc = pc] \in MailJobs
<1>1. job[w][m] \in MailJobs
  BY DEF MailShapes, MailJobs
<1> QED
  BY <1>1, NoJobType DEF MailJobs

LEMMA InitMailShapes == MailInit => MailShapes
<1> SUFFICES ASSUME MailInit PROVE MailShapes
  OBVIOUS
<1>1. mail \in [Messages -> MailRow]
  BY NoMailType DEF MailInit
<1>2. job \in [Workers -> [Messages -> MailJobs]]
  BY NoJobType DEF MailInit
<1> QED
  BY <1>1, <1>2, MailZero DEF MailInit, MailShapes, MailJobs

LEMMA OneMore ==
  ASSUME NEW f \in [Messages -> Nat], NEW m \in Messages
  PROVE  f[m] \in Nat /\ f[m] + 1 \in Nat
  OBVIOUS

LEMMA JobMoves ==
  ASSUME NEW j \in MailJobs, NEW pc \in SendingSteps, NEW n \in Nat
  PROVE  /\ [j EXCEPT !.pc = pc, !.id = n] \in MailJobs
         /\ [j EXCEPT !.pc = pc, !.id = n].attempts = j.attempts
  BY DEF MailJobs

\* What Settle leaves of a row.
Settled(w, m, row) ==
  /\ row \in MailRow /\ Put(m, row) /\ Gets(w, m, NoJob)
  /\ row.attempts = job[w][m].attempts + 1
  /\ row.status \in {"SENT", "QUEUED", "FAILED"}
  /\ row.status = "QUEUED" => row.attempts < MaxAttempts
  /\ row.id # mail[m].id => row.status = "SENT"

LEMMA SettledRow ==
  ASSUME MailShapes, NEW w \in Workers, NEW m \in Messages, Settle(w, m)
  PROVE  \E row : Settled(w, m, row)
<1> DEFINE j == job[w][m]
           tries == j.attempts + 1
           status == CASE j.pc = "ok" -> "SENT"
                       [] j.pc = "again" /\ MayTryAgain(tries) -> "QUEUED"
                       [] OTHER -> "FAILED"
           id == IF j.pc = "ok" THEN j.id ELSE mail[m].id
           row == [mail[m] EXCEPT !.attempts = tries, !.status = status,
                                  !.due = FALSE, !.id = id]
<1>1. mail[m] \in MailRow /\ j \in MailJobs
  BY DEF MailShapes, MailJobs
<1>2. tries \in Nat /\ id \in Nat
  BY <1>1 DEF MailRow, MailJobs
<1>3. status \in {"SENT", "QUEUED", "FAILED"}
  OBVIOUS
<1>4. /\ status = "QUEUED" => tries < MaxAttempts
      /\ id # mail[m].id => status = "SENT"
  BY DEF MayTryAgain
<1>5. Put(m, row) /\ Gets(w, m, NoJob)
  BY DEF Settle
<1> HIDE DEF tries, status, id
<1>6. /\ row \in MailRow /\ row.attempts = tries /\ row.status = status /\ row.id = id
  BY <1>1, <1>2, <1>3 DEF MailRow, Status
<1> HIDE DEF row
<1>7. Settled(w, m, row)
  BY <1>3, <1>4, <1>5, <1>6 DEF Settled, tries
<1> QED
  BY <1>7

LEMMA SweepingShapes ==
  ASSUME MailShapes, NEW w \in Workers, Sweeping(w)
  PROVE  MailShapes'
<1> USE DEF mailVars, external, history
<1>1. /\ mail \in [Messages -> MailRow] /\ job \in [Workers -> [Messages -> MailJobs]]
      /\ phase \in [Workers -> {"idle", "list", "claim", "deliver"}]
  BY DEF MailShapes, MailJobs
<1>2. ASSUME NEW status \in Status, NEW m \in Messages
      PROVE  /\ [mail[m] EXCEPT !.status = status] \in MailRow
             /\ [mail[m] EXCEPT !.status = status, !.stuck = FALSE] \in MailRow
  BY <1>1 DEF MailRow
<1>3. CASE RecoverStuck(w)
  <2>1. mail' \in [Messages -> MailRow]
    <3>1. "QUEUED" \in Status
      BY DEF Status
    <3> QED
      BY <1>1, <1>2, <1>3, <3>1 DEF RecoverStuck
  <2>2. overtaken' \subseteq Messages
    BY <1>3 DEF RecoverStuck, MailShapes, Lost
  <2> QED
    BY <1>1, <1>3, <2>1, <2>2 DEF RecoverStuck, MailShapes
<1>4. CASE ListDue(w)
  <2>1. [NoJob EXCEPT !.pc = "listed"] \in MailJobs
    BY NoJobType DEF MailJobs, SendingSteps
  <2>2. job' \in [Workers -> [Messages -> MailJobs]]
    BY <1>1, <1>4, <2>1, NoJobType DEF ListDue
  <2>3. phase' \in [Workers -> {"idle", "list", "claim", "deliver"}]
    BY <1>1, <1>4 DEF ListDue
  <2> QED
    BY <1>4, <2>2, <2>3 DEF ListDue, MailShapes, MailJobs
<1>5. CASE ReadClaimed(w)
  <2>1. ASSUME NEW m \in Messages
        PROVE  [pc |-> "read", attempts |-> mail[m].attempts, empty |-> mail[m].scrubbed,
                id |-> 0] \in MailJobs
    BY <1>1 DEF MailRow, MailJobs, SendingSteps
  <2>2. job' \in [Workers -> [Messages -> MailJobs]]
    BY <1>1, <1>5, <2>1, NoJobType DEF ReadClaimed
  <2>3. phase' \in [Workers -> {"idle", "list", "claim", "deliver"}]
    BY <1>1, <1>5 DEF ReadClaimed
  <2> QED
    BY <1>5, <2>2, <2>3 DEF ReadClaimed, MailShapes, MailJobs
<1>6. CASE EndSweep(w)
  BY <1>1, <1>6 DEF EndSweep, MailShapes
<1>7. ASSUME NEW m \in Messages, ClaimRow(w, m)
      PROVE  MailShapes'
  <2>1. "SENDING" \in Status /\ "claimed" \in SendingSteps
    BY DEF Status, SendingSteps
  <2>2. mail' \in [Messages -> MailRow]
    BY <1>1, <1>2, <1>7, <2>1, PutType DEF ClaimRow
  <2>3. job' \in [Workers -> [Messages -> MailJobs]]
    BY <1>7, <2>1, GetsType, StepsType, NoJobType DEF ClaimRow
  <2> QED
    BY <1>7, <2>2, <2>3 DEF ClaimRow, MailShapes, MailJobs
<1>8. ASSUME NEW m \in Messages, SuppressAddress(w, m)
      PROVE  MailShapes'
  <2>1. "rejected" \in SendingSteps
    BY DEF SendingSteps
  <2>2. job' \in [Workers -> [Messages -> MailJobs]]
    BY <1>8, <2>1, GetsType, StepsType DEF SuppressAddress
  <2>3. OwnerOf[m] \in People
    BY MailAssumption
  <2> QED
    BY <1>8, <2>2, <2>3 DEF SuppressAddress, MailShapes, MailJobs
<1>9. ASSUME NEW m \in Messages, Settle(w, m)
      PROVE  MailShapes'
  <2>1. job[w][m] \in MailJobs
    BY <1>1
  <2>2. PICK row \in MailRow : Put(m, row)
    BY <1>1, <1>9, <2>1, SettledRow DEF Settled
  <2>3. mail' \in [Messages -> MailRow] /\ job' \in [Workers -> [Messages -> MailJobs]]
    BY <1>9, <2>2, PutType, GetsType, NoJobType DEF Settle
  <2> QED
    BY <1>9, <2>3 DEF Settle, MailShapes, MailJobs
<1>10. ASSUME NEW m \in Messages,
              NEW answer \in {"ok", "again", "rejected", "bad address"}, SendMail(w, m, answer)
       PROVE  MailShapes'
  <2>1. answer \in SendingSteps
    BY DEF SendingSteps
  <2>3. accepted' \subseteq Messages \X Nat
    <3>1. accepted' \in {accepted, accepted \cup {<<m, 0>>}}
      BY <1>10 DEF SendMail, IdempotencyKey
    <3>2. <<m, 0>> \in Messages \X Nat
      OBVIOUS
    <3> QED
      BY <3>1, <3>2 DEF MailShapes
  <2>4. delivered' \in [Messages -> Nat]
    <3>1. delivered \in [Messages -> Nat]
      BY DEF MailShapes
    <3>2. delivered[m] \in Nat /\ delivered[m] + 1 \in Nat
      BY <3>1, OneMore
    <3>3. \/ delivered' = delivered
          \/ delivered' = [delivered EXCEPT ![m] = delivered[m]]
          \/ delivered' = [delivered EXCEPT ![m] = delivered[m] + 1]
      BY <1>10 DEF SendMail
    <3> QED
      BY <3>1, <3>2, <3>3
  <2>2. job' \in [Workers -> [Messages -> MailJobs]]
    <3>1. PICK n \in Nat : Gets(w, m, [job[w][m] EXCEPT !.pc = answer, !.id = n])
      BY <1>10, <2>4 DEF SendMail
    <3>2. [job[w][m] EXCEPT !.pc = answer, !.id = n] \in MailJobs
      <4>1. job[w][m] \in MailJobs
        BY <1>1
      <4> QED
        BY <2>1, <4>1, JobMoves, Zenon
    <3> QED
      BY <3>1, <3>2, GetsType
  <2> QED
    BY <1>10, <2>2, <2>3, <2>4 DEF SendMail, MailShapes, MailJobs
<1> QED
  BY <1>3, <1>4, <1>5, <1>6, <1>7, <1>8, <1>9, <1>10 DEF Sweeping

LEMMA NextMailShapes == MailShapes /\ [MailNext]_mailVars => MailShapes'
<1> SUFFICES ASSUME MailShapes, [MailNext]_mailVars PROVE MailShapes'
  OBVIOUS
<1> USE DEF mailVars, external, history
<1>1. mail \in [Messages -> MailRow]
  BY DEF MailShapes
<1>2. ASSUME NEW w \in Workers, WorkerDies(w)
      PROVE  MailShapes'
  <2>1. job' \in [Workers -> [Messages -> MailJobs]]
    BY <1>2, NoJobType DEF WorkerDies, MailShapes, MailJobs
  <2>2. crashes' \in 0 .. MaxCrashes
    BY <1>2, MailAssumption DEF WorkerDies, MailShapes
  <2> QED
    BY <1>2, <2>1, <2>2 DEF WorkerDies, MailShapes, MailJobs
<1>3. ASSUME NEW m \in Messages, Enqueue(m)
      PROVE  MailShapes'
  <2>1. [NoMail EXCEPT !.status = "QUEUED", !.due = TRUE] \in MailRow
    BY NoMailType DEF MailRow, Status
  <2>2. mail' \in [Messages -> MailRow]
    BY <1>3, <2>1, PutType DEF Enqueue
  <2> QED
    BY <1>3, <2>2 DEF Enqueue, MailShapes
<1>4. ASSUME NEW m \in Messages, BecomesDue(m) \/ Hangs(m)
      PROVE  MailShapes'
  <2>1. [mail[m] EXCEPT !.due = TRUE] \in MailRow /\ [mail[m] EXCEPT !.stuck = TRUE] \in MailRow
    BY <1>1 DEF MailRow
  <2>2. mail' \in [Messages -> MailRow]
    BY <1>1, <1>4, <2>1 DEF BecomesDue, Hangs
  <2> QED
    BY <1>4, <2>2 DEF BecomesDue, Hangs, MailShapes
<1>5. ASSUME NEW m \in Messages, Scrub(m) \/ ReportedFailed(m)
      PROVE  MailShapes'
  <2>3. reported' \subseteq Messages \X Nat
    <3>1. mail[m].id \in Nat
      BY <1>1 DEF MailRow
    <3> QED
      BY <1>5, <3>1 DEF Scrub, ReportedFailed, MailShapes
  <2>1. /\ [mail[m] EXCEPT !.scrubbed = TRUE] \in MailRow
        /\ [mail[m] EXCEPT !.status = "FAILED"] \in MailRow
    BY <1>1 DEF MailRow, Status
  <2>2. mail' \in [Messages -> MailRow]
    BY <1>5, <2>1, PutType DEF Scrub, ReportedFailed
  <2> QED
    BY <1>5, <2>2, <2>3 DEF Scrub, ReportedFailed, MailShapes
<1>6. ASSUME NEW m \in Messages, AskRetry(m)
      PROVE  MailShapes'
  BY <1>6 DEF AskRetry, MailShapes
<1>10. ASSUME NEW m \in Messages, QueueAgain(m)
       PROVE  MailShapes'
  <2>1. [mail[m] EXCEPT !.status = "QUEUED", !.due = TRUE] \in MailRow
    BY <1>1 DEF MailRow, Status
  <2>2. mail' \in [Messages -> MailRow]
    BY <1>1, <1>10, <2>1, PutType DEF QueueAgain
  <2>3. /\ retried \in [Messages -> 0 .. MaxRetries] /\ retried[m] < MaxRetries
        /\ asked \subseteq {n \in Messages : retried[n] < MaxRetries}
    BY <1>10 DEF QueueAgain, MailShapes
  <2>4. \/ retried' = retried
        \/ retried' = [retried EXCEPT ![m] = retried[m] + 1]
    BY <1>10 DEF QueueAgain
  <2>5. retried' \in [Messages -> 0 .. MaxRetries] /\ \A n \in Messages \ {m} : retried'[n] = retried[n]
    BY <2>3, <2>4, MailAssumption
  <2>6. asked' \subseteq {n \in Messages : retried'[n] < MaxRetries}
    BY <1>10, <2>3, <2>5 DEF QueueAgain
  <2> QED
    BY <1>10, <2>2, <2>5, <2>6 DEF QueueAgain, MailShapes
<1>11. ASSUME NEW m \in Messages, KeyLapses(m)
       PROVE  MailShapes'
  <2>1. lapses \in [Messages -> 0 .. MaxLapses] /\ lapses[m] + 1 \in 0 .. MaxLapses
    BY <1>11, MailAssumption DEF KeyLapses, MailShapes
  <2>2. lapses' \in [Messages -> 0 .. MaxLapses]
    BY <1>11, <2>1 DEF KeyLapses
  <2> QED
    BY <1>11, <2>2 DEF KeyLapses, MailShapes
<1>7. ASSUME NEW p \in People, Bounced(p)
      PROVE  MailShapes'
  BY <1>7 DEF Bounced, MailShapes
<1>8. ASSUME NEW p \in People, RemoveAccount(p)
      PROVE  MailShapes'
  <2>1. ASSUME NEW m \in Messages
        PROVE  [mail[m] EXCEPT !.status = "SKIPPED", !.stuck = FALSE] \in MailRow
    BY <1>1 DEF MailRow, Status
  <2>2. mail' \in [Messages -> MailRow]
    BY <1>1, <1>8, <2>1 DEF RemoveAccount
  <2>3. silenced' \subseteq Messages
    BY <1>8 DEF RemoveAccount, MailShapes
  <2> QED
    BY <1>8, <2>2, <2>3 DEF RemoveAccount, MailShapes
<1>9. CASE UNCHANGED mailVars
  BY <1>9 DEF MailShapes
<1> QED
  BY <1>2, <1>3, <1>4, <1>5, <1>6, <1>7, <1>8, <1>9, <1>10, <1>11, SweepingShapes
     DEF MailNext

LEMMA MailShapesHold == MailSpec => []MailShapes
  BY InitMailShapes, NextMailShapes, PTL DEF MailSpec

\* A row as WithinBudget wants it, of a message the panel has sent again n times.
InBudget(row, n) ==
  /\ row.attempts <= MaxAttempts + n
  /\ row.status \in {"QUEUED", "SENDING"} => row.attempts < MaxAttempts + n

\* A step that adds no attempt, or one that writes one row within its budget.
LEMMA BudgetKept ==
  ASSUME MailShapes, MailShapes', WithinBudget,
         \A m \in Messages :
           /\ retried'[m] = retried[m]
           /\ \/ InBudget(mail'[m], retried[m])
              \/ /\ mail'[m].attempts = mail[m].attempts
                 /\ mail'[m].status \in {"QUEUED", "SENDING"} => mail[m].status \in {"QUEUED", "SENDING"}
           /\ \A w \in Workers :
                \/ job'[w][m].attempts \in {0, job[w][m].attempts}
                \/ job'[w][m].attempts = mail[m].attempts /\ mail[m].status = "SENDING"
  PROVE  WithinBudget'
<1> SUFFICES ASSUME NEW m \in Messages
             PROVE  /\ InBudget(mail'[m], retried'[m])
                    /\ \A w \in Workers : job'[w][m].attempts < MaxAttempts + retried'[m]
  BY DEF WithinBudget, InBudget
<1>1. InBudget(mail[m], retried[m])
  BY DEF WithinBudget, InBudget
<1>2. 0 < MaxAttempts + retried[m]
  BY MailAssumption DEF MailShapes
<1>3. ASSUME NEW w \in Workers
      PROVE  job'[w][m].attempts < MaxAttempts + retried'[m]
  <2>1. job[w][m].attempts < MaxAttempts + retried[m]
    BY DEF WithinBudget
  <2> QED
    BY <1>1, <1>2, <2>1 DEF InBudget
<1> QED
  BY <1>1, <1>3 DEF InBudget

\* What is left of a row when its status or the marks of retention are written.
LEMMA RowAfter ==
  ASSUME MailShapes, NEW m \in Messages, NEW status
  PROVE  /\ Put(m, [mail[m] EXCEPT !.status = status]) =>
              mail'[m].status = status /\ mail'[m].attempts = mail[m].attempts
         /\ Put(m, [mail[m] EXCEPT !.scrubbed = TRUE]) =>
              mail'[m].status = mail[m].status /\ mail'[m].attempts = mail[m].attempts
         /\ \A row : Put(m, row) => \A n \in Messages \ {m} : mail'[n] = mail[n]
<1>1. mail \in [Messages -> MailRow] /\ mail[m] \in MailRow
  BY DEF MailShapes
<1> QED
  BY <1>1 DEF Put, MailRow

LEMMA SweepingBudget ==
  ASSUME MailShapes, MailShapes', WithinBudget, NEW w \in Workers, Sweeping(w)
  PROVE  WithinBudget'
<1>1. /\ mail \in [Messages -> MailRow] /\ job \in [Workers -> [Messages -> MailJobs]]
      /\ UNCHANGED retried
  BY DEF MailShapes, MailJobs, Sweeping, RecoverStuck, ListDue, ReadClaimed, EndSweep,
         ClaimRow, SuppressAddress, Settle, SendMail, history
<1>2. CASE RecoverStuck(w)
  <2>1. \A m \in Messages :
          /\ mail'[m].attempts = mail[m].attempts
          /\ mail'[m].status \in {"QUEUED", "SENDING"} => mail[m].status \in {"QUEUED", "SENDING"}
    BY <1>1, <1>2 DEF RecoverStuck, Lost, MailRow
  <2> QED
    BY <1>1, <1>2, <2>1, BudgetKept DEF RecoverStuck
<1>3. CASE ListDue(w)
  <2>1. \A m \in Messages, v \in Workers : job'[v][m].attempts \in {0, job[v][m].attempts}
    BY <1>1, <1>3 DEF ListDue, NoJob
  <2> QED
    BY <1>1, <1>3, <2>1, BudgetKept DEF ListDue
<1>4. CASE ReadClaimed(w)
  <2>1. ASSUME NEW m \in Messages, NEW v \in Workers
        PROVE  \/ job'[v][m].attempts \in {0, job[v][m].attempts}
               \/ job'[v][m].attempts = mail[m].attempts /\ mail[m].status = "SENDING"
    <3>1. CASE v = w
      BY <1>1, <1>4, <3>1 DEF ReadClaimed, NoJob
    <3>2. CASE v # w
      BY <1>1, <1>4, <3>2 DEF ReadClaimed
    <3> QED
      BY <3>1, <3>2
  <2> QED
    BY <1>1, <1>4, <2>1, BudgetKept DEF ReadClaimed
<1>5. CASE EndSweep(w)
  BY <1>1, <1>5, BudgetKept DEF EndSweep
<1>6. ASSUME NEW m \in Messages, NEW j \in MailJobs, Gets(w, m, j),
             j.attempts \in {0, job[w][m].attempts}
      PROVE  \A n \in Messages, v \in Workers : job'[v][n].attempts \in {0, job[v][n].attempts}
  BY <1>1, <1>6 DEF Gets
<1>7. ASSUME NEW m \in Messages, ClaimRow(w, m)
      PROVE  WithinBudget'
  <2>1. [NoJob EXCEPT !.pc = "claimed"] \in MailJobs /\ [NoJob EXCEPT !.pc = "claimed"].attempts = 0
        /\ NoJob \in MailJobs /\ NoJob.attempts = 0
    BY NoJobType DEF NoJob, MailJobs, SendingSteps
  <2>2. \A n \in Messages, v \in Workers : job'[v][n].attempts \in {0, job[v][n].attempts}
    BY <1>6, <1>7, <2>1 DEF ClaimRow
  <2>3. \A n \in Messages :
          /\ mail'[n].attempts = mail[n].attempts
          /\ mail'[n].status \in {"QUEUED", "SENDING"} => mail[n].status \in {"QUEUED", "SENDING"}
    BY <1>7, RowAfter DEF ClaimRow, Claimable
  <2> QED
    BY <1>1, <2>2, <2>3, BudgetKept
<1>8. ASSUME NEW m \in Messages,
             \/ SuppressAddress(w, m)
             \/ \E answer \in {"ok", "again", "rejected", "bad address"} : SendMail(w, m, answer)
      PROVE  WithinBudget'
  <2>1. PICK pc \in SendingSteps, n \in Nat :
          Gets(w, m, [job[w][m] EXCEPT !.pc = pc, !.id = n])
    <3>1. CASE SuppressAddress(w, m)
      <4>1. job[w][m].id \in Nat
            /\ [job[w][m] EXCEPT !.pc = "rejected", !.id = job[w][m].id]
                 = [job[w][m] EXCEPT !.pc = "rejected"]
        BY <1>1 DEF MailJobs
      <4> QED
        BY <3>1, <4>1 DEF SuppressAddress, SendingSteps
    <3>2. CASE \E answer \in {"ok", "again", "rejected", "bad address"} : SendMail(w, m, answer)
      <4>1. delivered'[m] \in Nat
        BY DEF MailShapes
      <4> QED
        BY <3>2, <4>1 DEF SendMail, SendingSteps
    <3> QED
      BY <1>8, <3>1, <3>2
  <2>2. [job[w][m] EXCEPT !.pc = pc, !.id = n] \in MailJobs
        /\ [job[w][m] EXCEPT !.pc = pc, !.id = n].attempts = job[w][m].attempts
    <3>1. job[w][m] \in MailJobs
      BY <1>1
    <3> QED
      BY <3>1, JobMoves, Zenon
  <2>3. \A k \in Messages, v \in Workers : job'[v][k].attempts \in {0, job[v][k].attempts}
    BY <1>6, <2>1, <2>2
  <2> QED
    BY <1>1, <1>8, <2>3, BudgetKept DEF SuppressAddress, SendMail
<1>9. ASSUME NEW m \in Messages, Settle(w, m)
      PROVE  WithinBudget'
  <2>1. PICK row : Settled(w, m, row)
    BY <1>9, SettledRow
  <2>2. NoJob \in MailJobs /\ NoJob.attempts = 0
    BY NoJobType DEF NoJob
  <2>3. \A n \in Messages, v \in Workers : job'[v][n].attempts \in {0, job[v][n].attempts}
    BY <1>6, <2>1, <2>2 DEF Settled
  <2>4. mail'[m].attempts = row.attempts /\ mail'[m].status = row.status
        /\ \A n \in Messages \ {m} : mail'[n] = mail[n]
    BY <1>1, <2>1 DEF Settled, Put, MailRow
  <2>5. InBudget(mail'[m], retried[m])
    <3>1. job[w][m].attempts \in Nat /\ job[w][m].attempts < MaxAttempts + retried[m]
      BY <1>1 DEF WithinBudget, MailJobs
    <3>2. retried[m] \in Nat /\ MaxAttempts \in Nat
      BY MailAssumption DEF MailShapes
    <3>3. row.attempts = job[w][m].attempts + 1 /\ row.status \in {"SENT", "QUEUED", "FAILED"}
          /\ (row.status = "QUEUED" => row.attempts < MaxAttempts)
      BY <2>1 DEF Settled
    <3> QED
      BY <2>4, <3>1, <3>2, <3>3 DEF InBudget
  <2> QED
    BY <1>1, <2>3, <2>4, <2>5, BudgetKept
<1> QED
  BY <1>2, <1>3, <1>4, <1>5, <1>7, <1>8, <1>9 DEF Sweeping

LEMMA NextBudget ==
  MailShapes /\ MailShapes' /\ WithinBudget /\ [MailNext]_mailVars => WithinBudget'
<1> SUFFICES ASSUME MailShapes, MailShapes', WithinBudget, [MailNext]_mailVars PROVE WithinBudget'
  OBVIOUS
<1>1. mail \in [Messages -> MailRow] /\ job \in [Workers -> [Messages -> MailJobs]]
  BY DEF MailShapes, MailJobs
<1>2. ASSUME UNCHANGED <<mail, job, retried>>
      PROVE  WithinBudget'
  BY <1>2 DEF WithinBudget
<1>3. ASSUME NEW w \in Workers, WorkerDies(w)
      PROVE  WithinBudget'
  <2>1. \A m \in Messages, v \in Workers : job'[v][m].attempts \in {0, job[v][m].attempts}
    BY <1>1, <1>3 DEF WorkerDies, NoJob
  <2> QED
    BY <1>3, <2>1, BudgetKept DEF WorkerDies
<1>4. ASSUME NEW m \in Messages, Enqueue(m)
      PROVE  WithinBudget'
  <2>1. mail'[m].attempts = 0 /\ \A n \in Messages \ {m} : mail'[n] = mail[n]
    BY <1>1, <1>4 DEF Enqueue, Put, NoMail
  <2>2. InBudget(mail'[m], retried[m])
    BY <2>1, MailAssumption DEF InBudget, MailShapes
  <2> QED
    BY <1>4, <2>1, <2>2, BudgetKept DEF Enqueue, history
<1>5. ASSUME NEW m \in Messages, BecomesDue(m) \/ Hangs(m) \/ Scrub(m) \/ ReportedFailed(m)
      PROVE  WithinBudget'
  <2>1. \A n \in Messages :
          /\ mail'[n].attempts = mail[n].attempts
          /\ mail'[n].status \in {"QUEUED", "SENDING"} => mail[n].status \in {"QUEUED", "SENDING"}
    <3>1. CASE BecomesDue(m) \/ Hangs(m)
      <4>1. \/ mail' = [mail EXCEPT ![m] = [mail[m] EXCEPT !.due = TRUE]]
            \/ mail' = [mail EXCEPT ![m] = [mail[m] EXCEPT !.stuck = TRUE]]
        BY <3>1 DEF BecomesDue, Hangs
      <4> QED
        BY <1>1, <4>1 DEF MailRow
    <3>2. CASE Scrub(m) \/ ReportedFailed(m)
      BY <3>2, RowAfter DEF Scrub, ReportedFailed
    <3> QED
      BY <1>5, <3>1, <3>2
  <2> QED
    BY <1>5, <2>1, BudgetKept DEF BecomesDue, Hangs, Scrub, ReportedFailed, history
<1>6. ASSUME NEW m \in Messages, QueueAgain(m)
      PROVE  WithinBudget'
  <2>1. CASE UNCHANGED <<mail, retried>>
    BY <1>2, <1>6, <2>1 DEF QueueAgain
  <2>2. CASE /\ Put(m, [mail[m] EXCEPT !.status = "QUEUED", !.due = TRUE])
             /\ retried' = [retried EXCEPT ![m] = @ + 1]
    <3>1. /\ mail'[m].attempts = mail[m].attempts
          /\ \A n \in Messages \ {m} : mail'[n] = mail[n]
      BY <1>1, <2>2 DEF Put, MailRow
    <3>2. /\ retried[m] \in Nat /\ retried'[m] = retried[m] + 1
          /\ \A n \in Messages \ {m} : retried'[n] = retried[n]
      BY <2>2, MailAssumption DEF MailShapes
    <3>3. mail[m].attempts <= MaxAttempts + retried[m] /\ mail[m].attempts \in Nat /\ MaxAttempts \in Nat
      BY <1>1, MailAssumption DEF WithinBudget, MailRow
    <3>4. \A v \in Workers : job[v][m].attempts \in Nat /\ job[v][m].attempts < MaxAttempts + retried[m]
      BY <1>1 DEF WithinBudget, MailJobs
    <3>5. UNCHANGED job
      BY <1>6 DEF QueueAgain
    <3>6. InBudget(mail'[m], retried'[m])
          /\ \A v \in Workers : job'[v][m].attempts < MaxAttempts + retried'[m]
      BY <3>1, <3>2, <3>3, <3>4, <3>5 DEF InBudget
    <3> QED
      BY <3>1, <3>2, <3>5, <3>6 DEF WithinBudget, InBudget
  <2> QED
    BY <1>6, <2>1, <2>2 DEF QueueAgain
<1>7. ASSUME NEW p \in People, RemoveAccount(p)
      PROVE  WithinBudget'
  <2>1. \A n \in Messages :
          /\ mail'[n].attempts = mail[n].attempts
          /\ mail'[n].status \in {"QUEUED", "SENDING"} => mail[n].status \in {"QUEUED", "SENDING"}
    BY <1>1, <1>7 DEF RemoveAccount, MailRow
  <2> QED
    BY <1>7, <2>1, BudgetKept DEF RemoveAccount
<1>8. ASSUME \/ \E m \in Messages : AskRetry(m) \/ KeyLapses(m)
             \/ \E p \in People : Bounced(p)
             \/ UNCHANGED mailVars
      PROVE  WithinBudget'
  BY <1>2, <1>8 DEF AskRetry, KeyLapses, Bounced, mailVars, history
<1> QED
  BY <1>3, <1>4, <1>5, <1>6, <1>7, <1>8, SweepingBudget DEF MailNext

\* Every variable of the outbox stays in its domain, and no message has more attempts
\* than its budget and one for each time the panel sent it again, whoever sweeps, is
\* overtaken, dies or reports meanwhile.
THEOREM MailTypes == MailSpec => []MailTypeOK
<1>1. MailInit => WithinBudget
  BY MailAssumption DEF MailInit, WithinBudget, NoMail, NoJob
<1>2. MailSpec => []WithinBudget
  BY <1>1, MailShapesHold, NextBudget, PTL DEF MailSpec
<1>3. MailShapes /\ WithinBudget => MailTypeOK
  BY DEF MailTypeOK
<1> QED
  BY <1>2, <1>3, MailShapesHold, PTL

-----------------------------------------------------------------------------
(* Mail: how often it leaves                                               *)

\* The key of the message, whichever attempt it is.
KeyOf(m) == <<m, 0>>

\* A message has left once for each time its key lapsed, and once more under a key
\* the provider still remembers.
DeliveryKnown ==
  \A m \in Messages :
    \/ delivered[m] <= lapses[m]
    \/ delivered[m] = lapses[m] + 1 /\ KeyOf(m) \in accepted

\* One that was never late nor sent again has left once at most, and is done with
\* once its key lapsed.
RestedOn(m) ==
  m \notin late /\ retried[m] = 0 => delivered[m] <= 1 /\ (lapses[m] > 0 => AtRest(m))

CopiesInv == DeliveryKnown /\ \A m \in Messages : RestedOn(m)

\* Steps that only let a worker drop a message, and leave one that is done with.
Rests(m) ==
  /\ delivered'[m] = delivered[m] /\ lapses'[m] = lapses[m]
  /\ m \in late => m \in late'
  /\ retried[m] # 0 => retried'[m] # 0
  /\ retried'[m] = 0 /\ AtRest(m) => AtRest(m)'

LEMMA RestsOn == ASSUME NEW m \in Messages, RestedOn(m), Rests(m) PROVE RestedOn(m)'
  BY DEF RestedOn, Rests

\* A step of a worker about one message it has, or that leaves it.
LEMMA SweepingRests ==
  ASSUME MailShapes, NEW w \in Workers, Sweeping(w), UNCHANGED <<accepted, delivered>>
  PROVE  \A m \in Messages : Rests(m)
<1> SUFFICES ASSUME NEW m \in Messages PROVE Rests(m)
  OBVIOUS
<1>1. /\ mail \in [Messages -> MailRow] /\ job \in [Workers -> [Messages -> MailJobs]]
      /\ UNCHANGED <<retried, lapses, late>>
  BY DEF MailShapes, MailJobs, Sweeping, RecoverStuck, ListDue, ReadClaimed, EndSweep,
         ClaimRow, SuppressAddress, Settle, SendMail, history, external
<1> SUFFICES ASSUME AtRest(m) PROVE AtRest(m)'
  BY <1>1 DEF Rests
<1>2. mail[m].status \in {"SENT", "FAILED", "SKIPPED"} /\ \A v \in Workers : ~InHand(v, m)
  BY DEF AtRest
<1>3. CASE RecoverStuck(w)
  <2>1. mail'[m] = mail[m] /\ UNCHANGED job
    BY <1>2, <1>3 DEF RecoverStuck, Lost
  <2> QED
    BY <1>2, <2>1 DEF AtRest, InHand
<1>4. CASE ListDue(w)
  <2>1. job'[w][m].pc \in {"none", "listed"} /\ \A v \in Workers \ {w} : job'[v] = job[v]
    BY <1>1, <1>4 DEF ListDue, NoJob
  <2> QED
    BY <1>2, <1>4, <2>1 DEF AtRest, InHand, ListDue
<1>5. CASE ReadClaimed(w)
  <2>1. job'[w][m].pc \in {"none", "listed"} /\ \A v \in Workers \ {w} : job'[v] = job[v]
    BY <1>1, <1>2, <1>5 DEF ReadClaimed, NoJob, InHand
  <2> QED
    BY <1>2, <1>5, <2>1 DEF AtRest, InHand, ReadClaimed
<1>6. CASE EndSweep(w)
  BY <1>2, <1>6 DEF EndSweep, AtRest, InHand
<1>7. ASSUME NEW n \in Messages, NEW j, Gets(w, n, j), n # m
      PROVE  \A v \in Workers : ~InHand(v, m)'
  BY <1>1, <1>2, <1>7 DEF Gets, InHand
<1>8. ASSUME NEW n \in Messages, ClaimRow(w, n)
      PROVE  AtRest(m)'
  <2>1. CASE n = m
    <3>1. Gets(w, m, NoJob) /\ UNCHANGED mail
      BY <1>2, <1>8, <2>1 DEF ClaimRow, Claimable
    <3>2. job'[w][m] = NoJob /\ \A v \in Workers \ {w} : job'[v] = job[v]
      BY <1>1, <3>1 DEF Gets
    <3>3. \A v \in Workers : ~InHand(v, m)'
      BY <1>2, <3>2 DEF InHand, NoJob
    <3> QED
      BY <1>2, <3>1, <3>3 DEF AtRest
  <2>2. CASE n # m
    <3>1. mail'[m] = mail[m]
      BY <1>1, <1>8, <2>2 DEF ClaimRow, Put
    <3> QED
      BY <1>2, <1>7, <1>8, <2>2, <3>1 DEF ClaimRow, AtRest
  <2> QED
    BY <2>1, <2>2
<1>9. ASSUME NEW n \in Messages,
             \/ SuppressAddress(w, n) \/ Settle(w, n)
             \/ \E answer \in {"ok", "again", "rejected", "bad address"} : SendMail(w, n, answer)
      PROVE  AtRest(m)'
  <2>1. n # m
    BY <1>2, <1>9 DEF SuppressAddress, Settle, SendMail, InHand
  <2>2. mail'[m] = mail[m]
    BY <1>1, <1>9, <2>1 DEF SuppressAddress, Settle, SendMail, Put
  <2>3. \E j : Gets(w, n, j)
    BY <1>9 DEF SuppressAddress, Settle, SendMail
  <2> QED
    BY <1>2, <1>7, <2>1, <2>2, <2>3 DEF AtRest
<1> QED
  BY <1>3, <1>4, <1>5, <1>6, <1>8, <1>9 DEF Sweeping

\* The provider accepts a message, and sends it unless it remembers the key.
Goes(m) ==
  /\ accepted' = accepted \cup {KeyOf(m)}
  /\ delivered' = [delivered EXCEPT ![m] = IF KeyOf(m) \in accepted THEN @ ELSE @ + 1]

LEMMA OneMoreCopy ==
  ASSUME NEW a \in Nat, NEW b \in Nat
  PROVE  /\ a + 1 \in Nat
         /\ a <= b => a + 1 <= b \/ a + 1 = b + 1
         /\ a <= 0 \/ a = 0 + 1 => a <= 1
         /\ ~(b > 0) => b = 0
  OBVIOUS

LEMMA CopyTypes ==
  ASSUME MailShapes
  PROVE  /\ mail \in [Messages -> MailRow] /\ job \in [Workers -> [Messages -> MailJobs]]
         /\ delivered \in [Messages -> Nat] /\ lapses \in [Messages -> Nat]
         /\ retried \in [Messages -> Nat]
<1>1. \A n \in 0 .. MaxLapses : n \in Nat
  BY MailAssumption
<1>2. \A n \in 0 .. MaxRetries : n \in Nat
  BY MailAssumption
<1> QED
  BY <1>1, <1>2 DEF MailShapes, MailJobs

LEMMA SendingCopies ==
  ASSUME MailShapes, CopiesInv, NEW w \in Workers, NEW m \in Messages,
         NEW answer \in {"ok", "again", "rejected", "bad address"}, SendMail(w, m, answer),
         Goes(m)
  PROVE  CopiesInv'
<1>1. /\ delivered \in [Messages -> Nat] /\ lapses \in [Messages -> Nat]
      /\ job \in [Workers -> [Messages -> MailJobs]]
      /\ delivered[m] \in Nat /\ lapses[m] \in Nat
  BY CopyTypes
<1>2. /\ accepted' = accepted \cup {KeyOf(m)}
      /\ delivered' = [delivered EXCEPT ![m] = IF KeyOf(m) \in accepted THEN @ ELSE @ + 1]
      /\ UNCHANGED <<lapses, mail, retried, late>>
  BY DEF Goes, SendMail, history
<1>3. /\ KeyOf(m) \in accepted => delivered'[m] = delivered[m]
      /\ KeyOf(m) \notin accepted => delivered'[m] = delivered[m] + 1
      /\ \A n \in Messages \ {m} : delivered'[n] = delivered[n]
  BY <1>1, <1>2
<1>4. delivered[m] <= lapses[m] \/ (delivered[m] = lapses[m] + 1 /\ KeyOf(m) \in accepted)
  BY DEF CopiesInv, DeliveryKnown
<1>5. delivered'[m] <= lapses[m] \/ delivered'[m] = lapses[m] + 1
  <2>1. CASE KeyOf(m) \in accepted
    BY <1>3, <1>4, <2>1, Zenon
  <2>2. CASE KeyOf(m) \notin accepted
    <3>1. delivered[m] <= lapses[m] /\ delivered'[m] = delivered[m] + 1
      BY <1>3, <1>4, <2>2, Zenon
    <3>2. delivered[m] + 1 <= lapses[m] \/ delivered[m] + 1 = lapses[m] + 1
      BY <1>1, <3>1, OneMoreCopy, Zenon
    <3> QED
      BY <3>1, <3>2, Zenon
  <2> QED
    BY <2>1, <2>2
<1>6. DeliveryKnown'
  <2> SUFFICES ASSUME NEW n \in Messages
               PROVE  \/ delivered'[n] <= lapses'[n]
                      \/ delivered'[n] = lapses'[n] + 1 /\ KeyOf(n) \in accepted'
    BY DEF DeliveryKnown
  <2>1. CASE n = m
    <3>1. KeyOf(m) \in accepted' /\ lapses' = lapses
      BY <1>2
    <3> QED
      BY <1>5, <2>1, <3>1, Zenon
  <2>2. CASE n # m
    BY <1>2, <1>3, <2>2 DEF CopiesInv, DeliveryKnown
  <2> QED
    BY <2>1, <2>2
<1>7. InHand(w, m)
  BY DEF SendMail, InHand
<1>8. ASSUME NEW n \in Messages
      PROVE  RestedOn(n)'
  <2>1. CASE n = m
    <3> SUFFICES ASSUME m \notin late, retried[m] = 0
                 PROVE  delivered'[m] <= 1 /\ (lapses[m] > 0 => AtRest(m)')
      BY <1>2, <2>1 DEF RestedOn
    <3>1. ~AtRest(m)
      BY <1>7 DEF AtRest
    <3>2. ~(lapses[m] > 0)
      BY <3>1 DEF CopiesInv, RestedOn
    <3>3. lapses[m] = 0
      BY <1>1, <3>2, OneMoreCopy, Zenon
    <3>4. delivered'[m] <= 1
      <4>1. delivered'[m] <= 0 \/ delivered'[m] = 0 + 1
        BY <1>5, <3>3, Zenon
      <4>2. delivered'[m] \in Nat
        BY <1>1, <1>3, OneMoreCopy, Zenon
      <4> QED
        BY <4>1, <4>2, OneMoreCopy, Zenon
    <3> QED
      BY <3>2, <3>4
  <2>2. CASE n # m
    <3>1. \A v \in Workers : job'[v][n] = job[v][n]
      BY <1>1, <2>2 DEF SendMail, Gets
    <3>2. Rests(n)
      BY <1>2, <1>3, <2>2, <3>1 DEF Rests, AtRest, InHand
    <3> QED
      BY <3>2, RestsOn DEF CopiesInv
  <2> QED
    BY <2>1, <2>2
<1> QED
  BY <1>6, <1>8 DEF CopiesInv

LEMMA NextCopies == MailShapes /\ CopiesInv /\ [MailNext]_mailVars => CopiesInv'
<1> SUFFICES ASSUME MailShapes, CopiesInv, [MailNext]_mailVars PROVE CopiesInv'
  OBVIOUS
<1>1. /\ mail \in [Messages -> MailRow] /\ job \in [Workers -> [Messages -> MailJobs]]
      /\ lapses \in [Messages -> Nat] /\ delivered \in [Messages -> Nat]
      /\ retried \in [Messages -> Nat]
  BY CopyTypes
<1>2. ASSUME \A m \in Messages : Rests(m), UNCHANGED <<accepted, delivered, lapses>>
      PROVE  CopiesInv'
  <2>1. DeliveryKnown'
    BY <1>2 DEF CopiesInv, DeliveryKnown
  <2> QED
    BY <1>2, <2>1, RestsOn DEF CopiesInv
<1>3. ASSUME NEW w \in Workers, Sweeping(w)
      PROVE  CopiesInv'
  <2>1. CASE UNCHANGED <<accepted, delivered>>
    <3>1. UNCHANGED lapses
      BY <1>3 DEF Sweeping, RecoverStuck, ListDue, ReadClaimed, EndSweep, ClaimRow,
                  SuppressAddress, Settle, SendMail, external
    <3> QED
      BY <1>2, <1>3, <2>1, <3>1, SweepingRests
  <2>2. CASE ~UNCHANGED <<accepted, delivered>>
    <3>1. \E m \in Messages, answer \in {"ok", "again", "rejected", "bad address"} :
            SendMail(w, m, answer) /\ Goes(m)
      BY <1>3, <2>2 DEF Sweeping, RecoverStuck, ListDue, ReadClaimed, EndSweep, ClaimRow,
                        SuppressAddress, Settle, SendMail, IdempotencyKey, KeyOf, Goes, external
    <3> QED
      BY <2>2, <3>1, SendingCopies
  <2> QED
    BY <2>1, <2>2
<1>4. ASSUME NEW m \in Messages, KeyLapses(m)
      PROVE  CopiesInv'
  <2>1. /\ lapses' = [lapses EXCEPT ![m] = @ + 1]
        /\ accepted' = {key \in accepted : key[1] # m}
        /\ late' = IF AtRest(m) THEN late ELSE late \cup {m}
        /\ UNCHANGED <<mail, job, delivered, retried>>
    BY <1>4 DEF KeyLapses
  <2>2. lapses'[m] = lapses[m] + 1 /\ \A n \in Messages \ {m} : lapses'[n] = lapses[n]
    BY <1>1, <2>1
  <2>3. \A n \in Messages \ {m} : KeyOf(n) \in accepted => KeyOf(n) \in accepted'
    BY <2>1 DEF KeyOf
  <2>4. ASSUME NEW n \in Messages
        PROVE  \/ delivered'[n] <= lapses'[n]
               \/ delivered'[n] = lapses'[n] + 1 /\ KeyOf(n) \in accepted'
    <3>1. delivered[n] <= lapses[n] \/ (delivered[n] = lapses[n] + 1 /\ KeyOf(n) \in accepted)
      BY DEF CopiesInv, DeliveryKnown
    <3> QED
      BY <1>1, <2>1, <2>2, <2>3, <3>1
  <2>5. ASSUME NEW n \in Messages
        PROVE  RestedOn(n)'
    <3>1. RestedOn(n)
      BY DEF CopiesInv
    <3>2. AtRest(n)' <=> AtRest(n)
      BY <2>1 DEF AtRest, InHand
    <3>3. CASE n = m
      BY <2>1, <3>1, <3>2, <3>3 DEF RestedOn
    <3>4. CASE n # m
      BY <2>1, <2>2, <3>1, <3>2, <3>4 DEF RestedOn
    <3> QED
      BY <3>3, <3>4
  <2> QED
    BY <2>4, <2>5 DEF CopiesInv, DeliveryKnown
<1>5. ASSUME NEW w \in Workers, WorkerDies(w)
      PROVE  CopiesInv'
  <2>1. ASSUME NEW m \in Messages, NEW v \in Workers, InHand(v, m)'
        PROVE  InHand(v, m)
    BY <1>1, <1>5, <2>1 DEF WorkerDies, InHand, NoJob
  <2> QED
    BY <1>2, <1>5, <2>1 DEF WorkerDies, Rests, AtRest, external
<1>6. ASSUME NEW m \in Messages,
             \/ Enqueue(m) \/ BecomesDue(m) \/ Hangs(m) \/ Scrub(m) \/ ReportedFailed(m)
             \/ AskRetry(m) \/ QueueAgain(m)
      PROVE  CopiesInv'
  <2>1. UNCHANGED <<accepted, delivered, lapses, late, job>>
    BY <1>6 DEF Enqueue, BecomesDue, Hangs, Scrub, ReportedFailed, AskRetry, QueueAgain,
                external, history
  <2>2. \A n \in Messages : n # m => mail'[n] = mail[n] /\ retried'[n] = retried[n]
    BY <1>1, <1>6 DEF Enqueue, BecomesDue, Hangs, Scrub, ReportedFailed, AskRetry, QueueAgain,
                      Put, history
  <2>3. retried' = retried \/ retried'[m] = retried[m] + 1
    BY <1>1, <1>6 DEF Enqueue, BecomesDue, Hangs, Scrub, ReportedFailed, AskRetry, QueueAgain,
                      history
  <2>4. retried'[m] = 0 /\ AtRest(m) => AtRest(m)'
    <3> SUFFICES ASSUME retried'[m] = 0, AtRest(m)
                 PROVE  mail'[m].status \in {"SENT", "FAILED", "SKIPPED"}
      BY <2>1 DEF AtRest, InHand
    <3>1. mail[m].status \in {"SENT", "FAILED", "SKIPPED"} /\ mail[m] \in MailRow
      BY <1>1 DEF AtRest
    <3>2. CASE QueueAgain(m)
      BY <1>1, <3>1, <3>2 DEF QueueAgain
    <3>3. CASE Enqueue(m) \/ BecomesDue(m) \/ Hangs(m)
      BY <3>1, <3>3 DEF Enqueue, BecomesDue, Hangs
    <3>4. CASE Scrub(m) \/ ReportedFailed(m)
      <4>1. mail'[m].status \in {mail[m].status, "FAILED"}
        BY <1>1, <3>1, <3>4, RowAfter DEF Scrub, ReportedFailed
      <4> QED
        BY <3>1, <4>1
    <3>5. CASE AskRetry(m)
      BY <3>1, <3>5 DEF AskRetry
    <3> QED
      BY <1>6, <3>2, <3>3, <3>4, <3>5
  <2>5. \A n \in Messages : Rests(n)
    <3> SUFFICES ASSUME NEW n \in Messages PROVE Rests(n)
      OBVIOUS
    <3>1. CASE n = m
      BY <1>1, <2>1, <2>3, <2>4, <3>1 DEF Rests
    <3>2. CASE n # m
      BY <2>1, <2>2, <3>2 DEF Rests, AtRest, InHand
    <3> QED
      BY <3>1, <3>2
  <2> QED
    BY <1>2, <2>1, <2>5
<1>7. ASSUME NEW p \in People, RemoveAccount(p)
      PROVE  CopiesInv'
  <2>1. UNCHANGED <<accepted, delivered, lapses, late, retried, job>>
    BY <1>7 DEF RemoveAccount, external
  <2>2. ASSUME NEW m \in Messages, AtRest(m)
        PROVE  AtRest(m)'
    <3>1. mail'[m] = mail[m]
      BY <1>7, <2>2 DEF RemoveAccount, AtRest
    <3> QED
      BY <2>1, <2>2, <3>1 DEF AtRest, InHand
  <2> QED
    BY <1>2, <2>1, <2>2 DEF Rests
<1>8. ASSUME (\E p \in People : Bounced(p)) \/ UNCHANGED mailVars
      PROVE  CopiesInv'
  <2>1. UNCHANGED <<mail, accepted, delivered, lapses, late, retried, job>>
    BY <1>8 DEF Bounced, mailVars, external, history
  <2> QED
    BY <1>2, <2>1 DEF Rests, AtRest, InHand
<1> QED
  BY <1>3, <1>4, <1>5, <1>6, <1>7, <1>8 DEF MailNext

\* However often a message is claimed, taken for lost, reported and queued again, it
\* leaves once for each day its key is remembered, and no second time unless the panel
\* sent it again or it was under way for a day: every attempt has the same key.
THEOREM CopiesHaveCauses == MailSpec => []OneCopyPerKey
<1>1. MailInit => CopiesInv
  BY DEF MailInit, CopiesInv, DeliveryKnown, RestedOn
<1>2. MailSpec => []CopiesInv
  BY <1>1, MailShapesHold, NextCopies, PTL DEF MailSpec
<1>3. MailShapes /\ CopiesInv => OneCopyPerKey
  <2> SUFFICES ASSUME MailShapes, CopiesInv, NEW m \in Messages
               PROVE  /\ delivered[m] <= 1 + lapses[m]
                      /\ delivered[m] > 1 => retried[m] > 0 \/ m \in late
    BY DEF OneCopyPerKey
  <2>1. delivered[m] \in Nat /\ lapses[m] \in Nat /\ retried[m] \in Nat
    BY MailAssumption DEF MailShapes
  <2>2. delivered[m] <= lapses[m] \/ delivered[m] = lapses[m] + 1
    BY DEF CopiesInv, DeliveryKnown
  <2>3. m \notin late /\ retried[m] = 0 => delivered[m] <= 1
    BY DEF CopiesInv, RestedOn
  <2> QED
    BY <2>1, <2>2, <2>3
<1> QED
  BY <1>2, <1>3, MailShapesHold, PTL

-----------------------------------------------------------------------------
(* Mail: what the removal of an account skipped                            *)

\* As long as nobody took a message of a living worker for a lost one: a worker
\* has it only while it is being sent, and one worker at a time; once the provider
\* has answered it is SENT until a failure is reported; what was skipped stays so.
Untouched(m) ==
  /\ \A w \in Workers : InHand(w, m) => mail[m].status = "SENDING"
  /\ \A v, w \in Workers : InHand(v, m) /\ InHand(w, m) => v = w
  /\ mail[m].id # 0 /\ <<m, mail[m].id>> \notin reported => mail[m].status = "SENT"
  /\ m \in silenced => mail[m].status = "SKIPPED"

QuietInv == \A m \in Messages \ overtaken : Untouched(m)

\* Nothing that Untouched speaks of changes for this message, but that workers
\* may drop it.
Stays(m) ==
  /\ mail'[m].status = mail[m].status /\ mail'[m].id = mail[m].id
  /\ <<m, mail[m].id>> \in reported' <=> <<m, mail[m].id>> \in reported
  /\ m \in silenced' <=> m \in silenced
  /\ \A w \in Workers : InHand(w, m)' => InHand(w, m)

LEMMA StaysUntouched ==
  ASSUME NEW m \in Messages, Untouched(m), Stays(m)
  PROVE  Untouched(m)'
  BY DEF Untouched, Stays

\* A step about one message leaves the others.
LEMMA OthersStay ==
  ASSUME MailShapes, NEW m \in Messages, NEW w \in Workers, NEW row, NEW j,
         Put(m, row) \/ UNCHANGED mail,
         Gets(w, m, j) \/ UNCHANGED job,
         NEW n, reported' \in {reported, reported \cup {<<m, n>>}}, UNCHANGED silenced
  PROVE  \A k \in Messages \ {m} : Stays(k)
<1>1. mail \in [Messages -> MailRow] /\ job \in [Workers -> [Messages -> MailJobs]]
  BY DEF MailShapes, MailJobs
<1>2. ASSUME NEW k \in Messages \ {m}
      PROVE  mail'[k] = mail[k] /\ \A v \in Workers : job'[v][k] = job[v][k]
  BY <1>1 DEF Put, Gets
<1> QED
  BY <1>2 DEF Stays, InHand

LEMMA PutFields ==
  ASSUME MailShapes, NEW m \in Messages, NEW row \in MailRow, Put(m, row)
  PROVE  mail'[m].status = row.status /\ mail'[m].id = row.id
  BY DEF Put, MailShapes, MailRow

LEMMA GetsFields ==
  ASSUME MailShapes, NEW w \in Workers, NEW m \in Messages, NEW j, Gets(w, m, j)
  PROVE  job'[w][m] = j /\ \A v \in Workers \ {w} : job'[v] = job[v]
  BY DEF Gets, MailShapes

LEMMA SweepingQuiet ==
  ASSUME MailShapes, QuietInv, NEW w \in Workers, Sweeping(w)
  PROVE  QuietInv'
<1>1. /\ mail \in [Messages -> MailRow] /\ job \in [Workers -> [Messages -> MailJobs]]
  BY DEF MailShapes, MailJobs
<1>2. ASSUME \A m \in Messages \ overtaken' : Stays(m), overtaken \subseteq overtaken'
      PROVE  QuietInv'
  BY <1>2, StaysUntouched DEF QuietInv
<1>3. CASE RecoverStuck(w)
  <2>1. /\ mail' = [m \in Messages |->
             IF m \in Lost THEN [mail[m] EXCEPT !.status = "QUEUED", !.stuck = FALSE]
             ELSE mail[m]]
        /\ overtaken' = overtaken \cup {m \in Lost : \E v \in Workers : InHand(v, m)}
        /\ UNCHANGED <<job, reported, silenced>>
    BY <1>3 DEF RecoverStuck, external, history
  <2>2. ASSUME NEW m \in Messages \ overtaken'
        PROVE  Untouched(m)'
    <3>1. Untouched(m)
      BY <2>1, <2>2 DEF QuietInv
    <3>2. CASE m \in Lost
      <4>1. mail[m].status = "SENDING" /\ \A v \in Workers : ~InHand(v, m)
        BY <2>1, <2>2, <3>2 DEF Lost
      <4>2. mail'[m].status = "QUEUED" /\ mail'[m].id = mail[m].id
        BY <1>1, <2>1, <3>2 DEF MailRow
      <4>3. \A v \in Workers : ~InHand(v, m)'
        BY <2>1, <4>1 DEF InHand
      <4>4. <<m, mail'[m].id>> \in reported' \/ mail'[m].id = 0
        <5>1. <<m, mail[m].id>> \in reported \/ mail[m].id = 0
          BY <3>1, <4>1 DEF Untouched
        <5>2. reported' = reported
          BY <2>1
        <5> QED
          BY <4>2, <5>1, <5>2, Zenon
      <4>5. m \in silenced' => mail'[m].status = "SKIPPED"
        BY <2>1, <3>1, <4>1, <4>2 DEF Untouched
      <4> QED
        BY <4>3, <4>4, <4>5 DEF Untouched
    <3>3. CASE m \notin Lost
      BY <2>1, <3>1, <3>3, StaysUntouched DEF Stays, InHand
    <3> QED
      BY <3>2, <3>3
  <2> QED
    BY <2>2 DEF QuietInv
<1>4. CASE ListDue(w)
  <2>1. ASSUME NEW m \in Messages
        PROVE  Stays(m)
    <3>1. job'[w][m] \in {[NoJob EXCEPT !.pc = "listed"], NoJob}
          /\ \A v \in Workers \ {w} : job'[v] = job[v]
      BY <1>1, <1>4 DEF ListDue
    <3>2. [NoJob EXCEPT !.pc = "listed"].pc = "listed" /\ NoJob.pc = "none"
      BY DEF NoJob
    <3>3. ~InHand(w, m)'
      BY <3>1, <3>2 DEF InHand
    <3> QED
      BY <1>4, <3>1, <3>3 DEF ListDue, external, history, Stays, InHand
  <2> QED
    BY <1>2, <1>4, <2>1 DEF ListDue, history
<1>5. CASE ReadClaimed(w)
  <2>1. ASSUME NEW m \in Messages
        PROVE  Stays(m)
    <3>1. /\ job[w][m].pc # "claimed" => job'[w][m] = NoJob
          /\ \A v \in Workers \ {w} : job'[v] = job[v]
      BY <1>1, <1>5 DEF ReadClaimed
    <3>2. InHand(w, m)' => InHand(w, m)
      BY <3>1 DEF InHand, NoJob
    <3> QED
      BY <1>5, <3>1, <3>2 DEF ReadClaimed, external, history, Stays, InHand
  <2> QED
    BY <1>2, <1>5, <2>1 DEF ReadClaimed, history
<1>6. CASE EndSweep(w)
  BY <1>2, <1>6 DEF EndSweep, external, history, Stays, InHand
<1>7. ASSUME NEW m \in Messages, ClaimRow(w, m)
      PROVE  QuietInv'
  <2>1. UNCHANGED <<reported, silenced, overtaken>>
    BY <1>7 DEF ClaimRow, external, history
  <2> DEFINE row == [mail[m] EXCEPT !.status = "SENDING"]
             j == [NoJob EXCEPT !.pc = "claimed"]
  <2>2. \/ Claimable(m) /\ Put(m, row) /\ Gets(w, m, j)
        \/ UNCHANGED mail /\ Gets(w, m, NoJob)
    BY <1>7 DEF ClaimRow
  <2>3. row \in MailRow /\ row.status = "SENDING" /\ row.id = mail[m].id
    BY <1>1 DEF MailRow, Status
  <2> HIDE DEF row, j
  <2>4. \A n \in Messages \ {m} : Stays(n)
    BY <2>1, <2>2, OthersStay
  <2>5. ASSUME m \notin overtaken
        PROVE  Untouched(m)'
    <3>1. Untouched(m)
      BY <2>5 DEF QuietInv
    <3>2. CASE Claimable(m) /\ Put(m, row) /\ Gets(w, m, j)
      <4>1. mail[m].status = "QUEUED" /\ \A v \in Workers : ~InHand(v, m)
        BY <3>1, <3>2 DEF Claimable, Untouched
      <4>2. mail'[m].status = "SENDING" /\ mail'[m].id = mail[m].id
        BY <2>3, <3>2, PutFields
      <4>3. \A v \in Workers : InHand(v, m)' => v = w
        BY <3>2, <4>1, GetsFields DEF InHand
      <4> QED
        BY <2>1, <3>1, <4>1, <4>2, <4>3 DEF Untouched
    <3>3. CASE UNCHANGED mail /\ Gets(w, m, NoJob)
      <4>1. job'[w][m] = NoJob /\ \A v \in Workers \ {w} : job'[v] = job[v]
        BY <3>3, GetsFields
      <4>2. \A v \in Workers : InHand(v, m)' => InHand(v, m)
        BY <4>1 DEF InHand, NoJob
      <4> QED
        BY <2>1, <3>1, <3>3, <4>2, StaysUntouched DEF Stays
    <3> QED
      BY <2>2, <3>2, <3>3
  <2> QED
    BY <2>1, <2>4, <2>5, StaysUntouched DEF QuietInv
<1>8. ASSUME NEW m \in Messages,
             \/ SuppressAddress(w, m)
             \/ \E answer \in {"ok", "again", "rejected", "bad address"} : SendMail(w, m, answer)
      PROVE  QuietInv'
  <2>1. PICK j : Gets(w, m, j)
    BY <1>8 DEF SuppressAddress, SendMail
  <2>2. InHand(w, m) /\ UNCHANGED <<mail, reported, silenced, overtaken>>
    BY <1>8 DEF SuppressAddress, SendMail, InHand, external, history
  <2>3. \A n \in Messages \ {m} : Stays(n)
    BY <2>1, <2>2, OthersStay
  <2>4. Stays(m)
    <3>1. \A v \in Workers \ {w} : job'[v] = job[v]
      BY <2>1, GetsFields
    <3> QED
      BY <2>2, <3>1 DEF Stays, InHand
  <2> QED
    BY <1>2, <2>2, <2>3, <2>4
<1>9. ASSUME NEW m \in Messages, Settle(w, m)
      PROVE  QuietInv'
  <2>1. PICK row : Settled(w, m, row)
    BY <1>9, SettledRow
  <2>2. /\ row \in MailRow /\ Put(m, row) /\ Gets(w, m, NoJob) /\ InHand(w, m)
        /\ UNCHANGED <<reported, silenced, overtaken>>
    BY <1>9, <2>1 DEF Settled, Settle, InHand, external, history
  <2>3. mail'[m].status = row.status /\ mail'[m].id = row.id
    BY <2>2, PutFields
  <2>4. \A n \in Messages \ {m} : Stays(n)
    BY <2>2, OthersStay
  <2>5. ASSUME m \notin overtaken
        PROVE  Untouched(m)'
    <3>1. Untouched(m)
      BY <2>5 DEF QuietInv
    <3>2. mail[m].status = "SENDING" /\ \A v \in Workers \ {w} : ~InHand(v, m)
      BY <2>2, <3>1 DEF Untouched
    <3>3. \A v \in Workers : ~InHand(v, m)'
      BY <2>2, <3>2, GetsFields DEF InHand, NoJob
    <3>4. row.id # 0 /\ <<m, row.id>> \notin reported => row.status = "SENT"
      BY <2>1, <3>1, <3>2 DEF Untouched, Settled
    <3> QED
      BY <2>2, <2>3, <3>1, <3>2, <3>3, <3>4 DEF Untouched
  <2> QED
    BY <2>2, <2>4, <2>5, StaysUntouched DEF QuietInv
<1> QED
  BY <1>3, <1>4, <1>5, <1>6, <1>7, <1>8, <1>9 DEF Sweeping

LEMMA NextQuiet == MailShapes /\ QuietInv /\ [MailNext]_mailVars => QuietInv'
<1> SUFFICES ASSUME MailShapes, QuietInv, [MailNext]_mailVars PROVE QuietInv'
  OBVIOUS
<1>1. mail \in [Messages -> MailRow]
  BY DEF MailShapes
<1>2. ASSUME \A m \in Messages : Stays(m), overtaken' = overtaken
      PROVE  QuietInv'
  BY <1>2, StaysUntouched DEF QuietInv
<1>3. ASSUME NEW w \in Workers, WorkerDies(w)
      PROVE  QuietInv'
  <2>1. ASSUME NEW v \in Workers, NEW m \in Messages, InHand(v, m)'
        PROVE  InHand(v, m)
    BY <1>3, <2>1 DEF WorkerDies, InHand, NoJob, MailShapes
  <2> QED
    BY <1>2, <1>3, <2>1 DEF WorkerDies, Stays, external
<1>4. ASSUME NEW m \in Messages, NEW row \in MailRow, Put(m, row), UNCHANGED <<job, silenced, overtaken>>,
             NEW r, reported' \in {reported, reported \cup {<<m, r>>}},
             mail[m].status \in {"absent", "SENT", "FAILED"},
             row.status # "SENDING",
             row.id # 0 /\ <<m, row.id>> \notin reported' => row.status = "SENT"
      PROVE  QuietInv'
  <2>1. mail'[m].status = row.status /\ mail'[m].id = row.id
    BY <1>4, PutFields
  <2>2. ASSUME m \notin overtaken
        PROVE  Untouched(m)'
    <3>1. Untouched(m)
      BY <2>2 DEF QuietInv
    <3>2. \A v \in Workers : ~InHand(v, m)'
      BY <1>4, <3>1 DEF Untouched, InHand
    <3> QED
      BY <1>4, <2>1, <3>1, <3>2 DEF Untouched
  <2>3. ASSUME NEW n \in Messages \ {m}
        PROVE  Stays(n)
    BY <1>1, <1>4 DEF Put, Stays, InHand
  <2> QED
    BY <1>4, <2>2, <2>3, StaysUntouched DEF QuietInv
<1>5. ASSUME NEW m \in Messages, Enqueue(m)
      PROVE  QuietInv'
  <2> DEFINE row == [NoMail EXCEPT !.status = "QUEUED", !.due = TRUE]
  <2>1. row \in MailRow /\ row.status = "QUEUED" /\ row.id = 0
    BY NoMailType DEF NoMail, MailRow, Status
  <2>2. Put(m, row) /\ UNCHANGED <<job, silenced, overtaken, reported>>
        /\ mail[m].status = "absent"
    BY <1>5 DEF Enqueue, external, history
  <2> HIDE DEF row
  <2> QED
    BY <1>4, <2>1, <2>2
<1>6. ASSUME NEW m \in Messages, BecomesDue(m) \/ Hangs(m)
      PROVE  QuietInv'
  <2>1. \/ mail' = [mail EXCEPT ![m].due = TRUE] \/ mail' = [mail EXCEPT ![m].stuck = TRUE]
    BY <1>6 DEF BecomesDue, Hangs
  <2>2. UNCHANGED <<job, reported, silenced, overtaken>>
    BY <1>6 DEF BecomesDue, Hangs, external, history
  <2>3. ASSUME NEW n \in Messages
        PROVE  mail'[n].status = mail[n].status /\ mail'[n].id = mail[n].id
    BY <1>1, <2>1 DEF MailRow
  <2> QED
    BY <1>2, <2>2, <2>3 DEF Stays, InHand
<1>7. ASSUME NEW m \in Messages, Scrub(m)
      PROVE  QuietInv'
  <2> DEFINE row == [mail[m] EXCEPT !.scrubbed = TRUE]
  <2>1. Put(m, row) /\ UNCHANGED <<job, reported, silenced, overtaken>>
    BY <1>7 DEF Scrub, external, history
  <2>2. row \in MailRow /\ row.status = mail[m].status /\ row.id = mail[m].id
    BY <1>1 DEF MailRow
  <2> HIDE DEF row
  <2>3. mail'[m].status = mail[m].status /\ mail'[m].id = mail[m].id
    BY <2>1, <2>2, PutFields
  <2>4. ASSUME NEW n \in Messages
        PROVE  Stays(n)
    BY <1>1, <2>1, <2>3 DEF Put, Stays, InHand
  <2> QED
    BY <1>2, <2>1, <2>4
<1>8. ASSUME NEW m \in Messages, ReportedFailed(m)
      PROVE  QuietInv'
  <2> DEFINE row == [mail[m] EXCEPT !.status = "FAILED"]
  <2>1. /\ Put(m, row) /\ UNCHANGED <<job, silenced, overtaken>>
        /\ mail[m].id # 0 /\ <<m, mail[m].id>> \notin reported
        /\ reported' = reported \cup {<<m, mail[m].id>>}
    BY <1>8 DEF ReportedFailed, history
  <2>2. row \in MailRow /\ row.status = "FAILED" /\ row.id = mail[m].id
    BY <1>1 DEF MailRow, Status
  <2> HIDE DEF row
  <2>3. CASE m \in overtaken
    <3>1. ASSUME NEW n \in Messages \ {m}
          PROVE  Stays(n)
      BY <1>1, <2>1 DEF Put, Stays, InHand
    <3> QED
      BY <2>1, <2>3, <3>1, StaysUntouched DEF QuietInv
  <2>4. CASE m \notin overtaken
    <3>1. mail[m].status = "SENT"
      BY <2>1, <2>4 DEF QuietInv, Untouched
    <3> QED
      BY <1>4, <2>1, <2>2, <3>1
  <2> QED
    BY <2>3, <2>4
<1>9. ASSUME NEW m \in Messages, QueueAgain(m)
      PROVE  QuietInv'
  <2> DEFINE row == [mail[m] EXCEPT !.status = "QUEUED", !.due = TRUE]
  <2>1. /\ UNCHANGED <<job, reported, silenced, overtaken>>
        /\ UNCHANGED mail \/ (mail[m].status = "FAILED" /\ Put(m, row))
    BY <1>9 DEF QueueAgain, external, history
  <2>2. row \in MailRow /\ row.status = "QUEUED" /\ row.id = mail[m].id
    BY <1>1 DEF MailRow, Status
  <2> HIDE DEF row
  <2>3. CASE UNCHANGED mail
    BY <1>2, <2>1, <2>3 DEF Stays, InHand
  <2>4. CASE mail[m].status = "FAILED" /\ Put(m, row)
    <3>1. CASE m \in overtaken
      <4>1. ASSUME NEW n \in Messages \ {m}
            PROVE  Stays(n)
        BY <1>1, <2>1, <2>4 DEF Put, Stays, InHand
      <4> QED
        BY <2>1, <3>1, <4>1, StaysUntouched DEF QuietInv
    <3>2. CASE m \notin overtaken
      <4>1. ~(mail[m].id # 0 /\ <<m, mail[m].id>> \notin reported)
        BY <2>4, <3>2 DEF QuietInv, Untouched
      <4> QED
        BY <1>4, <2>1, <2>2, <2>4, <4>1
    <3> QED
      BY <3>1, <3>2
  <2> QED
    BY <2>1, <2>3, <2>4
<1>10. ASSUME NEW p \in People, RemoveAccount(p)
       PROVE  QuietInv'
  <2> DEFINE waiting == {m \in Messages : OwnerOf[m] = p /\ mail[m].status = "QUEUED"}
  <2>1. /\ mail' = [m \in Messages |->
             IF m \in waiting THEN [mail[m] EXCEPT !.status = "SKIPPED", !.stuck = FALSE]
             ELSE mail[m]]
        /\ silenced' = silenced \cup waiting
        /\ UNCHANGED <<job, reported, overtaken>>
    BY <1>10 DEF RemoveAccount, external
  <2>2. ASSUME NEW m \in Messages \ overtaken
        PROVE  Untouched(m)'
    <3>1. Untouched(m)
      BY <2>2 DEF QuietInv
    <3>2. CASE m \in waiting
      <4>1. mail[m].status = "QUEUED" /\ \A v \in Workers : ~InHand(v, m)
        BY <3>1, <3>2 DEF Untouched
      <4>2. mail'[m].status = "SKIPPED" /\ mail'[m].id = mail[m].id
        BY <1>1, <2>1, <3>2 DEF MailRow
      <4>3. \A v \in Workers : ~InHand(v, m)'
        BY <2>1, <4>1 DEF InHand
      <4>4. <<m, mail'[m].id>> \in reported' \/ mail'[m].id = 0
        <5>1. <<m, mail[m].id>> \in reported \/ mail[m].id = 0
          BY <3>1, <4>1 DEF Untouched
        <5>2. reported' = reported
          BY <2>1
        <5> QED
          BY <4>2, <5>1, <5>2, Zenon
      <4>5. m \in silenced' => mail'[m].status = "SKIPPED"
        BY <2>1, <3>1, <4>1, <4>2 DEF Untouched
      <4> QED
        BY <4>3, <4>4, <4>5 DEF Untouched
    <3>3. CASE m \notin waiting
      <4>1. mail'[m] = mail[m] /\ (m \in silenced' <=> m \in silenced)
        BY <2>1, <3>3
      <4> QED
        BY <2>1, <3>1, <4>1, StaysUntouched DEF Stays, InHand
    <3> QED
      BY <3>2, <3>3
  <2> QED
    BY <2>1, <2>2 DEF QuietInv
<1>11. ASSUME \/ \E m \in Messages : AskRetry(m) \/ KeyLapses(m)
              \/ \E p \in People : Bounced(p)
              \/ UNCHANGED mailVars
       PROVE  QuietInv'
  <2>1. UNCHANGED <<mail, job, reported, silenced, overtaken>>
    BY <1>11 DEF AskRetry, KeyLapses, Bounced, mailVars, external, history
  <2> QED
    BY <1>2, <2>1 DEF Stays, InHand
<1> QED
  BY <1>3, <1>5, <1>6, <1>7, <1>8, <1>9, <1>10, <1>11, SweepingQuiet DEF MailNext

\* What waited when its account was removed is never sent, whichever
\* sweep had listed it, unless a worker was slower with it than STUCK_SENDING_MS.
THEOREM SkippedIsSilent == MailSpec => []SilencedStaysSilent
<1>1. MailInit => QuietInv
  BY DEF MailInit, QuietInv, Untouched, InHand, NoJob, NoMail
<1>2. MailSpec => []MailShapes
  BY MailShapesHold
<1>3. MailSpec => []QuietInv
  BY <1>1, <1>2, NextQuiet, PTL DEF MailSpec
<1>4. ASSUME MailShapes, QuietInv
      PROVE  SilencedStaysSilent
  BY <1>4 DEF MailShapes, QuietInv, Untouched, SilencedStaysSilent
<1> QED
  BY <1>2, <1>3, <1>4, PTL

-----------------------------------------------------------------------------
(* The subscription: types                                                 *)

SubNotes == [at: {"none", "sent", "stored", "processed"}, said: SubState,
             attempts: 0 .. Attempts]
SubRows == [known: BOOLEAN, state: SubState, stamp: 0 .. 2 * MaxChange + 1,
            fresh: BOOLEAN, held: BOOLEAN]
ErrandRows == [pc: {"idle", "read", "ask", "store", "write", "mark"},
               note: 0 .. MaxChange, phone: BOOLEAN,
               now: 0 .. 2 * MaxChange + 1, answer: SubState]

\* An errand that speaks of a notification has one.
HasNote == \A h \in Errands : handler[h].pc \in {"read", "write", "mark"} => handler[h].note \in ChangeIds

\* Transactions and periods do not run ahead of the changes at Apple, and what
\* was bought is paid beyond the first period.
InStep ==
  /\ apple.txn <= changes + 1
  /\ today <= changes + 1
  /\ 2 <= apple.until /\ apple.until <= today + 1

SubInv == SubTypeOK /\ HasNote /\ InStep

LEMMA SubBounds ==
  /\ 0 \in 0 .. MaxChange /\ 0 \in 0 .. 2 * MaxChange + 1 /\ 0 \in 0 .. Attempts
  /\ 1 \in 1 .. MaxChange + 1 /\ 1 \in 1 .. MaxChange + 2 /\ 2 \in 1 .. MaxChange + 2
  /\ 0 \in 0 .. MaxReturns /\ 0 \in 0 .. MaxFailures /\ 0 \in 0 .. MaxOperator
  BY PayAssumption

LEMMA ChangeBounds ==
  ASSUME NEW n \in 0 .. MaxChange
  PROVE  /\ n \in Nat /\ 2 * n \in 0 .. 2 * MaxChange + 1
         /\ 2 * n + 1 \in 0 .. 2 * MaxChange + 1
  BY PayAssumption

LEMMA SubStarts ==
  /\ Unsold \in SubState /\ NoErrand \in ErrandRows /\ NoSub \in SubRows /\ NoNote \in SubNotes
<1>1. Unsold \in SubState
  BY SubBounds DEF Unsold, SubState, SubStatus
<1> QED
  BY <1>1, SubBounds DEF NoErrand, ErrandRows, NoSub, SubRows, NoNote, SubNotes

LEMMA InitSub == SubInit => SubInv
<1> SUFFICES ASSUME SubInit PROVE SubInv
  OBVIOUS
<1>1. [txn |-> 1, until |-> 2, status |-> "ACTIVE", auto |-> TRUE] \in SubState
  BY SubBounds DEF SubState, SubStatus
<1>2. SubTypeOK
  BY <1>1, SubBounds, SubStarts DEF SubInit, SubTypeOK, SubNotes, SubRows, ErrandRows
<1>3. HasNote
  BY DEF SubInit, HasNote, NoErrand
<1>4. InStep
  BY DEF SubInit, InStep
<1> QED
  BY <1>2, <1>3, <1>4 DEF SubInv

LEMMA SubTypes ==
  ASSUME SubInv
  PROVE  /\ apple \in SubState /\ sub \in SubRows
         /\ notes \in [ChangeIds -> SubNotes] /\ handler \in [Errands -> ErrandRows]
         /\ apple.txn \in Nat /\ apple.until \in Nat /\ today \in Nat /\ changes \in Nat
  BY PayAssumption DEF SubInv, SubTypeOK, SubRows, SubNotes, ErrandRows, SubState

-----------------------------------------------------------------------------
(* The subscription: Apple                                                 *)

\* A change of Apple that stays in step with the periods.
LEMMA ChangeType ==
  ASSUME SubInv, NEW state, NEW said \in SubState, Change(state, said),
         state \in SubState,
         state.txn <= changes + 2,
         today' = today \/ today' = today + 1,
         2 <= state.until, state.until <= today' + 1,
         handler' \in [Errands -> ErrandRows], HasNote',
         phoneOwes' \in BOOLEAN, returns' \in 0 .. MaxReturns,
         UNCHANGED <<sub, failures, operator>>
  PROVE  SubInv'
<1>1. /\ changes \in 0 .. MaxChange /\ changes < MaxChange /\ today \in 1 .. MaxChange + 1
      /\ today <= changes + 1 /\ changes' = changes + 1 /\ apple' = state
  BY DEF Change, SubInv, SubTypeOK, InStep
<1>2. /\ changes' \in 0 .. MaxChange /\ changes + 1 \in ChangeIds
      /\ today' \in 1 .. MaxChange + 1 /\ today' <= changes' + 1
      /\ state.txn <= changes' + 1
  <2>1. state.txn \in Nat
    BY PayAssumption DEF SubState
  <2> QED
    BY <1>1, <2>1, PayAssumption DEF ChangeIds
<1>3. [at |-> "sent", said |-> said, attempts |-> 0] \in SubNotes
  BY SubBounds DEF SubNotes
<1>4. notes' \in [ChangeIds -> SubNotes]
  BY <1>3, SubTypes DEF Change
<1>5. InStep'
  BY <1>1, <1>2 DEF InStep
<1>6. SubTypeOK'
  BY <1>1, <1>2, <1>4 DEF SubInv, SubTypeOK, SubNotes, ErrandRows
<1> QED
  BY <1>5, <1>6 DEF SubInv

LEMMA BoughtType ==
  ASSUME SubInv, changes < MaxChange, NEW period, period = today \/ period = today + 1
  PROVE  /\ Bought(period) \in SubState /\ Bought(period).txn <= changes + 2
         /\ Bought(period).until = period + 1
<1>1. /\ changes \in 0 .. MaxChange /\ today \in 1 .. MaxChange + 1
      /\ today <= changes + 1 /\ apple.txn \in 1 .. MaxChange + 1 /\ apple.txn <= changes + 1
  BY DEF SubInv, SubTypeOK, InStep, SubState
<1>2. /\ apple.txn + 1 \in 1 .. MaxChange + 1 /\ apple.txn + 1 <= changes + 2
      /\ period + 1 \in 1 .. MaxChange + 2
  BY <1>1, PayAssumption
<1> DEFINE next == apple.txn + 1
           until == period + 1
<1>3. Bought(period) = [txn |-> next, until |-> until, status |-> "ACTIVE", auto |-> TRUE]
  BY DEF Bought
<1>4. next \in 1 .. MaxChange + 1 /\ next <= changes + 2 /\ until \in 1 .. MaxChange + 2
  BY <1>2
<1> HIDE DEF next, until
<1>5. Bought(period) \in SubState /\ Bought(period).txn = next /\ Bought(period).until = until
  BY <1>3, <1>4 DEF SubState, SubStatus
<1> QED
  BY <1>4, <1>5 DEF until

LEMMA AppleTypes ==
  ASSUME SubInv, AppleNext
  PROVE  SubInv'
<1>1. /\ apple \in SubState /\ today \in Nat /\ changes \in Nat /\ InStep
      /\ apple.txn \in Nat /\ apple.until \in Nat
      /\ handler \in [Errands -> ErrandRows] /\ HasNote
      /\ phoneOwes \in BOOLEAN /\ returns \in 0 .. MaxReturns
  BY SubTypes DEF SubInv, SubTypeOK
<1>2. apple.txn <= changes + 2 /\ 2 <= apple.until /\ apple.until <= today + 1
      /\ apple.until <= today + 2
  BY <1>1 DEF InStep
<1>3. ASSUME NEW state, Change(state, state), state \in SubState,
             state.txn = apple.txn, state.until = apple.until,
             today' \in {today, today + 1},
             UNCHANGED <<phoneOwes, sub, handler, returns, failures, operator>>
      PROVE  SubInv'
  <2>1. HasNote'
    BY <1>1, <1>3 DEF HasNote
  <2>2. state.txn <= changes + 2 /\ 2 <= state.until /\ state.until <= today' + 1
    BY <1>1, <1>2, <1>3
  <2> QED
    BY <1>1, <1>3, <2>1, <2>2, ChangeType
<1>4. ASSUME NEW period, Change(Bought(period), Bought(period)),
             \/ period = today /\ today' = today
             \/ period = today + 1 /\ today' = today + 1,
             handler' \in [Errands -> ErrandRows], HasNote',
             phoneOwes' \in BOOLEAN, returns' \in 0 .. MaxReturns,
             UNCHANGED <<sub, failures, operator>>
      PROVE  SubInv'
  <2>1. changes < MaxChange
    BY <1>4 DEF Change
  <2>2. /\ Bought(period) \in SubState /\ Bought(period).txn <= changes + 2
        /\ Bought(period).until = period + 1
    BY <1>4, <2>1, BoughtType
  <2>3. 2 <= Bought(period).until /\ Bought(period).until <= today' + 1
    <3>1. today \in 1 .. MaxChange + 1
      BY DEF SubInv, SubTypeOK
    <3> QED
      BY <1>4, <2>2, <3>1, PayAssumption
  <2> QED
    BY <1>4, <2>2, <2>3, ChangeType
<1>5. CASE PeriodEnds
  <2> DEFINE lapsed == [apple EXCEPT !.status = "EXPIRED"]
  <2>1. today' = today + 1 /\ UNCHANGED <<phoneOwes, sub, handler, returns, failures, operator>>
        /\ (Change(Bought(today + 1), Bought(today + 1)) \/ Change(lapsed, lapsed))
    BY <1>5 DEF PeriodEnds
  <2>2. lapsed \in SubState /\ lapsed.txn = apple.txn /\ lapsed.until = apple.until
    BY <1>1 DEF SubState, SubStatus
  <2>3. HasNote'
    BY <1>1, <2>1 DEF HasNote
  <2> HIDE DEF lapsed
  <2> QED
    BY <1>1, <1>3, <1>4, <2>1, <2>2, <2>3
<1>6. CASE RetryEnds \/ SwitchRenewal \/ Refund
  <2> DEFINE ended == [apple EXCEPT !.auto = FALSE]
             other == [apple EXCEPT !.auto = ~apple.auto]
             revoked == [apple EXCEPT !.status = "REVOKED", !.auto = FALSE]
  <2>1. /\ UNCHANGED <<today, phoneOwes, sub, handler, returns, failures, operator>>
        /\ \/ Change(Bought(today), Bought(today)) \/ Change(ended, ended)
           \/ Change(other, other) \/ Change(revoked, revoked)
    BY <1>6 DEF RetryEnds, SwitchRenewal, Refund
  <2>2. /\ ended \in SubState /\ ended.txn = apple.txn /\ ended.until = apple.until
        /\ revoked \in SubState /\ revoked.txn = apple.txn /\ revoked.until = apple.until
    BY <1>1 DEF SubState, SubStatus
  <2>3. other \in SubState /\ other.txn = apple.txn /\ other.until = apple.until
    <3>1. apple.auto \in BOOLEAN
      BY <1>1 DEF SubState
    <3>2. PICK auto \in BOOLEAN : auto = ~apple.auto
      BY <3>1
    <3>3. other = [apple EXCEPT !.auto = auto]
      BY <3>2
    <3> QED
      BY <1>1, <3>3 DEF SubState
  <2>4. HasNote'
    BY <1>1, <2>1 DEF HasNote
  <2> HIDE DEF ended, other, revoked
  <2> QED
    BY <1>1, <1>3, <1>4, <2>1, <2>2, <2>3, <2>4
<1>7. CASE RefundOld
  <2> DEFINE old == [txn |-> apple.txn - 1, until |-> apple.until - 1,
                     status |-> "REVOKED", auto |-> apple.auto]
  <2>1. /\ apple.txn > 1 /\ Change(apple, old)
        /\ UNCHANGED <<today, phoneOwes, sub, handler, returns, failures, operator>>
    BY <1>7 DEF RefundOld
  <2>2. old \in SubState
    <3>1. /\ apple.txn \in 1 .. MaxChange + 1 /\ apple.until \in 1 .. MaxChange + 2
          /\ apple.auto \in BOOLEAN
      BY <1>1 DEF SubState
    <3>2. apple.txn - 1 \in 1 .. MaxChange + 1 /\ apple.until - 1 \in 1 .. MaxChange + 2
      BY <1>2, <2>1, <3>1, PayAssumption
    <3> QED
      BY <3>1, <3>2 DEF SubState, SubStatus
  <2>3. HasNote'
    BY <1>1, <2>1 DEF HasNote
  <2>4. today' = today /\ apple.until <= today' + 1
    BY <1>2, <2>1
  <2> HIDE DEF old
  <2> QED
    BY <1>1, <1>2, <2>1, <2>2, <2>3, <2>4, ChangeType
<1>8. CASE BuyAgain
  <2>1. /\ Change(Bought(today), Bought(today)) /\ today' = today
        /\ returns' = returns + 1 /\ returns < MaxReturns /\ phoneOwes' = TRUE
        /\ handler' = [h \in Errands |-> [handler[h] EXCEPT !.phone = FALSE]]
        /\ UNCHANGED <<sub, failures, operator>>
    BY <1>8 DEF BuyAgain
  <2>2. returns' \in 0 .. MaxReturns
    BY <1>1, <2>1, PayAssumption
  <2>3. ASSUME NEW h \in Errands
        PROVE  /\ handler'[h] \in ErrandRows /\ handler'[h].pc = handler[h].pc
               /\ handler'[h].note = handler[h].note
    BY <1>1, <2>1 DEF ErrandRows
  <2>4. handler' \in [Errands -> ErrandRows] /\ HasNote'
    BY <1>1, <2>1, <2>3 DEF HasNote
  <2> QED
    BY <1>4, <2>1, <2>2, <2>4
<1> QED
  BY <1>5, <1>6, <1>7, <1>8 DEF AppleNext

-----------------------------------------------------------------------------
(* The subscription: the server                                            *)

\* One errand goes on with the row r.
LEMMA ErrandType ==
  ASSUME SubInv, NEW h \in Errands, NEW r \in ErrandRows, Becomes(h, r),
         r.pc \in {"read", "write", "mark"} => r.note \in ChangeIds,
         notes' \in [ChangeIds -> SubNotes], sub' \in SubRows, phoneOwes' \in BOOLEAN,
         operator' \in 0 .. MaxOperator,
         UNCHANGED <<apple, today, changes, returns, failures>>
  PROVE  SubInv'
<1>1. handler \in [Errands -> ErrandRows] /\ HasNote
  BY SubTypes DEF SubInv
<1>2. handler' \in [Errands -> ErrandRows]
  BY <1>1 DEF Becomes
<1>3. HasNote'
  <2> SUFFICES ASSUME NEW g \in Errands, handler'[g].pc \in {"read", "write", "mark"}
               PROVE  handler'[g].note \in ChangeIds
    BY DEF HasNote
  <2>1. CASE g = h
    BY <1>1, <2>1 DEF Becomes
  <2>2. CASE g # h
    BY <1>1, <2>2 DEF Becomes, HasNote
  <2> QED
    BY <2>1, <2>2
<1>4. InStep'
  BY DEF SubInv, InStep
<1>5. SubTypeOK'
  BY <1>2 DEF SubInv, SubTypeOK, SubNotes, SubRows, ErrandRows
<1> QED
  BY <1>3, <1>4, <1>5 DEF SubInv

LEMMA ToMarkType ==
  ASSUME NEW n \in 0 .. MaxChange
  PROVE  /\ ToMark(n) \in ErrandRows
         /\ ToMark(n).pc \in {"read", "write", "mark"} => ToMark(n).note \in ChangeIds
<1>1. CASE n = 0
  BY <1>1, SubStarts DEF ToMark, NoErrand
<1>2. CASE n # 0
  <2>1. n \in ChangeIds
    BY <1>2, PayAssumption DEF ChangeIds
  <2>2. ToMark(n) = [NoErrand EXCEPT !.pc = "mark", !.note = n]
    BY <1>2 DEF ToMark
  <2>3. ToMark(n) \in ErrandRows /\ ToMark(n).note = n
    BY <2>2, SubStarts DEF ErrandRows, NoErrand
  <2> QED
    BY <2>1, <2>3
<1> QED
  BY <1>1, <1>2

\* What an errand begins with, and what the row of a notification may become.
LEMMA Beginnings ==
  ASSUME SubInv, NEW asks \in BOOLEAN
  PROVE  /\ [NoErrand EXCEPT !.pc = "ask", !.now = Clock] \in ErrandRows
         /\ [NoErrand EXCEPT !.pc = "ask", !.now = Clock, !.phone = asks] \in ErrandRows
         /\ \A n \in ChangeIds :
              [NoErrand EXCEPT !.pc = "read", !.note = n, !.now = Clock] \in ErrandRows
<1>1. Clock \in 0 .. 2 * MaxChange + 1
  BY ChangeBounds DEF SubInv, SubTypeOK, Clock
<1>2. \A n \in ChangeIds : n \in 0 .. MaxChange
  BY PayAssumption DEF ChangeIds
<1> QED
  BY <1>1, <1>2, SubStarts DEF ErrandRows, NoErrand

LEMMA NoteTypes ==
  ASSUME SubInv, NEW n \in ChangeIds
  PROVE  /\ notes[n] \in SubNotes
         /\ [notes EXCEPT ![n].at = "processed"] \in [ChangeIds -> SubNotes]
         /\ notes[n].attempts < Attempts =>
              [notes EXCEPT ![n].at = "stored", ![n].attempts = @ + 1] \in [ChangeIds -> SubNotes]
<1>1. notes \in [ChangeIds -> SubNotes] /\ notes[n] \in SubNotes
  BY SubTypes
<1>2. [notes[n] EXCEPT !.at = "processed"] \in SubNotes
  BY <1>1 DEF SubNotes
<1>3. ASSUME notes[n].attempts < Attempts
      PROVE  [notes EXCEPT ![n].at = "stored", ![n].attempts = @ + 1] \in [ChangeIds -> SubNotes]
  <2> DEFINE more == notes[n].attempts + 1
             row == [notes[n] EXCEPT !.at = "stored", !.attempts = more]
  <2>1. notes[n].attempts \in 0 .. Attempts
    BY <1>1 DEF SubNotes
  <2>2. more \in 0 .. Attempts
    BY <1>3, <2>1, PayAssumption
  <2> HIDE DEF more
  <2>3. row \in SubNotes
    BY <1>1, <2>2 DEF SubNotes
  <2>4. [notes EXCEPT ![n] = row] \in [ChangeIds -> SubNotes]
    BY <1>1, <2>3
  <2>5. [notes EXCEPT ![n].at = "stored", ![n].attempts = @ + 1] = [notes EXCEPT ![n] = row]
    BY <1>1 DEF more, SubNotes
  <2> QED
    BY <2>4, <2>5
<1> QED
  BY <1>1, <1>2, <1>3

LEMMA RequestTypes ==
  ASSUME SubInv, NEW h \in Errands, RequestNext(h)
  PROVE  SubInv'
<1>1. /\ handler[h] \in ErrandRows /\ sub \in SubRows /\ apple \in SubState
      /\ notes \in [ChangeIds -> SubNotes] /\ phoneOwes \in BOOLEAN
      /\ operator \in 0 .. MaxOperator
      /\ handler[h].pc \in {"read", "write", "mark"} => handler[h].note \in ChangeIds
      /\ handler[h].note \in 0 .. MaxChange /\ handler[h].now \in 0 .. 2 * MaxChange + 1
      /\ handler[h].answer \in SubState
  BY SubTypes DEF SubInv, SubTypeOK, HasNote, ErrandRows
<1>2. ToMark(handler[h].note) \in ErrandRows
      /\ (ToMark(handler[h].note).pc \in {"read", "write", "mark"}
            => ToMark(handler[h].note).note \in ChangeIds)
  BY <1>1, ToMarkType
<1>3. NoErrand \in ErrandRows /\ NoErrand.pc = "idle"
  BY SubStarts DEF NoErrand
<1>4. ASSUME NEW n \in ChangeIds, Receive(h, n) PROVE SubInv'
  <2> DEFINE r == [NoErrand EXCEPT !.pc = "read", !.note = n, !.now = Clock]
  <2>1. r \in ErrandRows /\ r.note = n
    BY Beginnings DEF NoErrand
  <2>2. notes' \in [ChangeIds -> SubNotes] /\ Becomes(h, r)
        /\ UNCHANGED <<world, phoneOwes, sub>>
    BY <1>4, NoteTypes DEF Receive
  <2> HIDE DEF r
  <2> QED
    BY <1>1, <2>1, <2>2, ErrandType DEF world
<1>5. CASE Examine(h)
  <2>1. handler[h].pc = "read" /\ handler[h].note \in ChangeIds /\ UNCHANGED <<world, phoneOwes, sub>>
    BY <1>1, <1>5 DEF Examine
  <2>2. CASE Processed(handler[h].note) /\ Becomes(h, NoErrand)
    <3>1. notes' \in [ChangeIds -> SubNotes]
      BY <2>1, <2>2, NoteTypes DEF Processed
    <3> QED
      BY <1>1, <1>3, <2>1, <2>2, <3>1, ErrandType DEF world
  <2>3. ASSUME NEW pc \in {"ask", "write"}, Becomes(h, [handler[h] EXCEPT !.pc = pc]), notes' = notes
        PROVE  SubInv'
    <3> DEFINE r == [handler[h] EXCEPT !.pc = pc]
    <3>1. r \in ErrandRows /\ r.note = handler[h].note
      BY <1>1 DEF ErrandRows
    <3> HIDE DEF r
    <3>2. Becomes(h, r)
      BY <2>3 DEF r
    <3> QED
      BY <1>1, <2>1, <2>3, <3>1, <3>2, ErrandType DEF world
  <2> QED
    BY <1>5, <2>2, <2>3 DEF Examine
<1>6. CASE WriteNote(h)
  <2>1. handler[h].note \in ChangeIds /\ Becomes(h, ToMark(handler[h].note))
        /\ UNCHANGED <<world, notes, phoneOwes>>
    BY <1>1, <1>6 DEF WriteNote
  <2>2. sub' \in SubRows
    <3>1. notes[handler[h].note].said \in SubState /\ 2 * handler[h].note \in 0 .. 2 * MaxChange + 1
      BY <1>1, <2>1, NoteTypes, ChangeBounds DEF SubNotes
    <3> DEFINE said == notes[handler[h].note].said
               stamp == 2 * handler[h].note
    <3>2. sub' = IF NoLaterNote(handler[h].note)
                   THEN [sub EXCEPT !.state = said, !.stamp = stamp, !.fresh = TRUE] ELSE sub
      BY <1>6 DEF WriteNote
    <3>3. said \in SubState /\ stamp \in 0 .. 2 * MaxChange + 1
      BY <3>1
    <3> HIDE DEF said, stamp
    <3> QED
      BY <1>1, <3>2, <3>3 DEF SubRows
  <2> QED
    BY <1>1, <1>2, <2>1, <2>2, ErrandType DEF world
<1>7. CASE CloseNote(h)
  <2>1. handler[h].note \in ChangeIds /\ Processed(handler[h].note) /\ Becomes(h, NoErrand)
        /\ UNCHANGED <<world, phoneOwes, sub>>
    BY <1>1, <1>7 DEF CloseNote
  <2>2. notes' \in [ChangeIds -> SubNotes]
    BY <2>1, NoteTypes DEF Processed
  <2> QED
    BY <1>1, <1>3, <2>1, <2>2, ErrandType DEF world
<1>8. ASSUME NEW r \in ErrandRows, r.pc = "ask", Becomes(h, r),
             sub' \in SubRows, operator' \in 0 .. MaxOperator,
             UNCHANGED <<apple, today, changes, returns, failures, notes, phoneOwes>>
      PROVE  SubInv'
  BY <1>1, <1>8, ErrandType
<1>9. CASE Report(h) \/ Sweep(h)
  <2> SUFFICES ASSUME NEW asks \in BOOLEAN, BeginAsk(h, asks) PROVE SubInv'
    BY <1>9 DEF Report, Sweep
  <2> DEFINE r == [NoErrand EXCEPT !.pc = "ask", !.now = Clock, !.phone = asks]
  <2>1. r \in ErrandRows /\ r.pc = "ask"
    BY Beginnings DEF NoErrand
  <2>2. Becomes(h, r) /\ UNCHANGED <<world, notes, phoneOwes, sub>>
    BY DEF BeginAsk
  <2> HIDE DEF r
  <2> QED
    BY <1>1, <1>8, <2>1, <2>2 DEF world
<1>10. CASE OperatorAsks(h)
  <2> DEFINE r == [NoErrand EXCEPT !.pc = "ask", !.now = Clock]
  <2>1. r \in ErrandRows /\ r.pc = "ask"
    BY Beginnings DEF NoErrand
  <2>2. Becomes(h, r)
    BY <1>10 DEF OperatorAsks
  <2> HIDE DEF r
  <2>3. operator' \in 0 .. MaxOperator
    BY <1>1, <1>10, PayAssumption DEF OperatorAsks
  <2>4. sub' \in SubRows
    <3>1. [sub EXCEPT !.held = FALSE] \in SubRows
      BY <1>1 DEF SubRows
    <3> QED
      BY <1>1, <1>10, <3>1 DEF OperatorAsks
  <2> QED
    BY <1>8, <1>10, <2>1, <2>2, <2>3, <2>4 DEF OperatorAsks
<1>11. CASE AppleAnswers(h)
  <2> DEFINE r == [handler[h] EXCEPT !.pc = "store", !.answer = apple]
  <2>1. r \in ErrandRows /\ r.pc = "store"
    BY <1>1 DEF ErrandRows
  <2>2. Becomes(h, r) /\ UNCHANGED <<world, notes, phoneOwes, sub>>
    BY <1>11 DEF AppleAnswers
  <2> HIDE DEF r
  <2> QED
    BY <1>1, <2>1, <2>2, ErrandType DEF world
<1>12. CASE AppleFails(h)
  <2>1. Becomes(h, ToMark(handler[h].note)) /\ UNCHANGED <<world, notes, phoneOwes, sub>>
    BY <1>12 DEF AppleFails
  <2> QED
    BY <1>1, <1>2, <2>1, ErrandType DEF world
<1>13. CASE Store(h)
  <2>1. Becomes(h, ToMark(handler[h].note)) /\ UNCHANGED <<world, notes>>
    BY <1>13 DEF Store
  <2>2. sub' \in SubRows
    <3> DEFINE answer == handler[h].answer
               now == handler[h].now
    <3>1. /\ answer \in SubState /\ now \in 0 .. 2 * MaxChange + 1
          /\ sub' = [sub EXCEPT !.known = TRUE, !.state = answer, !.stamp = now, !.fresh = TRUE]
      BY <1>1, <1>13 DEF Store
    <3> HIDE DEF answer, now
    <3> QED
      BY <1>1, <3>1 DEF SubRows
  <2>3. phoneOwes' \in BOOLEAN
    <3>1. PICK owes \in BOOLEAN : owes = (phoneOwes /\ ~handler[h].phone)
      BY Zenon
    <3> QED
      BY <1>13, <3>1 DEF Store
  <2> QED
    BY <1>1, <1>2, <2>1, <2>2, <2>3, ErrandType DEF world
<1> QED
  BY <1>4, <1>5, <1>6, <1>7, <1>9, <1>10, <1>11, <1>12, <1>13 DEF RequestNext

LEMMA OtherTypes ==
  ASSUME SubInv, GrowStale \/ Revoke \/ ServerFails \/ UNCHANGED payVars
  PROVE  SubInv'
<1>1. /\ sub \in SubRows /\ sub.state \in SubState /\ handler \in [Errands -> ErrandRows]
      /\ operator \in 0 .. MaxOperator /\ failures \in 0 .. MaxFailures
  BY SubTypes DEF SubInv, SubTypeOK, SubRows
<1>2. CASE GrowStale \/ Revoke
  <2>1. sub' \in SubRows
    <3>1. CASE GrowStale
      BY <1>1, <3>1 DEF GrowStale, SubRows
    <3>2. CASE Revoke
      <4> DEFINE state == [sub.state EXCEPT !.status = "REVOKED"]
      <4>1. state \in SubState
        BY <1>1 DEF SubState, SubStatus
      <4>2. sub' = [sub EXCEPT !.held = TRUE, !.state = state]
        BY <1>1, <3>2 DEF Revoke, SubRows
      <4> HIDE DEF state
      <4> QED
        BY <1>1, <4>1, <4>2 DEF SubRows
    <3> QED
      BY <1>2, <3>1, <3>2
  <2>2. operator' \in 0 .. MaxOperator
    BY <1>1, <1>2, PayAssumption DEF GrowStale, Revoke, world
  <2>3. UNCHANGED <<apple, today, changes, returns, failures, notes, phoneOwes, handler>>
    BY <1>2 DEF GrowStale, Revoke, world
  <2> QED
    BY <2>1, <2>2, <2>3 DEF SubInv, SubTypeOK, SubRows, HasNote, InStep
<1>3. CASE ServerFails
  <2>1. handler' \in [Errands -> ErrandRows]
    BY <1>3, SubStarts DEF ServerFails
  <2>2. HasNote'
    BY <1>3 DEF ServerFails, HasNote, NoErrand
  <2>3. failures' \in 0 .. MaxFailures
    BY <1>1, <1>3, PayAssumption DEF ServerFails
  <2> QED
    BY <1>3, <2>1, <2>2, <2>3 DEF ServerFails, SubInv, SubTypeOK, ErrandRows, InStep
<1>4. CASE UNCHANGED payVars
  BY <1>4 DEF SubInv, SubTypeOK, HasNote, InStep, payVars
<1> QED
  BY <1>2, <1>3, <1>4

LEMMA SubHolds == SubSpec => []SubInv
<1>1. SubInv /\ [SubNext]_payVars => SubInv'
  BY AppleTypes, RequestTypes, OtherTypes DEF SubNext
<1> QED
  BY InitSub, <1>1, PTL DEF SubSpec

-----------------------------------------------------------------------------
(* Every request, notification and stored row keeps its shape, the numbers
   their bounds: of a notification, never more attempts than the sweep allows
   (attempts < MAX in unprocessedNotifications).                             *)
THEOREM SubscriptionTypes == SubSpec => []SubTypeOK
<1>1. SubInv => SubTypeOK
  BY DEF SubInv
<1> QED
  BY SubHolds, <1>1, PTL

(* Whatever a notification handled late has seen before, it leaves alone the
   state a later signed one has stored.                                      *)
THEOREM LaterNoteStays == SubSpec => LatestNoteWins
<1>1. ASSUME SubInv, NEW h \in Errands, NEW n \in ChangeIds,
             WriteNote(h), handler[h].note < n, sub.stamp = 2 * n
      PROVE  sub'.state = sub.state
  <2>1. handler[h].note \in 0 .. MaxChange
    BY <1>1, SubTypes DEF ErrandRows
  <2>2. ~NoLaterNote(handler[h].note)
    BY <1>1, <2>1, PayAssumption DEF NoLaterNote, ChangeIds
  <2> QED
    BY <1>1, <2>2 DEF WriteNote
<1>2. SubInv => \A h \in Errands, n \in ChangeIds :
        WriteNote(h) /\ handler[h].note < n /\ sub.stamp = 2 * n => sub'.state = sub.state
  BY <1>1
<1> QED
  BY SubHolds, <1>2, PTL DEF LatestNoteWins

=============================================================================
