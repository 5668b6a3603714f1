------------------------ MODULE HomesAndCooking_Proofs ------------------------
(***************************************************************************)
(* OwnerRemains, NoStrayListener and GuestsOfOwners for any number of      *)
(* people, households, invitations, requests and sockets                   *)
(* (households.service.ts, household-cleanup.util.ts,                      *)
(* ws-auth.adapter.ts).                                                    *)
(*                                                                         *)
(* A demotion counts the owners under the lock of the roster, and nobody   *)
(* who takes that lock afterwards may end the ownership of another before  *)
(* it commits: so the owner it has counted still is there (OwnerCounted).  *)
(* A departure needs no such fact: it settles who owns the household       *)
(* after the deletion. A socket that has not yet been moved out of a room  *)
(* was either put there by a handshake that will look again (SocketFits),  *)
(* or its holder's departure is about to move it. Whoever is about to take *)
(* the ownership of a link's issuer away holds the link until it commits   *)
(* (CallKills).                                                            *)
(*                                                                         *)
(* Then CookScenarios: the scenario on the telephones fits the recipe, and *)
(* nothing late is brought in over it (PeoplePrevail), for every recipe,   *)
(* number of versions, tasks and pages.                                    *)
(***************************************************************************)
EXTENDS Households, CookScenarios, Integers, SequenceTheorems, FiniteSetTheorems,
        WellFoundedInduction, TLAPS

RoleTables == [Users -> [Homes -> Role]]

LinkRecords == [at: {"none", "open", "dead", "declined", "redeemed"},
                home: Homes \cup {Unset}, by: Users \cup {Unset},
                beside: BOOLEAN, guests: SUBSET Users, astray: BOOLEAN]

CallRecords == [op: HomeOps \cup {"none", "leave"}, pc: {"idle", "checked", "locked", "departed", "rooms"},
                who: Users \cup {Unset}, home: Homes \cup {Unset},
                target: Users \cup {Unset}, link: Links \cup {Unset}, owned: BOOLEAN,
                left: SUBSET Homes, dying: SUBSET Links]

SocketRecords == [pc: {"off", "user", "read", "joined", "again", "on"},
                  saw: SUBSET Homes, rooms: SUBSET Homes, called: SUBSET Homes]

(* What a request is about is known from its start; a demotion is of an owner; *)
(* a departure leaves one household.                                          *)
CallFits(r) ==
  /\ r.pc # "idle" => r.who \in Users /\ r.home \in Homes
  /\ r.op = "demote" => r.owned
  /\ r.op \in {"demote", "remove"} => r.target \in Users
  /\ r.pc = "locked" => r.op \in {"demote", "remove"}
  /\ r.op = "leave" /\ r.pc \in {"checked", "departed"} => r.left = {r.home}

LinkFits(l) == l.at = "open" => l.home \in Homes

OwnerCounted ==
  \A c \in Calls : call[c].pc = "locked" =>
    /\ \A d \in Calls : call[d].pc = "locked" /\ call[d].home = call[c].home => d = c
    /\ call[c].op = "demote" =>
         \E u \in Users : u # call[c].target /\ role[u][call[c].home] = "OWNER"

SocketFits(s) ==
  /\ s.pc \in {"off", "user", "read"} => s.rooms \subseteq s.called
  /\ s.pc = "off" => s.rooms = {}
  /\ s.pc = "joined" => s.rooms \ s.called \subseteq s.saw

HomeInv ==
  /\ HomeTypeOK
  /\ \A c \in Calls : CallFits(call[c])
  /\ \A i \in Links : LinkFits(link[i])
  /\ \A s \in Sockets : SocketFits(socket[s])
  /\ OwnerCounted
  /\ OwnerRemains
  /\ NoStrayListener

-----------------------------------------------------------------------------
LEMMA TypeIsRecords ==
  HomeTypeOK <=> /\ role \in RoleTables
                 /\ standing \subseteq Homes
                 /\ link \in [Links -> LinkRecords]
                 /\ call \in [Calls -> CallRecords]
                 /\ socket \in [Sockets -> SocketRecords]
BY DEF HomeTypeOK, RoleTables, LinkRecords, CallRecords, SocketRecords

LEMMA TypeIsRecordsNext ==
  HomeTypeOK' <=> /\ role' \in RoleTables
                  /\ standing' \subseteq Homes
                  /\ link' \in [Links -> LinkRecords]
                  /\ call' \in [Calls -> CallRecords]
                  /\ socket' \in [Sockets -> SocketRecords]
BY DEF HomeTypeOK, RoleTables, LinkRecords, CallRecords, SocketRecords

LEMMA CallStarts == NoCall \in CallRecords /\ CallFits(NoCall) /\ NoCall.pc = "idle"
BY DEF NoCall, CallRecords, CallFits

LEMMA HomesStartRight == HomeInit => HomeInv
<1> SUFFICES ASSUME HomeInit PROVE HomeInv
  OBVIOUS
<1> USE HomeAssumption DEF HomeInit
<1>1. NoLink \in LinkRecords /\ NoLink.at = "none"
  BY DEF NoLink, LinkRecords
<1>2. /\ Closed \in SocketRecords /\ SocketFits(Closed) /\ Closed.rooms = {}
  BY DEF Closed, SocketRecords, SocketFits
<1>3. HomeTypeOK
  BY <1>1, <1>2, CallStarts, TypeIsRecords DEF RoleTables, Role
<1>4. \A c \in Calls : CallFits(call[c]) /\ call[c].pc = "idle"
  BY CallStarts
<1>5. OwnerCounted
  BY <1>4 DEF OwnerCounted
<1>6. OwnerRemains
  BY DEF OwnerRemains, Owners
<1>7. NoStrayListener
  BY <1>2 DEF NoStrayListener
<1> QED
  BY <1>1, <1>2, <1>3, <1>4, <1>5, <1>6, <1>7 DEF HomeInv, LinkFits

-----------------------------------------------------------------------------
(* One request moves. *)
LEMMA OneMoves ==
  ASSUME NEW c \in Calls, NEW r \in CallRecords, CallFits(r), Go(c, r),
         call \in [Calls -> CallRecords], \A d \in Calls : CallFits(call[d])
  PROVE  /\ call' \in [Calls -> CallRecords]
         /\ \A d \in Calls : CallFits(call'[d])
         /\ call'[c] = r
         /\ \A d \in Calls : d # c => call'[d] = call[d]
BY DEF Go

(* It takes no lock, changes no role and leaves its sockets where they are. *)
LEMMA QuietCall ==
  ASSUME HomeInv, NEW c \in Calls, NEW r \in CallRecords, CallFits(r), Go(c, r),
         call[c].pc # "rooms", r.pc # "locked",
         UNCHANGED <<role, standing, socket>>,
         link' \in [Links -> LinkRecords], \A i \in Links : LinkFits(link'[i])
  PROVE  HomeInv'
<1>1. /\ call' \in [Calls -> CallRecords]
      /\ \A d \in Calls : CallFits(call'[d])
      /\ call'[c] = r
      /\ \A d \in Calls : d # c => call'[d] = call[d]
  BY OneMoves, TypeIsRecords DEF HomeInv
<1>2. HomeTypeOK'
  BY <1>1, TypeIsRecords, TypeIsRecordsNext DEF HomeInv
<1>3. OwnerCounted'
  BY <1>1 DEF HomeInv, OwnerCounted
<1>4. OwnerRemains'
  BY DEF HomeInv, OwnerRemains, Owners
<1>5. \A u, h : Leaving(u, h) => Leaving(u, h)'
  BY <1>1 DEF Leaving
<1>6. NoStrayListener'
  BY <1>5 DEF HomeInv, NoStrayListener
<1> QED
  BY <1>1, <1>2, <1>3, <1>4, <1>6 DEF HomeInv

LEMMA LinksStay ==
  ASSUME HomeInv, link' = link
  PROVE  link' \in [Links -> LinkRecords] /\ \A i \in Links : LinkFits(link'[i])
BY TypeIsRecords DEF HomeInv

LEMMA Stopped ==
  ASSUME HomeInv, NEW c \in Calls, Stop(c), call[c].pc # "rooms",
         UNCHANGED <<role, standing, link, socket>>
  PROVE  HomeInv'
BY QuietCall, LinksStay, CallStarts DEF Stop

(* A request of u in h that has checked. *)
LEMMA RequestFits ==
  ASSUME NEW op \in HomeOps, NEW u \in Users, NEW h \in Homes
  PROVE  /\ Request(op, u, h) \in CallRecords
         /\ Request(op, u, h).op = op /\ Request(op, u, h).pc = "checked"
         /\ Request(op, u, h).who = u /\ Request(op, u, h).home = h
BY DEF Request, NoCall, CallRecords

LEMMA Starting ==
  ASSUME HomeInv, NEW c \in Calls, NEW r \in CallRecords, CallFits(r), Go(c, r),
         call[c].pc = "idle", r.pc = "checked", UNCHANGED <<role, standing, link, socket>>
  PROVE  HomeInv'
BY QuietCall, LinksStay

LEMMA StartPromoteKeeps ==
  ASSUME HomeInv, NEW c \in Calls, NEW u \in Users, NEW h \in Homes, NEW t \in Users,
         StartPromote(c, u, h, t)
  PROVE  HomeInv'
<1> DEFINE r == [Request("promote", u, h) EXCEPT !.target = t]
<1>1. r \in CallRecords /\ CallFits(r) /\ r.pc = "checked"
  BY RequestFits DEF StartPromote, Starts, CallRecords, CallFits
<1> QED
  BY <1>1, Starting DEF StartPromote, Starts

LEMMA StartLockedKeeps ==
  ASSUME HomeInv, NEW c \in Calls, NEW op, NEW u \in Users, NEW h \in Homes, NEW t \in Users,
         StartLocked(c, op, u, h, t)
  PROVE  HomeInv'
<1>1. PICK b \in BOOLEAN : b = (role[t][h] = "OWNER")
  OBVIOUS
<1>a. op \in HomeOps /\ op \in {"demote", "remove"} /\ (op = "demote" => b)
  BY <1>1 DEF StartLocked, Starts
<1>b. PICK q \in CallRecords : /\ q = Request(op, u, h) /\ q.op = op
                               /\ q.pc = "checked" /\ q.who = u /\ q.home = h
  BY <1>a, RequestFits
<1> DEFINE r == [Request(op, u, h) EXCEPT !.target = t, !.owned = b]
<1>2. r \in CallRecords /\ CallFits(r) /\ r.pc = "checked"
  BY <1>a, <1>b DEF CallRecords, CallFits
<1>3. Go(c, r)
  BY <1>1 DEF StartLocked
<1> QED
  BY <1>2, <1>3, Starting DEF StartLocked, Starts

LEMMA StartLeaveKeeps ==
  ASSUME HomeInv, NEW c \in Calls, NEW u \in Users, NEW h \in Homes, StartLeave(c, u, h)
  PROVE  HomeInv'
<1> DEFINE r == [Request("leave", u, h) EXCEPT !.left = {h}]
<1>1. r \in CallRecords /\ CallFits(r) /\ r.pc = "checked"
  BY RequestFits DEF StartLeave, Starts, CallRecords, CallFits
<1> QED
  BY <1>1, Starting DEF StartLeave, Starts

LEMMA StartInviteKeeps ==
  ASSUME HomeInv, NEW c \in Calls, NEW u \in Users, NEW h \in Homes, NEW i \in Links,
         StartInvite(c, u, h, i)
  PROVE  HomeInv'
<1> DEFINE r == [Request("invite", u, h) EXCEPT !.link = i]
<1>1. r \in CallRecords /\ CallFits(r) /\ r.pc = "checked"
  BY RequestFits DEF StartInvite, Starts, CallRecords, CallFits
<1> QED
  BY <1>1, Starting DEF StartInvite, Starts

LEMMA StartAcceptKeeps ==
  ASSUME HomeInv, NEW c \in Calls, NEW u \in Users, NEW i \in Links, StartAccept(c, u, i)
  PROVE  HomeInv'
<1> DEFINE h == link[i].home
           r == [Request("accept", u, h) EXCEPT !.link = i, !.left = HomesOf(u) \ {h}]
<1>1. h \in Homes
  BY DEF HomeInv, LinkFits, StartAccept
<1>2. HomesOf(u) \ {h} \subseteq Homes
  BY DEF HomesOf
<1>a. "accept" \in HomeOps
  BY DEF StartAccept, Starts
<1>b. PICK q \in CallRecords : /\ q = Request("accept", u, h) /\ q.op = "accept"
                               /\ q.pc = "checked" /\ q.who = u /\ q.home = h
  BY <1>a, <1>1, RequestFits
<1> HIDE DEF h
<1>3. r \in CallRecords /\ CallFits(r) /\ r.pc = "checked"
  BY <1>1, <1>2, <1>b DEF CallRecords, CallFits
<1> USE DEF h
<1> QED
  BY <1>3, Starting DEF StartAccept, Starts

LEMMA StartCreateKeeps ==
  ASSUME HomeInv, NEW c \in Calls, NEW u \in Users, NEW h \in Homes, StartCreate(c, u, h)
  PROVE  HomeInv'
<1>1. /\ Request("create", u, h) \in CallRecords /\ CallFits(Request("create", u, h))
      /\ Request("create", u, h).pc = "checked"
  BY RequestFits DEF StartCreate, Starts, CallRecords, CallFits
<1> QED
  BY <1>1, Starting DEF StartCreate, Starts

-----------------------------------------------------------------------------
LEMMA InviteKeeps ==
  ASSUME HomeInv, NEW c \in Calls, Invite(c) PROVE HomeInv'
<1> DEFINE r == call[c]
<1>1. r \in CallRecords /\ CallFits(r) /\ r.pc = "checked" /\ r.who \in Users /\ r.home \in Homes
  BY TypeIsRecords DEF HomeInv, Invite, CallFits
<1>2. \A beside \in BOOLEAN :
        LET new == [NoLink EXCEPT !.at = "open", !.home = r.home, !.by = r.who, !.beside = beside]
        IN  new \in LinkRecords /\ LinkFits(new)
  BY <1>1 DEF LinkRecords, LinkFits, NoLink
<1>3. link' \in [Links -> LinkRecords] /\ \A i \in Links : LinkFits(link'[i])
  <2>1. link \in [Links -> LinkRecords] /\ \A i \in Links : LinkFits(link[i])
    BY TypeIsRecords DEF HomeInv
  <2>2. CASE link' = link
    BY <2>1, <2>2
  <2>3. CASE link' # link
    <3>1. PICK new \in LinkRecords : LinkFits(new) /\ link' = [link EXCEPT ![r.link] = new]
      <4>1. (role[r.who][r.home] # "OWNER" \/ MemberLocked(r.who, r.home)) \in BOOLEAN
        OBVIOUS
      <4> HIDE DEF r
      <4> QED
        BY <1>2, <2>3, <4>1 DEF Invite, r
    <3> QED
      BY <2>1, <3>1
  <2> QED
    BY <2>2, <2>3
<1> QED
  BY <1>1, <1>3, QuietCall, CallStarts DEF Invite, Stop

LEMMA DepartKeeps ==
  ASSUME HomeInv, NEW c \in Calls, Depart(c) PROVE HomeInv'
<1> DEFINE dying == UNION {OpenBy(call[c].who, h) : h \in call[c].left}
           r == [call[c] EXCEPT !.pc = "departed", !.dying = dying]
<1>1. call[c] \in CallRecords /\ CallFits(call[c]) /\ call[c].pc = "checked"
  BY TypeIsRecords DEF HomeInv, Depart
<1>2. dying \subseteq Links
  BY DEF OpenBy
<1> HIDE DEF dying
<1>3. r \in CallRecords /\ r.pc = "departed" /\ CallFits(r)
  BY <1>1, <1>2 DEF CallRecords, CallFits
<1>4. CASE Stop(c)
  BY <1>1, <1>4, Stopped DEF Depart
<1>5. CASE Go(c, r)
  BY <1>1, <1>3, <1>5, QuietCall, LinksStay DEF Depart
<1> QED
  BY <1>4, <1>5 DEF Depart, dying

(* More than one owner: another owner than t. *)
LEMMA AnotherOwner ==
  ASSUME NEW S, NEW t, Cardinality(S) > 1 PROVE \E u \in S : u # t
<1> SUFFICES ASSUME S \subseteq {t} PROVE FALSE
  OBVIOUS
<1>1. CASE S = {}
  BY <1>1, FS_EmptySet
<1>2. CASE S = {t}
  <2>1. Cardinality({t}) = 1
    BY FS_Singleton
  <2> QED
    BY <1>2, <2>1
<1> QED
  BY <1>1, <1>2

LEMMA LockKeeps ==
  ASSUME HomeInv, NEW c \in Calls, Lock(c) PROVE HomeInv'
<1> DEFINE dying == IF call[c].op = "remove" THEN OpenOf(call[c].home)
                                             ELSE OpenBy(call[c].target, call[c].home)
           r == [call[c] EXCEPT !.pc = "locked", !.dying = dying]
<1>1. /\ call[c] \in CallRecords /\ CallFits(call[c]) /\ call[c].pc = "checked"
      /\ call[c].op \in {"demote", "remove"}
      /\ ~RosterLocked(call[c].home)
      /\ UNCHANGED <<role, standing, link, socket>>
  BY TypeIsRecords DEF HomeInv, Lock
<1>2. dying \subseteq Links
  BY DEF OpenOf, OpenBy
<1>3. CASE Stop(c)
  BY <1>1, <1>3, Stopped
<1>4. CASE MayGo(call[c]) /\ Go(c, r)
  <2> HIDE DEF dying
  <2>1. /\ r \in CallRecords /\ CallFits(r) /\ r.pc = "locked" /\ r.home = call[c].home
        /\ r.op = call[c].op /\ r.target = call[c].target
    BY <1>1, <1>2 DEF CallRecords, CallFits
  <2>2. /\ call' \in [Calls -> CallRecords]
        /\ \A d \in Calls : CallFits(call'[d])
        /\ call'[c] = r
        /\ \A d \in Calls : d # c => call'[d] = call[d]
    BY <1>4, <2>1, OneMoves, TypeIsRecords DEF HomeInv
  <2> HIDE DEF r
  <2>3. HomeTypeOK'
    BY <1>1, <2>2, TypeIsRecords, TypeIsRecordsNext DEF HomeInv
  <2>4. r.op = "demote" => \E u \in Users : u # r.target /\ role[u][r.home] = "OWNER"
    <3> SUFFICES ASSUME r.op = "demote"
                 PROVE  \E u \in Users : u # r.target /\ role[u][r.home] = "OWNER"
      OBVIOUS
    <3>1. Cardinality(Owners(call[c].home)) > 1
      BY <1>1, <1>4, <2>1 DEF MayGo, CallFits
    <3>2. PICK u \in Owners(call[c].home) : u # r.target
      BY <3>1, AnotherOwner
    <3> QED
      BY <2>1, <3>2 DEF Owners
  <2>5. \A d \in Calls : d # c /\ call[d].pc = "locked" => call[d].home # r.home
    BY <1>1, <2>1 DEF RosterLocked
  <2>6. OwnerCounted'
    BY <1>1, <2>2, <2>4, <2>5 DEF HomeInv, OwnerCounted
  <2>7. OwnerRemains'
    BY <1>1 DEF HomeInv, OwnerRemains, Owners
  <2>8. \A u, h : Leaving(u, h) => Leaving(u, h)'
    BY <1>1, <2>2 DEF Leaving
  <2>9. NoStrayListener'
    BY <1>1, <2>8 DEF HomeInv, NoStrayListener
  <2> QED
    BY <1>1, <2>2, <2>3, <2>6, <2>7, <2>9 DEF HomeInv
<1> QED
  BY <1>3, <1>4 DEF Lock

-----------------------------------------------------------------------------
(* Roles are given, none is taken away: a promotion and a new household.     *)
LEMMA RolesGiven ==
  ASSUME HomeInv, NEW c \in Calls, NEW r \in CallRecords, CallFits(r), Go(c, r),
         call[c].pc # "rooms", r.pc # "locked", UNCHANGED <<link, socket>>,
         role' \in RoleTables, standing' \subseteq Homes,
         \A u \in Users, h \in Homes :
           /\ role[u][h] = "OWNER" => role'[u][h] = "OWNER"
           /\ role[u][h] # "none" => role'[u][h] # "none",
         \A h \in standing' : h \in standing \/ \E u \in Users : role'[u][h] = "OWNER"
  PROVE  HomeInv'
<1>1. /\ call' \in [Calls -> CallRecords]
      /\ \A d \in Calls : CallFits(call'[d])
      /\ call'[c] = r
      /\ \A d \in Calls : d # c => call'[d] = call[d]
  BY OneMoves, TypeIsRecords DEF HomeInv
<1>2. HomeTypeOK'
  BY <1>1, TypeIsRecords, TypeIsRecordsNext DEF HomeInv
<1>3. \A d \in Calls : call[d].pc = "locked" => call[d].home \in Homes
  BY DEF HomeInv, CallFits
<1>4. OwnerCounted'
  BY <1>1, <1>3 DEF HomeInv, OwnerCounted
<1>5. OwnerRemains'
  BY TypeIsRecords DEF HomeInv, OwnerRemains, Owners
<1>6. \A u, h : Leaving(u, h) => Leaving(u, h)'
  BY <1>1 DEF Leaving
<1>7. \A s \in Sockets : socket[s].rooms \subseteq Homes /\ HolderOf[s] \in Users
  BY TypeIsRecords, HomeAssumption DEF HomeInv, SocketRecords
<1>8. NoStrayListener'
  BY <1>6, <1>7 DEF HomeInv, NoStrayListener
<1> QED
  BY <1>1, <1>2, <1>4, <1>5, <1>8, LinksStay DEF HomeInv

LEMMA PromoteKeeps ==
  ASSUME HomeInv, NEW c \in Calls, Promote(c) PROVE HomeInv'
<1> DEFINE r == call[c]
<1>1. role \in RoleTables /\ standing \subseteq Homes
  BY TypeIsRecords DEF HomeInv
<1>2. /\ role' \in RoleTables
      /\ \A u \in Users, h \in Homes :
           /\ role[u][h] = "OWNER" => role'[u][h] = "OWNER"
           /\ role[u][h] # "none" => role'[u][h] # "none"
  BY <1>1 DEF Promote, RoleTables, Role
<1> QED
  BY <1>1, <1>2, RolesGiven, CallStarts DEF Promote, Stop

LEMMA CreateKeeps ==
  ASSUME HomeInv, NEW c \in Calls, Create(c) PROVE HomeInv'
<1> DEFINE r == [call[c] EXCEPT !.pc = "rooms"]
<1>1. /\ role \in RoleTables /\ standing \subseteq Homes
      /\ call[c] \in CallRecords /\ CallFits(call[c]) /\ call[c].pc = "checked"
      /\ call[c].who \in Users /\ call[c].home \in Homes /\ call[c].op = "create"
  BY TypeIsRecords DEF HomeInv, Create, CallFits
<1>2. r \in CallRecords /\ CallFits(r) /\ r.pc = "rooms"
  BY <1>1 DEF CallRecords, CallFits
<1>3. /\ role' \in RoleTables
      /\ \A u \in Users, h \in Homes :
           /\ role[u][h] = "OWNER" => role'[u][h] = "OWNER"
           /\ role[u][h] # "none" => role'[u][h] # "none"
      /\ role'[call[c].who][call[c].home] = "OWNER"
  BY <1>1 DEF Create, RoleTables, Role
<1> QED
  BY <1>1, <1>2, <1>3, RolesGiven DEF Create

-----------------------------------------------------------------------------
(* Settling gives an owner to every household of S that still has members,   *)
(* and touches nothing but the heir.                                         *)
LEMMA SettledGives ==
  ASSUME NEW base \in RoleTables, NEW S \in SUBSET Homes, Settled(base, S, role')
  PROVE  /\ role' \in RoleTables
         /\ \A u \in Users, h \in Homes :
              /\ base[u][h] = "OWNER" => role'[u][h] = "OWNER"
              /\ base[u][h] # "none" => role'[u][h] # "none"
              /\ h \notin S => role'[u][h] = base[u][h]
         /\ \A h \in S : (\E u \in Users : role'[u][h] # "none") =>
                         \E u \in Users : role'[u][h] = "OWNER"
<1> DEFINE D == {h \in S : NeedsHeir(base, h)}
<1>1. PICK heir \in [D -> Users] :
        /\ \A h \in DOMAIN heir : base[heir[h]][h] # "none"
        /\ role' = [u \in Users |-> [h \in Homes |->
                    IF h \in DOMAIN heir /\ heir[h] = u THEN "OWNER" ELSE base[u][h]]]
  BY DEF Settled
<1>2. DOMAIN heir = D /\ \A h \in D : heir[h] \in Users /\ h \in S
  BY <1>1
<1>3. \A u \in Users, h \in Homes :
        role'[u][h] = IF h \in D /\ heir[h] = u THEN "OWNER" ELSE base[u][h]
  BY <1>1, <1>2
<1>4. role' \in RoleTables
  BY <1>1, <1>2 DEF RoleTables, Role
<1>5. ASSUME NEW h \in S, NEW v \in Users, role'[v][h] # "none"
      PROVE  \E u \in Users : role'[u][h] = "OWNER"
  <2>1. CASE h \in D
    BY <1>2, <1>3, <2>1
  <2>2. CASE h \notin D
    BY <1>3, <1>5, <2>2 DEF NeedsHeir
  <2> QED
    BY <2>1, <2>2
<1>6. ASSUME NEW h \in Homes, h \notin S PROVE h \notin D
  BY <1>6
<1> HIDE DEF D
<1> QED
  BY <1>3, <1>4, <1>5, <1>6

(* u leaves the households S: what else the transaction writes gives roles.  *)
LEMMA Departures ==
  ASSUME HomeInv, NEW c \in Calls, NEW r \in CallRecords, CallFits(r), Go(c, r),
         NEW base \in RoleTables, NEW u \in Users \cup {Unset}, NEW S \in SUBSET Homes,
         call[c].pc # "rooms", r.pc = "rooms", r.who = u, r.left = S,
         \A v \in Users, h \in Homes : ~(v = u /\ h \in S) =>
           /\ role[v][h] = "OWNER" => base[v][h] = "OWNER"
           /\ role[v][h] # "none" => base[v][h] # "none",
         \A d \in Calls : d # c /\ call[d].pc = "locked" => call[d].home \notin S,
         Settled(base, S, role'), standing' = Standing(role'),
         socket' = socket, link' \in [Links -> LinkRecords], \A i \in Links : LinkFits(link'[i])
  PROVE  HomeInv'
<1>1. /\ call' \in [Calls -> CallRecords]
      /\ \A d \in Calls : CallFits(call'[d])
      /\ call'[c] = r
      /\ \A d \in Calls : d # c => call'[d] = call[d]
  BY OneMoves, TypeIsRecords DEF HomeInv
<1>2. /\ role' \in RoleTables
      /\ \A v \in Users, h \in Homes :
           /\ base[v][h] = "OWNER" => role'[v][h] = "OWNER"
           /\ base[v][h] # "none" => role'[v][h] # "none"
           /\ h \notin S => role'[v][h] = base[v][h]
      /\ \A h \in S : (\E v \in Users : role'[v][h] # "none") =>
                      \E v \in Users : role'[v][h] = "OWNER"
  BY SettledGives
<1>3. standing \subseteq Homes /\ standing' \subseteq standing
  BY TypeIsRecords DEF HomeInv, Standing
<1>4. HomeTypeOK'
  BY <1>1, <1>2, <1>3, TypeIsRecords, TypeIsRecordsNext DEF HomeInv
<1>5. OwnerCounted'
  <2> SUFFICES ASSUME NEW d \in Calls, call'[d].pc = "locked"
               PROVE  /\ \A e \in Calls : call'[e].pc = "locked" /\ call'[e].home = call'[d].home => e = d
                      /\ call'[d].op = "demote" =>
                           \E v \in Users : v # call'[d].target /\ role'[v][call'[d].home] = "OWNER"
    BY DEF OwnerCounted
  <2>1. d # c /\ call'[d] = call[d] /\ call[d].home \in Homes /\ call[d].home \notin S
    BY <1>1 DEF HomeInv, CallFits
  <2>2. \A v \in Users : role[v][call[d].home] = "OWNER" => role'[v][call[d].home] = "OWNER"
    BY <1>2, <2>1
  <2> QED
    BY <1>1, <2>1, <2>2 DEF HomeInv, OwnerCounted
<1>6. OwnerRemains'
  <2> SUFFICES ASSUME NEW h \in standing' PROVE \E v \in Users : role'[v][h] = "OWNER"
    BY DEF OwnerRemains, Owners
  <2>1. h \in standing /\ h \in Homes /\ \E v \in Users : role'[v][h] # "none"
    BY <1>3 DEF Standing
  <2>2. CASE h \in S
    BY <1>2, <2>1, <2>2
  <2>3. CASE h \notin S
    <3>1. PICK v \in Users : role[v][h] = "OWNER"
      BY <2>1 DEF HomeInv, OwnerRemains, Owners
    <3> QED
      BY <1>2, <2>1, <2>3, <3>1
  <2> QED
    BY <2>2, <2>3
<1>7. \A v, h : Leaving(v, h) => Leaving(v, h)'
  BY <1>1 DEF Leaving
<1>8. \A h \in S : Leaving(u, h)'
  BY <1>1 DEF Leaving
<1>9. NoStrayListener'
  <2> SUFFICES ASSUME NEW s \in Sockets, NEW h \in socket[s].rooms \ socket[s].called
               PROVE  \/ role'[HolderOf[s]][h] # "none"
                      \/ socket[s].pc = "joined"
                      \/ socket[s].pc = "again" /\ h \in socket[s].saw
                      \/ Leaving(HolderOf[s], h)'
    BY DEF NoStrayListener
  <2>1. HolderOf[s] \in Users /\ h \in Homes
    BY TypeIsRecords, HomeAssumption DEF HomeInv, SocketRecords
  <2>2. CASE HolderOf[s] = u /\ h \in S
    BY <1>8, <2>2
  <2>3. CASE ~(HolderOf[s] = u /\ h \in S)
    <3>1. role[HolderOf[s]][h] # "none" => role'[HolderOf[s]][h] # "none"
      BY <1>2, <2>1, <2>3
    <3> QED
      BY <1>7, <3>1 DEF HomeInv, NoStrayListener
  <2> QED
    BY <2>2, <2>3
<1> QED
  BY <1>1, <1>4, <1>5, <1>6, <1>9 DEF HomeInv

LEMMA KillFits ==
  ASSUME NEW S, link \in [Links -> LinkRecords], \A i \in Links : LinkFits(link[i])
  PROVE  /\ Kill(S) \in [Links -> LinkRecords]
         /\ \A i \in Links : LinkFits(Kill(S)[i])
         /\ \A i \in Links : Kill(S)[i].at \in {link[i].at, "dead"}
BY DEF Kill, LinkRecords, LinkFits

LEMMA DepartedFits ==
  ASSUME NEW r, role \in RoleTables
  PROVE  /\ Departed(r) \in RoleTables
         /\ \A v \in Users, h \in Homes :
              ~(v = r.who /\ h \in r.left) => Departed(r)[v][h] = role[v][h]
BY DEF Departed, RoleTables, Role

LEMMA CommitLeaveKeeps ==
  ASSUME HomeInv, NEW c \in Calls, CommitLeave(c) PROVE HomeInv'
<1> DEFINE r == [call[c] EXCEPT !.pc = "rooms", !.dying = {}]
<1>1. /\ role \in RoleTables /\ link \in [Links -> LinkRecords] /\ \A i \in Links : LinkFits(link[i])
      /\ call[c] \in CallRecords /\ CallFits(call[c]) /\ call[c].pc = "departed"
      /\ call[c].op = "leave"
  BY TypeIsRecords DEF HomeInv, CommitLeave
<1>2. /\ r \in CallRecords /\ CallFits(r) /\ r.pc = "rooms" /\ r.who = call[c].who
      /\ r.left = call[c].left /\ r.left \in SUBSET Homes /\ r.who \in Users \cup {Unset}
  BY <1>1 DEF CallRecords, CallFits
<1>3. call[c].left = {call[c].home}
  BY <1>1 DEF CallFits
<1>4. \A d \in Calls : d # c /\ call[d].pc = "locked" => call[d].home \notin call[c].left
  BY <1>3 DEF CommitLeave, RosterLocked
<1> HIDE DEF r
<1>5. Go(c, r) /\ link' = Kill(call[c].dying) /\ socket' = socket
      /\ Settled(Departed(call[c]), call[c].left, role') /\ standing' = Standing(role')
  BY DEF CommitLeave, r
<1>6. /\ Departed(call[c]) \in RoleTables
      /\ \A v \in Users, h \in Homes : ~(v = r.who /\ h \in r.left) =>
           Departed(call[c])[v][h] = role[v][h]
  BY <1>1, <1>2, DepartedFits
<1>7. link' \in [Links -> LinkRecords] /\ \A i \in Links : LinkFits(link'[i])
  BY <1>1, <1>5, KillFits
<1> QED
  BY <1>1, <1>2, <1>4, <1>5, <1>6, <1>7, Departures

\* What becomes of the link that is redeemed.
LEMMA Redeemed ==
  ASSUME NEW c \in Calls, CommitAccept(c), Redeemable(call[c])
  PROVE  \E astray \in BOOLEAN :
           /\ astray => role[link[call[c].link].by][call[c].home] # "OWNER"
           /\ link' = [Kill(call[c].dying) EXCEPT ![call[c].link] = LetIn(@, call[c].who, astray)]
<1> DEFINE astray == /\ role[call[c].who][call[c].home] = "none"
                     /\ role[link[call[c].link].by][call[c].home] # "OWNER"
<1>1. astray \in BOOLEAN /\ (astray => role[link[call[c].link].by][call[c].home] # "OWNER")
  OBVIOUS
<1>2. link' = [Kill(call[c].dying) EXCEPT ![call[c].link] = LetIn(@, call[c].who, astray)]
  BY DEF CommitAccept
<1> HIDE DEF astray
<1> QED
  BY <1>1, <1>2

LEMMA CommitAcceptKeeps ==
  ASSUME HomeInv, NEW c \in Calls, CommitAccept(c) PROVE HomeInv'
<1> DEFINE q == call[c]
           r == [q EXCEPT !.pc = "rooms", !.dying = {}]
           joined == [Departed(q) EXCEPT ![q.who][q.home] = IF @ = "none" THEN "MEMBER" ELSE @]
<1>1. /\ role \in RoleTables /\ link \in [Links -> LinkRecords] /\ \A i \in Links : LinkFits(link[i])
      /\ q \in CallRecords /\ CallFits(q) /\ q.pc \in {"checked", "departed"}
      /\ q.op = "accept"
  BY TypeIsRecords DEF HomeInv, CommitAccept
<1>2. /\ r \in CallRecords /\ CallFits(r) /\ r.pc = "rooms" /\ r.who = q.who
      /\ r.left = q.left /\ r.left \in SUBSET Homes /\ r.who \in Users \cup {Unset}
  BY <1>1 DEF CallRecords, CallFits
<1>3. CASE ~Redeemable(q)
  BY <1>1, <1>3, Stopped DEF CommitAccept
<1>4. CASE Redeemable(q)
  <2>1. /\ Settled(joined, q.left, role') /\ standing' = Standing(role')
        /\ Go(c, r) /\ socket' = socket
    BY <1>4 DEF CommitAccept
  <2>2. \A d \in Calls : d # c /\ call[d].pc = "locked" => call[d].home \notin r.left
    BY <1>2 DEF CommitAccept, RosterLocked
  <2>3. /\ Departed(q) \in RoleTables
        /\ \A v \in Users, h \in Homes : ~(v = r.who /\ h \in r.left) =>
             Departed(q)[v][h] = role[v][h]
    BY <1>1, <1>2, DepartedFits
  <2>4. /\ joined \in RoleTables
        /\ \A v \in Users, h \in Homes :
             /\ Departed(q)[v][h] = "OWNER" => joined[v][h] = "OWNER"
             /\ Departed(q)[v][h] # "none" => joined[v][h] # "none"
    BY <2>3 DEF RoleTables, Role
  <2>5. /\ Kill(q.dying) \in [Links -> LinkRecords]
        /\ \A i \in Links : LinkFits(Kill(q.dying)[i])
    BY <1>1, KillFits
  <2>6. link' \in [Links -> LinkRecords] /\ \A i \in Links : LinkFits(link'[i])
    <3> DEFINE k == Kill(q.dying)
    <3>1. PICK astray \in BOOLEAN : link' = [k EXCEPT ![q.link] = LetIn(@, q.who, astray)]
      BY <1>4, Redeemed
    <3>2. q.who \in Users
      BY <1>1 DEF CallFits
    <3>3. \A l \in LinkRecords : LetIn(l, q.who, astray) \in LinkRecords /\ LinkFits(LetIn(l, q.who, astray))
      BY <3>2 DEF LinkRecords, LinkFits, LetIn
    <3> HIDE DEF k, q
    <3>4. k \in [Links -> LinkRecords] /\ \A i \in Links : LinkFits(k[i])
      BY <2>5 DEF k
    <3> QED
      BY <3>1, <3>3, <3>4
  <2> HIDE DEF r, joined, q
  <2>7. /\ call[c].pc # "rooms"
        /\ \A v \in Users, h \in Homes : ~(v = r.who /\ h \in r.left) =>
             /\ role[v][h] = "OWNER" => joined[v][h] = "OWNER"
             /\ role[v][h] # "none" => joined[v][h] # "none"
    BY <1>1, <2>3, <2>4 DEF q
  <2> QED
    BY <1>2, <2>1, <2>2, <2>4, <2>6, <2>7, Departures
<1> QED
  BY <1>3, <1>4

LEMMA CommitLockedKeeps ==
  ASSUME HomeInv, NEW c \in Calls, CommitLocked(c) PROVE HomeInv'
<1> DEFINE q == call[c]
           after == [role EXCEPT ![q.target][q.home] = IF q.op = "remove" THEN "none" ELSE "MEMBER"]
<1>1. /\ role \in RoleTables /\ link \in [Links -> LinkRecords] /\ \A i \in Links : LinkFits(link[i])
      /\ q \in CallRecords /\ CallFits(q) /\ q.pc = "locked" /\ standing \subseteq Homes
      /\ q.op \in {"demote", "remove"} /\ q.home \in Homes
  BY TypeIsRecords DEF HomeInv, CommitLocked, CallFits
<1>2. /\ after \in RoleTables
      /\ \A v \in Users, h \in Homes : ~(v = q.target /\ h = q.home) => after[v][h] = role[v][h]
  BY <1>1 DEF RoleTables, Role
<1>3. \A d \in Calls : d # c /\ call[d].pc = "locked" => call[d].home # q.home
  BY <1>1 DEF HomeInv, OwnerCounted
<1>4. CASE role[q.target][q.home] = "none"
  BY <1>1, <1>4, Stopped DEF CommitLocked
<1>5. CASE role[q.target][q.home] # "none" /\ q.op = "remove"
  <2> DEFINE r == [q EXCEPT !.pc = "rooms", !.who = q.target, !.left = {q.home}, !.dying = {}]
  <2>1. /\ Settled(after, {q.home}, role') /\ standing' = Standing(role')
        /\ link' = Kill(q.dying) /\ Go(c, r) /\ socket' = socket
    BY <1>5 DEF CommitLocked
  <2>2. /\ r \in CallRecords /\ CallFits(r) /\ r.pc = "rooms" /\ r.who = q.target
        /\ r.left = {q.home} /\ r.left \in SUBSET Homes /\ r.who \in Users \cup {Unset}
    BY <1>1 DEF CallRecords, CallFits
  <2>3. link' \in [Links -> LinkRecords] /\ \A i \in Links : LinkFits(link'[i])
    BY <1>1, <2>1, KillFits
  <2> HIDE DEF r, after, q
  <2>4. /\ call[c].pc # "rooms"
        /\ Settled(after, r.left, role')
        /\ \A d \in Calls : d # c /\ call[d].pc = "locked" => call[d].home \notin r.left
        /\ \A v \in Users, h \in Homes : ~(v = r.who /\ h \in r.left) =>
             /\ role[v][h] = "OWNER" => after[v][h] = "OWNER"
             /\ role[v][h] # "none" => after[v][h] # "none"
    BY <1>1, <1>2, <1>3, <2>1, <2>2 DEF q
  <2>5. after \in RoleTables /\ Go(c, r) /\ standing' = Standing(role') /\ socket' = socket
    BY <1>2, <2>1
  <2>6. PICK base \in RoleTables : base = after
    BY <2>5
  <2>7. PICK moved \in CallRecords : moved = r
    BY <2>2
  <2>8. /\ CallFits(moved) /\ Go(c, moved) /\ moved.pc = "rooms"
        /\ moved.left \in SUBSET Homes /\ moved.who \in Users \cup {Unset}
        /\ Settled(base, moved.left, role')
        /\ \A d \in Calls : d # c /\ call[d].pc = "locked" => call[d].home \notin moved.left
        /\ \A v \in Users, h \in Homes : ~(v = moved.who /\ h \in moved.left) =>
             /\ role[v][h] = "OWNER" => base[v][h] = "OWNER"
             /\ role[v][h] # "none" => base[v][h] # "none"
    BY <2>2, <2>4, <2>5, <2>6, <2>7
  <2> QED
    BY <2>3, <2>4, <2>5, <2>8, Departures
<1>6. CASE role[q.target][q.home] # "none" /\ q.op = "demote"
  <2>1. /\ role' = after /\ standing' = Standing(role')
        /\ link' = Kill(q.dying) /\ Stop(c) /\ socket' = socket
    BY <1>6 DEF CommitLocked
  <2>2. /\ call' \in [Calls -> CallRecords]
        /\ \A d \in Calls : CallFits(call'[d])
        /\ call'[c] = NoCall
        /\ \A d \in Calls : d # c => call'[d] = call[d]
    BY <2>1, OneMoves, CallStarts, TypeIsRecords DEF HomeInv, Stop
  <2>3. link' \in [Links -> LinkRecords] /\ \A i \in Links : LinkFits(link'[i])
    BY <1>1, <2>1, KillFits
  <2>4. HomeTypeOK'
    BY <1>1, <1>2, <2>1, <2>2, <2>3, TypeIsRecords, TypeIsRecordsNext DEF HomeInv, Standing
  <2>5. \A v \in Users, h \in Homes : role[v][h] # "none" => role'[v][h] # "none"
    BY <1>1, <1>6, <2>1 DEF RoleTables, Role
  <2>6. PICK o \in Users : o # q.target /\ role[o][q.home] = "OWNER"
    BY <1>1, <1>6 DEF HomeInv, OwnerCounted
  <2>7. OwnerRemains'
    BY <1>1, <1>2, <2>1, <2>6 DEF HomeInv, OwnerRemains, Owners, Standing
  <2>8. OwnerCounted'
    <3> SUFFICES ASSUME NEW d \in Calls, call'[d].pc = "locked"
                 PROVE  /\ \A e \in Calls : call'[e].pc = "locked" /\ call'[e].home = call'[d].home => e = d
                        /\ call'[d].op = "demote" =>
                             \E v \in Users : v # call'[d].target /\ role'[v][call'[d].home] = "OWNER"
      BY DEF OwnerCounted
    <3>1. d # c /\ call'[d] = call[d] /\ call[d].home \in Homes /\ call[d].home # q.home
      BY <1>3, <2>2, CallStarts DEF HomeInv, CallFits
    <3>2. \A v \in Users : role'[v][call[d].home] = role[v][call[d].home]
      BY <1>2, <2>1, <3>1
    <3> QED
      BY <2>2, <3>1, <3>2, CallStarts DEF HomeInv, OwnerCounted
  <2>9. \A v, h : Leaving(v, h) => Leaving(v, h)'
    BY <1>1, <2>2 DEF Leaving
  <2>10. \A s \in Sockets : socket[s].rooms \subseteq Homes /\ HolderOf[s] \in Users
    BY TypeIsRecords, HomeAssumption DEF HomeInv, SocketRecords
  <2>11. NoStrayListener'
    BY <2>1, <2>5, <2>9, <2>10 DEF HomeInv, NoStrayListener
  <2> QED
    BY <2>1, <2>2, <2>3, <2>4, <2>7, <2>8, <2>11 DEF HomeInv
<1> QED
  BY <1>1, <1>4, <1>5, <1>6

-----------------------------------------------------------------------------
(* Steps that change only where sockets are. *)
LEMMA SocketsMove ==
  ASSUME HomeInv, UNCHANGED <<role, standing, link>>,
         socket' \in [Sockets -> SocketRecords], \A s \in Sockets : SocketFits(socket'[s]),
         call' \in [Calls -> CallRecords], \A d \in Calls : CallFits(call'[d]),
         \A d \in Calls : call'[d].pc = "locked" => call'[d] = call[d],
         NoStrayListener'
  PROVE  HomeInv'
<1>1. HomeTypeOK'
  BY TypeIsRecords, TypeIsRecordsNext DEF HomeInv
<1>2. OwnerCounted'
  BY DEF HomeInv, OwnerCounted
<1>3. OwnerRemains'
  BY DEF HomeInv, OwnerRemains, Owners
<1> QED
  BY <1>1, <1>2, <1>3 DEF HomeInv

LEMMA MovedFits ==
  ASSUME NEW s \in SocketRecords, SocketFits(s), NEW S \in SUBSET Homes
  PROVE  /\ [s EXCEPT !.rooms = @ \ S, !.called = @ \ S] \in SocketRecords
         /\ SocketFits([s EXCEPT !.rooms = @ \ S, !.called = @ \ S])
         /\ s.pc # "off" => /\ [s EXCEPT !.rooms = @ \cup S, !.called = @ \cup S] \in SocketRecords
                            /\ SocketFits([s EXCEPT !.rooms = @ \cup S, !.called = @ \cup S])
BY DEF SocketRecords, SocketFits

LEMMA JoinRoomsKeeps ==
  ASSUME HomeInv, NEW c \in Calls, JoinRooms(c) PROVE HomeInv'
<1> DEFINE q == call[c]
           r == IF q.left = {} THEN NoCall ELSE [q EXCEPT !.op = "leave"]
<1>1. /\ q \in CallRecords /\ CallFits(q) /\ q.pc = "rooms" /\ q.home \in Homes
      /\ socket \in [Sockets -> SocketRecords] /\ \A s \in Sockets : SocketFits(socket[s])
      /\ call \in [Calls -> CallRecords] /\ \A d \in Calls : CallFits(call[d])
  BY TypeIsRecords DEF HomeInv, JoinRooms, CallFits
<1>2. r \in CallRecords /\ CallFits(r) /\ r.pc # "locked"
  BY <1>1, CallStarts DEF CallRecords, CallFits
<1>3. q.left # {} => r.pc = "rooms" /\ r.who = q.who /\ r.left = q.left
  BY <1>1 DEF CallRecords
<1> HIDE DEF r
<1>4. Go(c, r)
  BY DEF JoinRooms, Stop, r
<1>5. /\ call' \in [Calls -> CallRecords]
      /\ \A d \in Calls : CallFits(call'[d])
      /\ call'[c] = r
      /\ \A d \in Calls : d # c => call'[d] = call[d]
  BY <1>1, <1>2, <1>4, OneMoves
<1>6. socket' = [s \in Sockets |-> IF s \in Reached(q.who)
        THEN [socket[s] EXCEPT !.rooms = @ \cup {q.home}, !.called = @ \cup {q.home}]
        ELSE socket[s]]
  BY DEF JoinRooms
<1>7. \A s \in Reached(q.who) : socket[s].pc # "off"
  BY DEF Reached
<1>8. /\ socket' \in [Sockets -> SocketRecords]
      /\ \A s \in Sockets : SocketFits(socket'[s])
  <2> DEFINE S == {q.home}
  <2>1. S \in SUBSET Homes
    BY <1>1
  <2>2. socket' = [s \in Sockets |-> IF s \in Reached(q.who)
          THEN [socket[s] EXCEPT !.rooms = @ \cup S, !.called = @ \cup S] ELSE socket[s]]
    BY <1>6
  <2> HIDE DEF S
  <2> QED
    BY <1>1, <1>7, <2>1, <2>2, MovedFits
<1>9. \A u, h : Leaving(u, h) => Leaving(u, h)'
  BY <1>3, <1>5 DEF Leaving
<1>10. NoStrayListener'
  <2> SUFFICES ASSUME NEW s \in Sockets, NEW h \in socket'[s].rooms \ socket'[s].called
               PROVE  \/ role'[HolderOf[s]][h] # "none"
                      \/ socket'[s].pc = "joined"
                      \/ socket'[s].pc = "again" /\ h \in socket'[s].saw
                      \/ Leaving(HolderOf[s], h)'
    BY DEF NoStrayListener
  <2>1. /\ h \in socket[s].rooms \ socket[s].called
        /\ socket'[s].pc = socket[s].pc /\ socket'[s].saw = socket[s].saw
    BY <1>1, <1>6 DEF SocketRecords
  <2> QED
    BY <1>9, <2>1 DEF HomeInv, NoStrayListener, JoinRooms
<1> QED
  BY <1>1, <1>2, <1>5, <1>8, <1>10, SocketsMove DEF JoinRooms

LEMMA LeaveRoomsKeeps ==
  ASSUME HomeInv, NEW c \in Calls, LeaveRooms(c) PROVE HomeInv'
<1> DEFINE q == call[c]
           S == q.left
<1>1. /\ q \in CallRecords /\ CallFits(q) /\ q.pc = "rooms" /\ S \in SUBSET Homes
      /\ socket \in [Sockets -> SocketRecords] /\ \A s \in Sockets : SocketFits(socket[s])
      /\ call \in [Calls -> CallRecords] /\ \A d \in Calls : CallFits(call[d])
  BY TypeIsRecords DEF HomeInv, LeaveRooms, CallRecords
<1>2. /\ call' \in [Calls -> CallRecords]
      /\ \A d \in Calls : CallFits(call'[d])
      /\ call'[c] = NoCall
      /\ \A d \in Calls : d # c => call'[d] = call[d]
  BY <1>1, OneMoves, CallStarts DEF LeaveRooms, Stop
<1>3. \A s \in Sockets : socket'[s] = IF s \in Reached(q.who)
        THEN [socket[s] EXCEPT !.rooms = @ \ S, !.called = @ \ S] ELSE socket[s]
  BY DEF LeaveRooms
<1>4. /\ socket' \in [Sockets -> SocketRecords]
      /\ \A s \in Sockets : SocketFits(socket'[s])
  <2> HIDE DEF S
  <2>1. socket' = [s \in Sockets |-> IF s \in Reached(q.who)
          THEN [socket[s] EXCEPT !.rooms = @ \ S, !.called = @ \ S] ELSE socket[s]]
    BY DEF LeaveRooms, S
  <2> QED
    BY <1>1, <2>1, MovedFits
<1>5. NoStrayListener'
  <2> SUFFICES ASSUME NEW s \in Sockets, NEW h \in socket'[s].rooms \ socket'[s].called
               PROVE  \/ role'[HolderOf[s]][h] # "none"
                      \/ socket'[s].pc = "joined"
                      \/ socket'[s].pc = "again" /\ h \in socket'[s].saw
                      \/ Leaving(HolderOf[s], h)'
    BY DEF NoStrayListener
  <2>1. /\ h \in socket[s].rooms \ socket[s].called
        /\ socket'[s].pc = socket[s].pc /\ socket'[s].saw = socket[s].saw
        /\ s \in Reached(q.who) => h \notin S
    <3> HIDE DEF S
    <3>1. socket[s] \in SocketRecords
      BY <1>1
    <3>2. CASE s \in Reached(q.who)
      <4>1. socket'[s] = [socket[s] EXCEPT !.rooms = @ \ S, !.called = @ \ S]
        BY <1>3, <3>2
      <4> QED
        BY <3>1, <4>1 DEF SocketRecords
    <3>3. CASE s \notin Reached(q.who)
      BY <1>3, <3>3
    <3> QED
      BY <3>2, <3>3
  <2>2. socket[s].pc # "off"
    BY <1>1, <2>1 DEF SocketFits
  <2>3. ~(q.who = HolderOf[s] /\ h \in S)
    BY <2>1, <2>2 DEF Reached
  <2>4. Leaving(HolderOf[s], h) => Leaving(HolderOf[s], h)'
    BY <1>2, <2>3 DEF Leaving
  <2> QED
    BY <2>1, <2>4 DEF HomeInv, NoStrayListener, LeaveRooms
<1> QED
  BY <1>1, <1>2, <1>4, <1>5, SocketsMove, CallStarts DEF LeaveRooms

LEMMA HandshakeKeeps ==
  ASSUME HomeInv, NEW s \in Sockets, SocketNext(s) PROVE HomeInv'
<1> DEFINE q == socket[s]
<1>1. /\ socket \in [Sockets -> SocketRecords] /\ \A z \in Sockets : SocketFits(socket[z])
      /\ call \in [Calls -> CallRecords] /\ \A d \in Calls : CallFits(call[d])
      /\ q \in SocketRecords /\ SocketFits(q) /\ HolderOf[s] \in Users
      /\ Now(s) \subseteq Homes
  BY TypeIsRecords, HomeAssumption DEF HomeInv, Now, HomesOf
<1>2. ASSUME NEW r \in SocketRecords, SocketFits(r), NEW from, Shake(s, from, r),
             \A h \in r.rooms \ r.called :
               \/ role[HolderOf[s]][h] # "none"
               \/ r.pc = "joined"
               \/ r.pc = "again" /\ h \in r.saw
               \/ Leaving(HolderOf[s], h)
      PROVE  HomeInv'
  <2>1. /\ socket' \in [Sockets -> SocketRecords] /\ socket'[s] = r
        /\ \A z \in Sockets : z # s => socket'[z] = socket[z]
        /\ UNCHANGED <<role, standing, link, call>>
    BY <1>1, <1>2 DEF Shake
  <2>2. \A z \in Sockets : SocketFits(socket'[z])
    BY <1>1, <1>2, <2>1
  <2>3. \A u, h : Leaving(u, h) => Leaving(u, h)'
    BY <2>1 DEF Leaving
  <2>4. NoStrayListener'
    BY <1>2, <2>1, <2>3 DEF HomeInv, NoStrayListener
  <2> QED
    BY <1>1, <2>1, <2>2, <2>4, SocketsMove
<1>3. \A h \in q.rooms \ q.called :
        \/ role[HolderOf[s]][h] # "none"
        \/ q.pc = "joined"
        \/ q.pc = "again" /\ h \in q.saw
        \/ Leaving(HolderOf[s], h)
  BY DEF HomeInv, NoStrayListener
<1>4. CASE Connect(s)
  <2> DEFINE r == [Closed EXCEPT !.pc = "user"]
  <2>1. r \in SocketRecords /\ SocketFits(r) /\ r.rooms = {}
    BY DEF Closed, SocketRecords, SocketFits
  <2> QED
    BY <1>2, <1>4, <2>1 DEF Connect
<1>5. CASE ReadHomes(s)
  <2> DEFINE r == [q EXCEPT !.pc = IF Now(s) = {} THEN "on" ELSE "read", !.saw = Now(s)]
  <2>1. q.pc = "user"
    BY <1>5 DEF ReadHomes, Shake
  <2>2. r \in SocketRecords /\ SocketFits(r) /\ r.rooms = q.rooms /\ r.called = q.called
    BY <1>1, <2>1 DEF SocketRecords, SocketFits
  <2>3. q.rooms \subseteq q.called
    BY <1>1, <2>1 DEF SocketFits
  <2> HIDE DEF r
  <2>4. Shake(s, "user", r)
    BY <1>5 DEF ReadHomes, r
  <2> QED
    BY <1>2, <2>2, <2>3, <2>4
<1>6. CASE EnterRooms(s)
  <2> DEFINE r == [q EXCEPT !.pc = "joined", !.rooms = @ \cup q.saw]
  <2>1. q.pc = "read"
    BY <1>6 DEF EnterRooms, Shake
  <2>2. r \in SocketRecords /\ SocketFits(r) /\ r.pc = "joined"
    BY <1>1, <2>1 DEF SocketRecords, SocketFits
  <2> HIDE DEF r
  <2>3. Shake(s, "read", r)
    BY <1>6 DEF EnterRooms, r
  <2> QED
    BY <1>2, <2>2, <2>3
<1>7. CASE ReadAgain(s)
  <2> DEFINE r == [q EXCEPT !.pc = "again", !.saw = @ \ Now(s)]
  <2>1. q.pc = "joined"
    BY <1>7 DEF ReadAgain, Shake
  <2>2. /\ r \in SocketRecords /\ SocketFits(r) /\ r.pc = "again" /\ r.saw = q.saw \ Now(s)
        /\ r.rooms = q.rooms /\ r.called = q.called
    BY <1>1, <2>1 DEF SocketRecords, SocketFits
  <2>3. q.rooms \ q.called \subseteq q.saw /\ q.rooms \subseteq Homes
    BY <1>1, <2>1 DEF SocketFits, SocketRecords
  <2> HIDE DEF r
  <2>4. Shake(s, "joined", r)
    BY <1>7 DEF ReadAgain, r
  <2>5. \A h \in r.rooms \ r.called : role[HolderOf[s]][h] # "none" \/ h \in r.saw
    BY <2>2, <2>3 DEF Now, HomesOf
  <2> QED
    BY <1>2, <2>2, <2>4, <2>5
<1>8. CASE LeaveStale(s)
  <2> DEFINE r == [q EXCEPT !.pc = "on", !.rooms = @ \ q.saw, !.saw = {}]
  <2>1. q.pc = "again"
    BY <1>8 DEF LeaveStale, Shake
  <2>2. /\ r \in SocketRecords /\ SocketFits(r)
        /\ r.rooms = q.rooms \ q.saw /\ r.called = q.called
    BY <1>1, <2>1 DEF SocketRecords, SocketFits
  <2> HIDE DEF r
  <2>3. Shake(s, "again", r)
    BY <1>8 DEF LeaveStale, r
  <2>4. \A h \in r.rooms \ r.called :
          role[HolderOf[s]][h] # "none" \/ Leaving(HolderOf[s], h)
    BY <1>3, <2>1, <2>2
  <2> QED
    BY <1>2, <2>2, <2>3, <2>4
<1>9. CASE Disconnect(s)
  <2>1. Closed \in SocketRecords /\ SocketFits(Closed) /\ Closed.rooms = {}
    BY DEF Closed, SocketRecords, SocketFits
  <2> QED
    BY <1>2, <1>9, <2>1 DEF Disconnect
<1> QED
  BY <1>4, <1>5, <1>6, <1>7, <1>8, <1>9 DEF SocketNext

LEMMA DeclineKeeps ==
  ASSUME HomeInv, NEW i \in Links, Decline(i) PROVE HomeInv'
<1>1. /\ link \in [Links -> LinkRecords] /\ \A j \in Links : LinkFits(link[j])
      /\ UNCHANGED <<role, standing, call, socket>>
      /\ link' = [link EXCEPT ![i].at = "declined"]
  BY TypeIsRecords DEF HomeInv, Decline
<1>2. link' \in [Links -> LinkRecords] /\ \A j \in Links : LinkFits(link'[j])
  BY <1>1 DEF LinkRecords, LinkFits
<1>3. HomeTypeOK'
  BY <1>1, <1>2, TypeIsRecords, TypeIsRecordsNext DEF HomeInv
<1>4. OwnerCounted' /\ OwnerRemains' /\ NoStrayListener'
  BY <1>1 DEF HomeInv, OwnerCounted, OwnerRemains, Owners, NoStrayListener, Leaving
<1> QED
  BY <1>1, <1>2, <1>3, <1>4 DEF HomeInv

-----------------------------------------------------------------------------
LEMMA HomesStep == HomeInv /\ [HomeNext]_homeVars => HomeInv'
<1> SUFFICES ASSUME HomeInv, [HomeNext]_homeVars PROVE HomeInv'
  OBVIOUS
<1>1. ASSUME NEW c \in Calls, CallNext(c) PROVE HomeInv'
  <2>1. ASSUME NEW u \in Users, NEW h \in Homes, NEW t \in Users, StartPromote(c, u, h, t)
        PROVE  HomeInv'
    BY <2>1, StartPromoteKeeps
  <2>2. ASSUME NEW u \in Users, NEW h \in Homes, NEW t \in Users,
               NEW op \in {"demote", "remove"}, StartLocked(c, op, u, h, t)
        PROVE  HomeInv'
    BY <2>2, StartLockedKeeps
  <2>3. ASSUME NEW u \in Users, NEW h \in Homes, StartLeave(c, u, h) \/ StartCreate(c, u, h)
        PROVE  HomeInv'
    BY <2>3, StartLeaveKeeps, StartCreateKeeps
  <2>4. ASSUME NEW u \in Users, NEW h \in Homes, NEW i \in Links, StartInvite(c, u, h, i)
        PROVE  HomeInv'
    BY <2>4, StartInviteKeeps
  <2>5. ASSUME NEW u \in Users, NEW i \in Links, StartAccept(c, u, i)
        PROVE  HomeInv'
    BY <2>5, StartAcceptKeeps
  <2>6. CASE Promote(c)
    BY <2>6, PromoteKeeps
  <2>7. CASE Lock(c)
    BY <2>7, LockKeeps
  <2>8. CASE CommitLocked(c)
    BY <2>8, CommitLockedKeeps
  <2>9. CASE Depart(c)
    BY <2>9, DepartKeeps
  <2>10. CASE CommitLeave(c)
    BY <2>10, CommitLeaveKeeps
  <2>11. CASE Invite(c)
    BY <2>11, InviteKeeps
  <2>12. CASE CommitAccept(c)
    BY <2>12, CommitAcceptKeeps
  <2>13. CASE Create(c)
    BY <2>13, CreateKeeps
  <2>14. CASE Abort(c)
    BY <2>14, Stopped DEF Abort
  <2>15. CASE JoinRooms(c)
    BY <2>15, JoinRoomsKeeps
  <2>16. CASE LeaveRooms(c)
    BY <2>16, LeaveRoomsKeeps
  <2> QED
    BY <1>1, <2>1, <2>2, <2>3, <2>4, <2>5, <2>6, <2>7, <2>8, <2>9, <2>10, <2>11, <2>12,
       <2>13, <2>14, <2>15, <2>16 DEF CallNext
<1>2. CASE UNCHANGED homeVars
  BY <1>2 DEF homeVars, HomeInv, HomeTypeOK, OwnerCounted, OwnerRemains, Owners,
              NoStrayListener, Leaving
<1> QED
  BY <1>1, <1>2, DeclineKeeps, HandshakeKeeps DEF HomeNext

LEMMA HomesHold == HomeSpec => []HomeInv
BY HomesStartRight, HomesStep, PTL DEF HomeSpec

(* Type correctness (HomeTypeOK).                                             *)
THEOREM HomeTypes == HomeSpec => []HomeTypeOK
<1>1. HomeInv => HomeTypeOK
  BY DEF HomeInv
<1> QED
  BY <1>1, HomesHold, PTL

(* A household that exists is owned by one of its members, whoever is demoted, *)
(* removed, leaves or moves at the same time (OwnerRemains).                  *)
THEOREM AlwaysOwned == HomeSpec => []OwnerRemains
<1>1. HomeInv => OwnerRemains
  BY DEF HomeInv
<1> QED
  BY <1>1, HomesHold, PTL

(* No socket goes on listening to a household its holder has left              *)
(* (NoStrayListener).                                                         *)
THEOREM ListenersBelong == HomeSpec => []NoStrayListener
<1>1. HomeInv => NoStrayListener
  BY DEF HomeInv
<1> QED
  BY <1>1, HomesHold, PTL

-----------------------------------------------------------------------------
(* Invitations. Whoever takes the ownership of v in h away holds every link     *)
(* that v had opened to h before, so that it is still open only beside it.      *)
Issued(l, v, h) == l.at = "open" /\ l.home = h /\ l.by = v /\ ~l.beside

CallKills(r, L) ==
  /\ r.pc \notin {"locked", "departed"} => r.dying = {}
  /\ \A i \in r.dying : i \in Links /\ L[i].at \in {"open", "dead"}
  /\ r.pc = "locked" => \A i \in Links : Issued(L[i], r.target, r.home) => i \in r.dying
  /\ r.pc = "departed" =>
       \A i \in Links, h \in r.left : Issued(L[i], r.who, h) => i \in r.dying
  /\ r.op = "accept" /\ r.pc \in {"checked", "departed"} =>
       r.link \in Links /\ L[r.link].home = r.home /\ L[r.link].at # "none"

GuestFits(l, R) ==
  /\ Cardinality(l.guests) <= 1
  /\ l.at # "redeemed" => l.guests = {}
  /\ ~l.beside => ~l.astray
  /\ l.at = "open" => l.by \in Users
  /\ l.at = "open" /\ ~l.beside => R[l.by][l.home] = "OWNER"

GuestInv ==
  /\ \A c \in Calls : CallKills(call[c], link)
  /\ \A i \in Links : GuestFits(link[i], role)

\* A link of the table L that in M is the same, or put out, or used by somebody else
\* than a request that has it.
Turns(r, i, l, m) ==
  \/ m = l
  \/ m.home = l.home /\ m.at = "dead"
  \/ m.home = l.home /\ m.at \in {"declined", "redeemed"} /\ i \notin r.dying

LEMMA KillsStill ==
  ASSUME NEW r, NEW L, NEW M, CallKills(r, L), \A i \in Links : Turns(r, i, L[i], M[i])
  PROVE  CallKills(r, M)
BY DEF CallKills, Issued, Turns

\* One request goes on, the others find their links as they need them.
LEMMA GuestsMove ==
  ASSUME HomeInv, GuestInv, NEW c \in Calls, NEW r, Go(c, r), CallKills(r, link'),
         \A d \in Calls \ {c}, i \in Links : Turns(call[d], i, link[i], link'[i]),
         \A i \in Links : GuestFits(link'[i], role')
  PROVE  GuestInv'
<1>1. call'[c] = r /\ \A d \in Calls \ {c} : call'[d] = call[d]
  BY TypeIsRecords DEF HomeInv, Go
<1>2. ASSUME NEW d \in Calls \ {c}
      PROVE  CallKills(call'[d], link')
  BY <1>1, KillsStill DEF GuestInv
<1> QED
  BY <1>1, <1>2 DEF GuestInv

\* Requests of which nobody dies by have no links to put out.
LEMMA NothingKilled ==
  ASSUME NEW r, NEW L, r.dying = {}, r.pc \notin {"locked", "departed"},
         ~(r.op = "accept" /\ r.pc = "checked")
  PROVE  CallKills(r, L)
BY DEF CallKills

\* Ownership is not taken from anybody.
LEMMA QuietGuests ==
  ASSUME HomeInv, GuestInv, NEW c \in Calls, NEW r, Go(c, r), CallKills(r, link), link' = link,
         \A v \in Users, h \in Homes : role[v][h] = "OWNER" => role'[v][h] = "OWNER"
  PROVE  GuestInv'
<1>1. \A i \in Links : LinkFits(link[i])
  BY DEF HomeInv
<1>2. \A i \in Links : GuestFits(link'[i], role')
  BY <1>1 DEF GuestInv, GuestFits, LinkFits
<1>3. \A d \in Calls \ {c}, i \in Links : Turns(call[d], i, link[i], link'[i])
  BY DEF Turns
<1> QED
  BY <1>2, <1>3, GuestsMove

LEMMA StopsQuietly ==
  ASSUME HomeInv, GuestInv, NEW c \in Calls, Stop(c), link' = link,
         \A v \in Users, h \in Homes : role[v][h] = "OWNER" => role'[v][h] = "OWNER"
  PROVE  GuestInv'
<1>1. CallKills(NoCall, link)
  BY NothingKilled DEF NoCall
<1> QED
  BY <1>1, QuietGuests DEF Stop

\* A transaction that commits puts out what it has locked; nobody else loses the
\* ownership a link still rests on.
LEMMA KillsTheirs ==
  ASSUME HomeInv, GuestInv, NEW D \in SUBSET Links,
         \A i \in D : link[i].at \in {"open", "dead"},
         \A v \in Users, h \in Homes : role[v][h] = "OWNER" =>
           \/ role'[v][h] = "OWNER"
           \/ \A i \in Links : Issued(link[i], v, h) => i \in D
  PROVE  /\ \A i \in Links : GuestFits(Kill(D)[i], role')
         /\ \A i \in Links : i \notin D => Kill(D)[i] = link[i]
         /\ \A i \in Links : i \in D => Kill(D)[i].at = "dead" /\ Kill(D)[i].home = link[i].home
         /\ \A r : \A i \in Links : Turns(r, i, link[i], Kill(D)[i])
<1>1. link \in [Links -> LinkRecords] /\ \A i \in Links : LinkFits(link[i])
  BY TypeIsRecords DEF HomeInv
<1>2. ASSUME NEW i \in Links, i \notin D
      PROVE  Kill(D)[i] = link[i]
  BY <1>2 DEF Kill
<1>3. ASSUME NEW i \in Links, i \in D
      PROVE  Kill(D)[i] = [link[i] EXCEPT !.at = "dead"]
  BY <1>3 DEF Kill
<1>4. ASSUME NEW i \in Links
      PROVE  GuestFits(link[i], role)
  BY DEF GuestInv
<1>5. ASSUME NEW i \in Links, i \in D
      PROVE  /\ Kill(D)[i].at = "dead" /\ Kill(D)[i].home = link[i].home
             /\ GuestFits(Kill(D)[i], role')
  <2> DEFINE l == [link[i] EXCEPT !.at = "dead"]
  <2>1. /\ l.at = "dead" /\ l.home = link[i].home /\ l.guests = link[i].guests
        /\ l.beside = link[i].beside /\ l.astray = link[i].astray
    BY <1>1 DEF LinkRecords
  <2>2. link[i].at # "redeemed"
    BY <1>5
  <2> HIDE DEF l
  <2>3. GuestFits(l, role')
    BY <1>4, <2>1, <2>2 DEF GuestFits
  <2> QED
    BY <1>3, <1>5, <2>1, <2>3 DEF l
<1>6. ASSUME NEW i \in Links, i \notin D
      PROVE  GuestFits(link[i], role')
  BY <1>1, <1>4, <1>6 DEF GuestFits, LinkFits, Issued
<1> QED
  BY <1>2, <1>5, <1>6 DEF Turns

LEMMA LockGuests ==
  ASSUME HomeInv, GuestInv, NEW c \in Calls, Lock(c)
  PROVE  GuestInv'
<1> DEFINE dying == IF call[c].op = "remove" THEN OpenOf(call[c].home)
                                             ELSE OpenBy(call[c].target, call[c].home)
           r == [call[c] EXCEPT !.pc = "locked", !.dying = dying]
<1>1. /\ call[c] \in CallRecords /\ call[c].op \in {"demote", "remove"}
      /\ UNCHANGED <<role, link>>
  BY TypeIsRecords DEF HomeInv, Lock
<1>2. CASE Stop(c)
  BY <1>1, <1>2, StopsQuietly
<1>3. CASE Go(c, r)
  <2>1. \A i \in dying : i \in Links /\ link[i].at = "open"
    BY DEF OpenOf, OpenBy, Open
  <2>2. \A i \in Links : Issued(link[i], call[c].target, call[c].home) => i \in dying
    BY DEF OpenOf, OpenBy, Open, Issued
  <2> HIDE DEF dying
  <2>3. /\ r.pc = "locked" /\ r.dying = dying /\ r.target = call[c].target
        /\ r.home = call[c].home /\ r.op = call[c].op
    BY <1>1 DEF CallRecords
  <2> HIDE DEF r
  <2>4. CallKills(r, link)
    BY <1>1, <2>1, <2>2, <2>3 DEF CallKills
  <2> QED
    BY <1>1, <1>3, <2>4, QuietGuests
<1> QED
  BY <1>2, <1>3 DEF Lock

LEMMA DepartGuests ==
  ASSUME HomeInv, GuestInv, NEW c \in Calls, Depart(c)
  PROVE  GuestInv'
<1> DEFINE dying == UNION {OpenBy(call[c].who, h) : h \in call[c].left}
           r == [call[c] EXCEPT !.pc = "departed", !.dying = dying]
<1>1. /\ call[c] \in CallRecords /\ call[c].pc = "checked"
      /\ UNCHANGED <<role, link>> /\ CallKills(call[c], link)
  BY TypeIsRecords DEF HomeInv, Depart, GuestInv
<1>2. CASE Stop(c)
  BY <1>1, <1>2, StopsQuietly
<1>3. CASE Go(c, r)
  <2>1. \A i \in dying : i \in Links /\ link[i].at = "open"
    BY DEF OpenBy, Open
  <2>2. \A i \in Links, h \in call[c].left : Issued(link[i], call[c].who, h) => i \in dying
    BY DEF OpenBy, Open, Issued
  <2> HIDE DEF dying
  <2>3. /\ r.pc = "departed" /\ r.dying = dying /\ r.who = call[c].who /\ r.left = call[c].left
        /\ r.home = call[c].home /\ r.op = call[c].op /\ r.link = call[c].link
    BY <1>1 DEF CallRecords
  <2> HIDE DEF r
  <2>4. CallKills(r, link)
    BY <1>1, <2>1, <2>2, <2>3 DEF CallKills
  <2> QED
    BY <1>1, <1>3, <2>4, QuietGuests
<1> QED
  BY <1>2, <1>3 DEF Depart

LEMMA InviteGuests ==
  ASSUME HomeInv, GuestInv, NEW c \in Calls, Invite(c)
  PROVE  GuestInv'
<1> DEFINE r == call[c]
           beside == role[r.who][r.home] # "OWNER" \/ MemberLocked(r.who, r.home)
           new == [NoLink EXCEPT !.at = "open", !.home = r.home, !.by = r.who, !.beside = beside]
<1>1. /\ r.who \in Users /\ r.home \in Homes /\ Stop(c) /\ UNCHANGED role
      /\ link \in [Links -> LinkRecords]
      /\ link' = link \/ (link[r.link].at = "none" /\ link' = [link EXCEPT ![r.link] = new])
  BY TypeIsRecords DEF HomeInv, Invite, CallFits
<1>2. CASE link' = link
  BY <1>1, <1>2, StopsQuietly
<1>3. CASE link[r.link].at = "none" /\ link' = [link EXCEPT ![r.link] = new] /\ r.link \in Links
  <2>1. /\ new.at = "open" /\ new.home = r.home /\ new.by = r.who /\ new.guests = {}
        /\ ~new.astray /\ (new.beside <=> beside)
    BY DEF NoLink
  <2>2. link'[r.link] = new /\ \A i \in Links \ {r.link} : link'[i] = link[i]
    BY <1>1, <1>3
  <2>3. call'[c] = NoCall /\ \A d \in Calls \ {c} : call'[d] = call[d]
    BY <1>1, TypeIsRecords DEF HomeInv, Go, Stop
  <2> HIDE DEF new
  <2>4. GuestFits(new, role)
    <3>1. Cardinality({}) = 0
      BY FS_EmptySet
    <3>2. ~new.beside => role[new.by][new.home] = "OWNER"
      BY <2>1
    <3> QED
      BY <1>1, <2>1, <3>1, <3>2 DEF GuestFits
  <2>5. ASSUME NEW d \in Calls \ {c}
        PROVE  CallKills(call[d], link')
    <3>1. CallKills(call[d], link)
      BY DEF GuestInv
    <3>2. r.link \notin call[d].dying
      BY <1>3, <3>1 DEF CallKills
    <3>3. call[d].pc = "locked" => ~Issued(new, call[d].target, call[d].home)
      BY <2>1 DEF Issued, MemberLocked
    <3>4. call[d].pc = "departed" => \A h \in call[d].left : ~Issued(new, call[d].who, h)
      BY <2>1 DEF Issued, MemberLocked
    <3>5. call[d].op = "accept" /\ call[d].pc \in {"checked", "departed"} => call[d].link # r.link
      BY <1>3, <3>1 DEF CallKills
    <3> QED
      BY <2>2, <3>1, <3>2, <3>3, <3>4, <3>5 DEF CallKills
  <2>6. CallKills(NoCall, link')
    BY NothingKilled DEF NoCall
  <2> QED
    BY <1>1, <2>2, <2>3, <2>4, <2>5, <2>6 DEF GuestInv
<1>4. CASE r.link \notin Links
  <2>1. link' = link
    BY <1>1, <1>4
  <2> QED
    BY <1>1, <2>1, StopsQuietly
<1> QED
  BY <1>1, <1>2, <1>3, <1>4

LEMMA CommitLeaveGuests ==
  ASSUME HomeInv, GuestInv, NEW c \in Calls, CommitLeave(c)
  PROVE  GuestInv'
<1> DEFINE q == call[c]
           r == [q EXCEPT !.pc = "rooms", !.dying = {}]
<1>1. /\ q \in CallRecords /\ q.pc = "departed" /\ role \in RoleTables /\ CallKills(q, link)
      /\ q.left \in SUBSET Homes
  BY TypeIsRecords DEF HomeInv, CommitLeave, GuestInv, CallRecords
<1>2. Go(c, r) /\ link' = Kill(q.dying) /\ Settled(Departed(q), q.left, role')
  BY DEF CommitLeave
<1>3. r.pc = "rooms" /\ r.dying = {}
  BY <1>1 DEF CallRecords
<1> HIDE DEF r, q
<1>4. ASSUME NEW v \in Users, NEW h \in Homes, role[v][h] = "OWNER"
      PROVE  \/ role'[v][h] = "OWNER"
             \/ \A i \in Links : Issued(link[i], v, h) => i \in q.dying
  <2>1. Departed(q) \in RoleTables /\ (~(v = q.who /\ h \in q.left) => Departed(q)[v][h] = role[v][h])
    BY <1>1, DepartedFits
  <2>2. Departed(q)[v][h] = "OWNER" => role'[v][h] = "OWNER"
    BY <1>1, <1>2, <2>1, SettledGives
  <2> QED
    BY <1>1, <1>4, <2>1, <2>2 DEF CallKills
<1>5. q.dying \in SUBSET Links /\ \A i \in q.dying : link[i].at \in {"open", "dead"}
  BY <1>1 DEF CallKills
<1>6. /\ \A i \in Links : GuestFits(link'[i], role')
      /\ \A d \in Calls, i \in Links : Turns(call[d], i, link[i], link'[i])
  BY <1>2, <1>4, <1>5, KillsTheirs
<1>7. CallKills(r, link')
  BY <1>3, NothingKilled
<1> QED
  BY <1>2, <1>6, <1>7, GuestsMove

LEMMA CommitLockedGuests ==
  ASSUME HomeInv, GuestInv, NEW c \in Calls, CommitLocked(c)
  PROVE  GuestInv'
<1> DEFINE q == call[c]
           new == IF q.op = "remove" THEN "none" ELSE "MEMBER"
           after == [role EXCEPT ![q.target][q.home] = new]
           r == [q EXCEPT !.pc = "rooms", !.who = q.target, !.left = {q.home}, !.dying = {}]
<1>1. /\ q \in CallRecords /\ q.pc = "locked" /\ role \in RoleTables /\ CallKills(q, link)
      /\ q.home \in Homes
  BY TypeIsRecords DEF HomeInv, CommitLocked, GuestInv, CallFits
<1>2. CASE UNCHANGED <<role, link>> /\ Stop(c)
  BY <1>2, StopsQuietly
<1>3. CASE /\ role' = after \/ Settled(after, {q.home}, role')
           /\ link' = Kill(q.dying) /\ (Go(c, r) \/ Stop(c))
  <2>1. after \in RoleTables
        /\ \A v \in Users, h \in Homes : ~(v = q.target /\ h = q.home) => after[v][h] = role[v][h]
    BY <1>1 DEF RoleTables, Role
  <2>2. r.pc = "rooms" /\ r.dying = {}
    BY <1>1 DEF CallRecords
  <2> HIDE DEF r, after, q
  <2>3. ASSUME NEW v \in Users, NEW h \in Homes, role[v][h] = "OWNER"
        PROVE  \/ role'[v][h] = "OWNER"
               \/ \A i \in Links : Issued(link[i], v, h) => i \in q.dying
    <3>1. after[v][h] = "OWNER" => role'[v][h] = "OWNER"
      BY <1>1, <1>3, <2>1, SettledGives
    <3> QED
      BY <1>1, <2>1, <2>3, <3>1 DEF CallKills
  <2>4. q.dying \in SUBSET Links /\ \A i \in q.dying : link[i].at \in {"open", "dead"}
    BY <1>1 DEF CallKills
  <2>5. /\ \A i \in Links : GuestFits(link'[i], role')
        /\ \A d \in Calls, i \in Links : Turns(call[d], i, link[i], link'[i])
    BY <1>3, <2>3, <2>4, KillsTheirs
  <2>6. CallKills(r, link') /\ CallKills(NoCall, link')
    BY <2>2, NothingKilled DEF NoCall
  <2> QED
    BY <1>3, <2>5, <2>6, GuestsMove DEF Stop
<1> QED
  BY <1>2, <1>3 DEF CommitLocked

LEMMA CommitAcceptGuests ==
  ASSUME HomeInv, GuestInv, NEW c \in Calls, CommitAccept(c)
  PROVE  GuestInv'
<1> DEFINE q == call[c]
           r == [q EXCEPT !.pc = "rooms", !.dying = {}]
           joined == [Departed(q) EXCEPT ![q.who][q.home] = IF @ = "none" THEN "MEMBER" ELSE @]
<1>1. /\ q \in CallRecords /\ q.op = "accept" /\ q.pc = (IF q.left = {} THEN "checked" ELSE "departed")
      /\ role \in RoleTables /\ CallKills(q, link) /\ ~LinkLocked(q.link)
      /\ q.left \in SUBSET Homes /\ q.who \in Users /\ q.home \in Homes
      /\ link \in [Links -> LinkRecords] /\ \A i \in Links : LinkFits(link[i])
  BY TypeIsRecords DEF HomeInv, CommitAccept, GuestInv, CallRecords, CallFits
<1>2. CASE ~Redeemable(q)
  BY <1>2, StopsQuietly DEF CommitAccept
<1>3. CASE Redeemable(q)
  <2>1. Go(c, r) /\ Settled(joined, q.left, role')
    BY <1>3 DEF CommitAccept
  <2>2. PICK astray \in BOOLEAN :
          /\ astray => role[link[q.link].by][q.home] # "OWNER"
          /\ link' = [Kill(q.dying) EXCEPT ![q.link] = LetIn(@, q.who, astray)]
    BY <1>3, Redeemed
  <2>3. /\ Departed(q) \in RoleTables
        /\ \A v \in Users, h \in Homes : ~(v = q.who /\ h \in q.left) => Departed(q)[v][h] = role[v][h]
    BY <1>1, DepartedFits
  <2>4. joined \in RoleTables
        /\ \A v \in Users, h \in Homes : Departed(q)[v][h] = "OWNER" => joined[v][h] = "OWNER"
    BY <1>1, <2>3 DEF RoleTables, Role
  <2>5. r.pc = "rooms" /\ r.dying = {}
    BY <1>1 DEF CallRecords
  <2>6. q.link \in Links /\ link[q.link].home = q.home /\ link[q.link].at = "open"
    BY <1>1, <1>3 DEF CallKills, Redeemable
  <2>7. \A d \in Calls : q.link \notin call[d].dying
    BY <1>1 DEF LinkLocked, GuestInv, CallKills
  <2>8. q.link \notin q.dying
    BY <2>7
  <2> HIDE DEF r, joined, q
  <2>9. ASSUME NEW v \in Users, NEW h \in Homes, role[v][h] = "OWNER"
        PROVE  \/ role'[v][h] = "OWNER"
               \/ \A i \in Links : Issued(link[i], v, h) => i \in q.dying
    <3>1. joined[v][h] = "OWNER" => role'[v][h] = "OWNER"
      BY <1>1, <2>1, <2>4, SettledGives
    <3> QED
      BY <1>1, <2>3, <2>4, <2>9, <3>1 DEF CallKills
  <2>10. q.dying \in SUBSET Links /\ \A i \in q.dying : link[i].at \in {"open", "dead"}
    BY <1>1 DEF CallKills
  <2>11. /\ \A i \in Links : GuestFits(Kill(q.dying)[i], role')
         /\ \A i \in Links : i \notin q.dying => Kill(q.dying)[i] = link[i]
         /\ \A d \in Calls, i \in Links : Turns(call[d], i, link[i], Kill(q.dying)[i])
    BY <2>9, <2>10, KillsTheirs
  <2> DEFINE k == Kill(q.dying)
             l == link[q.link]
             m == LetIn(k[q.link], q.who, astray)
  <2>12. link'[q.link] = m /\ \A i \in Links \ {q.link} : link'[i] = k[i]
    <3>1. DOMAIN k = Links
      BY DEF Kill
    <3> HIDE DEF k
    <3> QED
      BY <2>2, <2>6, <3>1 DEF k
  <2>13. /\ m.at = "redeemed" /\ m.guests = l.guests \cup {q.who} /\ m.home = l.home
         /\ m.beside = l.beside /\ m.astray = astray
    <3>1. k[q.link] = l /\ l \in LinkRecords
      BY <1>1, <2>6, <2>8, <2>11
    <3> HIDE DEF k, l
    <3> QED
      BY <3>1 DEF LinkRecords, LetIn
  <2>14. GuestFits(l, role)
    BY <2>6 DEF GuestInv
  <2> HIDE DEF l, m, k
  <2>15. GuestFits(m, role')
    <3>1. l.guests = {} /\ (~l.beside => role[l.by][q.home] = "OWNER")
      BY <2>6, <2>14 DEF GuestFits, l
    <3>2. Cardinality(m.guests) = 1
      <4>1. m.guests = {q.who}
        BY <2>13, <3>1
      <4> QED
        BY <4>1, FS_Singleton
    <3>3. ~m.beside => ~m.astray
      BY <2>2, <2>13, <3>1 DEF l
    <3> QED
      BY <2>13, <3>2, <3>3 DEF GuestFits
  <2>16. \A i \in Links : GuestFits(link'[i], role')
    BY <2>11, <2>12, <2>15 DEF k
  <2>17. \A d \in Calls, i \in Links : Turns(call[d], i, link[i], link'[i])
    <3> SUFFICES ASSUME NEW d \in Calls, NEW i \in Links
                 PROVE  Turns(call[d], i, link[i], link'[i])
      OBVIOUS
    <3>1. CASE i = q.link
      BY <2>7, <2>12, <2>13, <3>1 DEF Turns, l
    <3>2. CASE i # q.link
      BY <2>11, <2>12, <3>2 DEF k
    <3> QED
      BY <3>1, <3>2
  <2>18. CallKills(r, link')
    BY <2>5, NothingKilled
  <2> QED
    BY <2>1, <2>16, <2>17, <2>18, GuestsMove
<1> QED
  BY <1>2, <1>3

\* Requests that begin, or go on without a link.
LEMMA BeginGuests ==
  ASSUME HomeInv, GuestInv, NEW c \in Calls, NEW op \in HomeOps, NEW u, NEW h,
         NEW r, r = Request(op, u, h), NEW t, NEW i, NEW owned, NEW left,
         link' = link, role' = role,
         \/ Go(c, r) \/ Go(c, [r EXCEPT !.target = t]) \/ Go(c, [r EXCEPT !.link = i])
         \/ Go(c, [r EXCEPT !.target = t, !.owned = owned]) \/ Go(c, [r EXCEPT !.left = left]),
         op # "accept"
  PROVE  GuestInv'
<1>1. ASSUME NEW s, Go(c, s), s.op = op, s.pc = "checked", s.dying = {}
      PROVE  GuestInv'
  <2>1. CallKills(s, link)
    BY <1>1, NothingKilled
  <2> QED
    BY <1>1, <2>1, QuietGuests
<1> DEFINE s1 == [r EXCEPT !.target = t]
           s2 == [r EXCEPT !.link = i]
           s3 == [r EXCEPT !.target = t, !.owned = owned]
           s4 == [r EXCEPT !.left = left]
<1>2. r.op = op /\ r.pc = "checked" /\ r.dying = {}
  BY DEF Request, NoCall
<1>3. \A s \in {s1, s2, s3, s4} : s.op = op /\ s.pc = "checked" /\ s.dying = {}
  BY DEF Request, NoCall
<1> HIDE DEF s1, s2, s3, s4
<1>4. Go(c, r) \/ Go(c, s1) \/ Go(c, s2) \/ Go(c, s3) \/ Go(c, s4)
  BY DEF s1, s2, s3, s4
<1> QED
  BY <1>1, <1>2, <1>3, <1>4

LEMMA AcceptGuests ==
  ASSUME HomeInv, GuestInv, NEW c \in Calls, NEW u \in Users, NEW i \in Links, StartAccept(c, u, i)
  PROVE  GuestInv'
<1> DEFINE h == link[i].home
           r == [Request("accept", u, h) EXCEPT !.link = i, !.left = HomesOf(u) \ {h}]
<1>1. Go(c, r) /\ link[i].at = "open" /\ UNCHANGED <<role, link>>
  BY DEF StartAccept
<1>2. r.pc = "checked" /\ r.dying = {} /\ r.link = i /\ r.home = h
  BY DEF Request, NoCall
<1> HIDE DEF r
<1>3. CallKills(r, link)
  BY <1>1, <1>2 DEF CallKills
<1> QED
  BY <1>1, <1>3, QuietGuests

LEMMA RoomsGuests ==
  ASSUME HomeInv, GuestInv, NEW c \in Calls, JoinRooms(c) \/ LeaveRooms(c) \/ Create(c)
  PROVE  GuestInv'
<1>1. /\ link' = link /\ call[c] \in CallRecords /\ CallKills(call[c], link)
      /\ call[c].pc \in {"rooms", "checked"} /\ role \in RoleTables
  BY TypeIsRecords DEF HomeInv, GuestInv, JoinRooms, LeaveRooms, Create
<1>2. \A v \in Users, h \in Homes : role[v][h] = "OWNER" => role'[v][h] = "OWNER"
  <2>1. CASE role' = role
    BY <2>1
  <2>2. CASE role' = [role EXCEPT ![call[c].who][call[c].home] = "OWNER"]
    BY <1>1, <2>2 DEF RoleTables
  <2> QED
    BY <2>1, <2>2 DEF JoinRooms, LeaveRooms, Create
<1>3. CASE Stop(c)
  BY <1>1, <1>2, <1>3, StopsQuietly
<1>4. CASE Go(c, [call[c] EXCEPT !.op = "leave"]) /\ call[c].pc = "rooms"
  <2> DEFINE r == [call[c] EXCEPT !.op = "leave"]
  <2>1. r.op = "leave" /\ r.pc = "rooms" /\ r.dying = {}
    BY <1>1, <1>4 DEF CallRecords, CallKills
  <2> HIDE DEF r
  <2>2. CallKills(r, link)
    BY <2>1, NothingKilled
  <2> QED
    BY <1>1, <1>2, <1>4, <2>2, QuietGuests DEF r
<1>5. CASE Go(c, [call[c] EXCEPT !.pc = "rooms"]) /\ call[c].pc = "checked"
  <2> DEFINE r == [call[c] EXCEPT !.pc = "rooms"]
  <2>1. r.pc = "rooms" /\ r.dying = {}
    BY <1>1, <1>5 DEF CallRecords, CallKills
  <2> HIDE DEF r
  <2>2. CallKills(r, link)
    BY <2>1, NothingKilled
  <2> QED
    BY <1>1, <1>2, <1>5, <2>2, QuietGuests DEF r
<1> QED
  BY <1>3, <1>4, <1>5 DEF JoinRooms, LeaveRooms, Create

LEMMA DeclineGuests ==
  ASSUME HomeInv, GuestInv, NEW i \in Links, Decline(i)
  PROVE  GuestInv'
<1> DEFINE m == [link[i] EXCEPT !.at = "declined"]
<1>1. /\ link \in [Links -> LinkRecords] /\ link[i].at \in {"open", "dead"}
      /\ ~LinkLocked(i) /\ UNCHANGED <<role, call>> /\ link' = [link EXCEPT ![i] = m]
  BY TypeIsRecords DEF HomeInv, Decline
<1>2. /\ m.at = "declined" /\ m.home = link[i].home /\ m.guests = link[i].guests
      /\ m.beside = link[i].beside /\ m.astray = link[i].astray
  BY <1>1 DEF LinkRecords
<1> HIDE DEF m
<1>3. link'[i] = m /\ \A j \in Links \ {i} : link'[j] = link[j]
  BY <1>1
<1>4. GuestFits(m, role)
  BY <1>1, <1>2 DEF GuestInv, GuestFits
<1>5. ASSUME NEW d \in Calls
      PROVE  CallKills(call[d], link')
  <2>1. CallKills(call[d], link) /\ i \notin call[d].dying
    BY <1>1 DEF GuestInv, LinkLocked, CallKills
  <2>2. \A j \in Links : Turns(call[d], j, link[j], link'[j])
    BY <1>2, <1>3, <2>1 DEF Turns
  <2> QED
    BY <2>1, <2>2, KillsStill
<1> QED
  BY <1>1, <1>3, <1>4, <1>5 DEF GuestInv

LEMMA GuestsStep == HomeInv /\ GuestInv /\ [HomeNext]_homeVars => GuestInv'
<1> SUFFICES ASSUME HomeInv, GuestInv, [HomeNext]_homeVars PROVE GuestInv'
  OBVIOUS
<1>1. ASSUME NEW c \in Calls, CallNext(c) PROVE GuestInv'
  <2>1. ASSUME NEW u \in Users, NEW h \in Homes, NEW t \in Users,
               \/ StartPromote(c, u, h, t)
               \/ \E op \in {"demote", "remove"} : StartLocked(c, op, u, h, t)
        PROVE  GuestInv'
    <3>1. CASE StartPromote(c, u, h, t)
      BY <3>1, BeginGuests DEF StartPromote, Starts
    <3>2. ASSUME NEW op \in {"demote", "remove"}, StartLocked(c, op, u, h, t) PROVE GuestInv'
      BY <3>2, BeginGuests DEF StartLocked, Starts
    <3> QED
      BY <2>1, <3>1, <3>2
  <2>2. ASSUME NEW u \in Users, NEW h \in Homes, StartLeave(c, u, h) \/ StartCreate(c, u, h)
        PROVE  GuestInv'
    BY <2>2, BeginGuests DEF StartLeave, StartCreate, Starts
  <2>3. ASSUME NEW u \in Users, NEW h \in Homes, NEW i \in Links, StartInvite(c, u, h, i)
        PROVE  GuestInv'
    BY <2>3, BeginGuests DEF StartInvite, Starts
  <2>4. CASE Promote(c) \/ Abort(c)
    <3>1. /\ Stop(c) /\ link' = link
          /\ \A v \in Users, h \in Homes : role[v][h] = "OWNER" => role'[v][h] = "OWNER"
      BY <2>4, TypeIsRecords DEF HomeInv, Promote, Abort, RoleTables
    <3> QED
      BY <3>1, StopsQuietly
  <2> QED
    BY <1>1, <2>1, <2>2, <2>3, <2>4, LockGuests, CommitLockedGuests, DepartGuests, CommitLeaveGuests,
       InviteGuests, CommitAcceptGuests, AcceptGuests, RoomsGuests DEF CallNext
<1>2. ASSUME UNCHANGED <<role, link, call>> PROVE GuestInv'
  BY <1>2 DEF GuestInv
<1>3. ASSUME NEW s \in Sockets, SocketNext(s) PROVE UNCHANGED <<role, link, call>>
  BY <1>3 DEF SocketNext, Connect, ReadHomes, EnterRooms, ReadAgain, LeaveStale, Disconnect, Shake
<1> QED
  BY <1>1, <1>2, <1>3, DeclineGuests DEF HomeNext, homeVars

(* A link lets in one person at most, and only while its issuer owns the       *)
(* household, whoever is demoted, removed or leaves between the check and the  *)
(* redemption; links opened beside such a change are left aside                *)
(* (GuestsOfOwners).                                                           *)
THEOREM LinksAdmitGuestsOfOwners == HomeSpec => []GuestsOfOwners
<1>1. HomeInit => GuestInv
  <2>1. CallKills(NoCall, link)
    BY NothingKilled DEF NoCall
  <2>2. GuestFits(NoLink, role)
    <3>1. Cardinality({}) = 0
      BY FS_EmptySet
    <3> QED
      BY <3>1 DEF GuestFits, NoLink
  <2> QED
    BY <2>1, <2>2 DEF HomeInit, GuestInv
<1>2. HomeSpec => []GuestInv
  BY <1>1, HomesHold, GuestsStep, PTL DEF HomeSpec
<1>3. GuestInv => GuestsOfOwners
  BY DEF GuestInv, GuestFits, GuestsOfOwners
<1> QED
  BY <1>2, <1>3, PTL

-----------------------------------------------------------------------------
(* The cooking scenario.                                                                    *)

(* Whoever holds the recipe has read the amounts it still has, because no change of them    *)
(* holds it too; and what waits to be published is what was read with it.                   *)
HoldFits ==
    /\ txn.kind # "none" => /\ ~edit.locked
                            /\ txn.seen \in Contents
                            /\ txn.seen.amount = recipe.amount
    /\ txn.kind \in {"load", "import", "panel"} => txn.text \in Scenarios
    /\ txn.kind = "panel" => txn.who \in Pages
    /\ txn.kind = "save" => txn.who \in Jobs /\ jobs[txn.who].pc = "ready"
    /\ txn.kind = "release" => txn.who \in Versions /\ rows[txn.who].status = "VALIDATED"

(* What a task has ready is what its models made of the recipe it read.                     *)
JobFits(job) ==
    job.pc = "ready" =>
      /\ job.seen \in Contents
      /\ job.status \in {"VALIDATED", "REJECTED", "SKIPPED"}
      /\ job.status = "VALIDATED" => job.text \in Scenarios /\ job.text.made = job.seen

(* The number in the recipe is that of the published version.                               *)
CookPoints == (Published = {} /\ cook = 0) \/ cook \in Published

CookInv ==
    /\ CookTypeOK
    /\ edit.locked => edit.amount \in Quantities
    /\ ListFits(rows, recipe)
    /\ CookPoints
    /\ HoldFits
    /\ \A j \in Jobs : JobFits(jobs[j])
    /\ \A p \in Pages : pages[p].pc # "idle" => pages[p].saw \in Contents

-----------------------------------------------------------------------------
(* A list whose versions are changed one by one is as long as before.                       *)
LEMMA MappedList ==
    ASSUME NEW S, NEW list \in Seq(S), NEW new,
           new = [v \in 1 .. Len(list) |-> new[v]],
           \A v \in 1 .. Len(list) : new[v] \in S
    PROVE  new \in Seq(S) /\ Len(new) = Len(list)
<1>1. Len(list) \in Nat
  BY LenProperties
<1>2. new \in [1 .. Len(list) -> S]
  OBVIOUS
<1>3. new \in Seq(S)
  BY <1>1, <1>2, SeqDef
<1>4. DOMAIN new = 1 .. Len(list) /\ DOMAIN new = 1 .. Len(new) /\ Len(new) \in Nat
  BY <1>2, <1>3, LenProperties
<1>5. Len(new) = Len(list)
  BY <1>1, <1>4
<1> QED BY <1>3, <1>5

(* A version added at the end leaves the others where they are.                             *)
LEMMA AddedVersion ==
    ASSUME NEW S, NEW list \in Seq(S), NEW row \in S
    PROVE  /\ Append(list, row) \in Seq(S)
           /\ Len(list) \in Nat
           /\ Len(Append(list, row)) = Len(list) + 1
           /\ Append(list, row)[Len(list) + 1] = row
           /\ \A v \in 1 .. Len(list) : Append(list, row)[v] = list[v]
BY AppendProperties, LenProperties

(* A version that is rejected and withdrawn keeps everything else it had.                   *)
LEMMA WithdrawnRow ==
    ASSUME NEW row \in CookRows, NEW new,
           new = [row EXCEPT !.status = "REJECTED", !.withdrawn = TRUE]
    PROVE  /\ new \in CookRows
           /\ new.status = "REJECTED"
           /\ new.job = row.job /\ new.shown = row.shown
<1>1. "REJECTED" \in Statuses
  BY DEF Statuses
<1>2. PICK mid : mid = [row EXCEPT !.status = "REJECTED"]
  OBVIOUS
<1>3. mid \in CookRows /\ mid.status = "REJECTED" /\ mid.job = row.job /\ mid.shown = row.shown
  BY <1>1, <1>2 DEF CookRows
<1>4. new = [mid EXCEPT !.withdrawn = TRUE]
  BY <1>2
<1>5. new \in CookRows /\ new.status = mid.status /\ new.job = mid.job /\ new.shown = mid.shown
  BY <1>3, <1>4 DEF CookRows
<1> QED BY <1>3, <1>5

(* What a version may become where it stands: it stays, fitting the amount if it is         *)
(* published, or it is neither published nor validated any more.                            *)
MayBecome(row, new, amount) ==
    \/ new = row /\ (row.status = "PUBLISHED" => amount = row.amount)
    \/ /\ new \in CookRows
       /\ new.status \notin {"PUBLISHED", "VALIDATED"}
       /\ new.job = row.job /\ new.shown = row.shown

(* Published versions may give up that status for one that is neither published nor         *)
(* validated; the rest of the list stays.                                                   *)
LEMMA Restatused ==
    ASSUME NEW list, NEW now, NEW later, ListFits(list, now), MaxVersion \in Nat, NEW new,
           new = [v \in 1 .. Len(list) |-> new[v]],
           \A v \in 1 .. Len(list) : MayBecome(list[v], new[v], later.amount)
    PROVE  ListFits(new, later) /\ Len(new) = Len(list)
<1>1. list \in Seq(CookRows) /\ \A v \in 1 .. Len(list) : list[v] \in CookRows
  BY ElementOfSeq DEF ListFits
<1>2. \A v \in 1 .. Len(list) : new[v] \in CookRows
  BY <1>1 DEF MayBecome
<1>3. new \in Seq(CookRows) /\ Len(new) = Len(list)
  BY <1>1, <1>2, MappedList
<1>4. \A v \in 1 .. Len(list) : new[v].status \in {"PUBLISHED", "VALIDATED"} => new[v] = list[v]
  BY DEF MayBecome
<1>5. \A v \in 1 .. Len(list) : new[v].job = list[v].job /\ new[v].shown = list[v].shown
  BY DEF MayBecome
<1>6. \A v, w \in 1 .. Len(new) : new[v].status = "PUBLISHED" /\ new[w].status = "PUBLISHED" => v = w
  BY <1>3, <1>4 DEF ListFits
<1>7. \A v \in 1 .. Len(new) : new[v].status = "PUBLISHED" =>
         /\ new[v].amount = later.amount
         /\ new[v].text \in Scenarios
         /\ new[v].by = "writer" => new[v].text.made.amount = later.amount
  BY <1>3, <1>4 DEF ListFits, MayBecome
<1>8. \A v \in 1 .. Len(new) : new[v].status = "VALIDATED" =>
         new[v].by = "writer" /\ new[v].text \in Scenarios /\ new[v].text.made = new[v].input
  BY <1>3, <1>4 DEF ListFits
<1>9. \A v, w \in 1 .. Len(new) :
         ~new[v].shown /\ ~new[w].shown /\ new[v].job \in Jobs /\ new[v].job = new[w].job => v = w
  BY <1>3, <1>5 DEF ListFits
<1> QED BY <1>3, <1>6, <1>7, <1>8, <1>9 DEF ListFits

(* A new version goes to the end: a published one where none is, a validated one as it was  *)
(* written, and one of a task that has none.                                                *)
LEMMA Extended ==
    ASSUME NEW list, NEW now, ListFits(list, now), MaxVersion \in Nat, Len(list) < MaxVersion,
           NEW row \in CookRows,
           row.status = "PUBLISHED" =>
             /\ \A v \in 1 .. Len(list) : list[v].status # "PUBLISHED"
             /\ row.amount = now.amount
             /\ row.text \in Scenarios
             /\ row.by = "writer" => row.text.made.amount = now.amount,
           row.status = "VALIDATED" =>
             row.by = "writer" /\ row.text \in Scenarios /\ row.text.made = row.input,
           ~row.shown => \A v \in 1 .. Len(list) : list[v].job = row.job => row.job \notin Jobs
    PROVE  ListFits(Append(list, row), now)
<1> DEFINE new == Append(list, row)
<1>1. list \in Seq(CookRows)
  BY DEF ListFits
<1>2. /\ new \in Seq(CookRows) /\ Len(list) \in Nat /\ Len(new) = Len(list) + 1
      /\ new[Len(list) + 1] = row
      /\ \A v \in 1 .. Len(list) : new[v] = list[v]
  BY <1>1, AddedVersion
<1>3. \A v \in 1 .. Len(new) : v \in 1 .. Len(list) \/ v = Len(list) + 1
  BY <1>2
<1> HIDE DEF new
<1>4. Len(new) <= MaxVersion
  BY <1>2
<1>5. \A v, w \in 1 .. Len(new) : new[v].status = "PUBLISHED" /\ new[w].status = "PUBLISHED" => v = w
  BY <1>2, <1>3 DEF ListFits
<1>6. \A v \in 1 .. Len(new) : new[v].status = "PUBLISHED" =>
         /\ new[v].amount = now.amount
         /\ new[v].text \in Scenarios
         /\ new[v].by = "writer" => new[v].text.made.amount = now.amount
  BY <1>2, <1>3 DEF ListFits
<1>7. \A v \in 1 .. Len(new) : new[v].status = "VALIDATED" =>
         new[v].by = "writer" /\ new[v].text \in Scenarios /\ new[v].text.made = new[v].input
  BY <1>2, <1>3 DEF ListFits
<1>8. \A v, w \in 1 .. Len(new) :
         ~new[v].shown /\ ~new[w].shown /\ new[v].job \in Jobs /\ new[v].job = new[w].job => v = w
  BY <1>2, <1>3 DEF ListFits
<1>9. ListFits(new, now)
  BY <1>2, <1>4, <1>5, <1>6, <1>7, <1>8 DEF ListFits
<1> QED BY <1>9 DEF new

-----------------------------------------------------------------------------
(* The invariant at the start.                                                              *)
LEMMA CookStarts == CookInit => CookInv
<1> SUFFICES ASSUME CookInit PROVE CookInv
  OBVIOUS
<1>1. ListFits(rows, recipe) /\ recipe \in Contents
  BY CookAssumption DEF CookInit
<1>2. rows \in Seq(CookRows) /\ Len(rows) \in Nat /\ Len(rows) <= MaxVersion /\ MaxVersion \in Nat
  BY <1>1, LenProperties, CookAssumption DEF ListFits
<1>3. \A v, w \in Published : v = w
  BY <1>1 DEF ListFits, Published, Versions
<1>4. CookPoints /\ cook \in 0 .. MaxVersion
  <2>1. CASE Published = {}
    BY <2>1, <1>2 DEF CookPoints, CookInit, LatestOf
  <2>2. CASE Published # {}
    <3>1. PICK p \in Published : TRUE
      BY <2>2
    <3>2. p \in 1 .. Len(rows) /\ p <= p
      BY <1>2 DEF Published, Versions
    <3>3. \E v \in Published : \A w \in Published : w <= v
      BY <3>1, <3>2, <1>3
    <3>4. cook = CHOOSE v \in Published : \A w \in Published : w <= v
      BY <2>2 DEF CookInit, LatestOf
    <3>5. cook \in Published
      BY <3>3, <3>4
    <3> QED BY <3>5, <1>2 DEF CookPoints, Published, Versions
  <2> QED BY <2>1, <2>2
<1>5. edit \in [amount: Quantities \cup {None}, locked: BOOLEAN] /\ ~edit.locked
  BY DEF CookInit, NoChange
<1>6. /\ txn \in [kind: {"none", "load", "import", "panel", "withdraw", "save", "release"},
                who: Jobs \cup Pages \cup 1 .. MaxVersion \cup {None},
                text: Scenarios \cup {None}, seen: Contents \cup {None}]
      /\ txn.kind = "none"
  BY DEF CookInit, NoHold
<1>7. jobs \in [Jobs -> [pc: {"idle", "ready"}, seen: Contents \cup {None}, from: 0 .. MaxVersion,
                          status: {"none", "VALIDATED", "REJECTED", "SKIPPED"},
                          text: Scenarios \cup {None}]]
  BY <1>2 DEF CookInit, NoJob
<1>8. pages \in [Pages -> [pc: {"idle", "rows", "signature", "open"}, saw: Contents \cup {None},
                            based: 0 .. MaxVersion, amount: Quantities \cup {None}]]
  BY <1>2 DEF CookInit, NoPage
<1>9. banned \in Quantities \cup {None} /\ changes \in 0 .. MaxChanges
  BY CookAssumption DEF CookInit
<1>10. CookTypeOK
  BY <1>1, <1>2, <1>4, <1>5, <1>6, <1>7, <1>8, <1>9 DEF CookTypeOK
<1>11. HoldFits
  BY <1>6 DEF HoldFits
<1>12. \A j \in Jobs : JobFits(jobs[j])
  BY DEF CookInit, NoJob, JobFits
<1>13. \A p \in Pages : pages[p].pc = "idle"
  BY DEF CookInit, NoPage
<1> QED BY <1>1, <1>4, <1>5, <1>10, <1>11, <1>12, <1>13 DEF CookInv

(* A publication leaves one published version, the new one or the one that says the same.   *)
LEMMA PublishKeeps ==
    ASSUME CookInv, txn.kind # "none",
           NEW text \in Scenarios, NEW by \in {"writer", "panel", "golden"},
           NEW input \in Contents \cup {None}, NEW job \in Jobs \cup {None},
           by = "writer" => text.made.amount = txn.seen.amount,
           Publish(text, by, input, job), recipe' = recipe
    PROVE  /\ ListFits(rows, recipe)'
           /\ CookPoints'
           /\ cook' \in 0 .. MaxVersion
           /\ banned' \in Quantities \cup {None}
<1>1. /\ ListFits(rows, recipe) /\ CookPoints /\ recipe \in Contents
      /\ cook \in 0 .. MaxVersion /\ banned \in Quantities \cup {None}
      /\ txn.seen \in Contents /\ txn.seen.amount = recipe.amount
  BY DEF CookInv, CookTypeOK, HoldFits
<1>2. MaxVersion \in Nat /\ rows \in Seq(CookRows) /\ Len(rows) \in Nat
  BY <1>1, CookAssumption, LenProperties DEF ListFits
<1>3. CASE UNCHANGED <<rows, cook, banned>>
  <2>1. ListFits(rows, recipe)' /\ CookPoints'
    BY <1>1, <1>3 DEF CookPoints, Published, Versions
  <2> QED BY <1>1, <1>3, <2>1
<1>4. CASE ~UNCHANGED <<rows, cook, banned>>
  <2> DEFINE old == [v \in Versions |-> IF v \in Published THEN [rows[v] EXCEPT !.status = "RETIRED"]
                                                          ELSE rows[v]]
             row == [status |-> "PUBLISHED", amount |-> txn.seen.amount, input |-> input,
                     text |-> text, by |-> by, job |-> job, shown |-> TRUE, withdrawn |-> FALSE]
  <2>1. Len(rows) < MaxVersion /\ rows' = Append(old, row) /\ cook' = Len(rows) + 1 /\ banned' = None
    BY <1>4 DEF Publish
  <2>2. \A v \in 1 .. Len(rows) : rows[v] \in CookRows
    BY <1>2, ElementOfSeq
  <2>3. \A v \in 1 .. Len(rows) : v \in Published =>
           /\ old[v] = [rows[v] EXCEPT !.status = "RETIRED"]
           /\ old[v] \in CookRows /\ old[v].status = "RETIRED"
           /\ old[v].job = rows[v].job /\ old[v].shown = rows[v].shown
    <3> TAKE v \in 1 .. Len(rows)
    <3> HAVE v \in Published
    <3>1. old[v] = [rows[v] EXCEPT !.status = "RETIRED"]
      BY DEF Versions
    <3>2. rows[v] \in CookRows
      BY <2>2
    <3> QED BY <3>1, <3>2 DEF CookRows, Statuses
  <2>4. \A v \in 1 .. Len(rows) : v \notin Published => old[v] = rows[v] /\ old[v].status # "PUBLISHED"
    BY DEF Published, Versions
  <2>5. old = [v \in 1 .. Len(rows) |-> old[v]]
    BY DEF Versions
  <2>6. row \in CookRows
    BY <1>1, <2>2 DEF CookRows, Statuses, Contents
  <2>7. row.status = "PUBLISHED" /\ row.amount = recipe.amount /\ row.text = text /\ row.by = by /\ row.shown
    BY <1>1
  <2> HIDE DEF old, row
  <2>8. ListFits(old, recipe) /\ Len(old) = Len(rows)
    <3>1. \A v \in 1 .. Len(rows) : MayBecome(rows[v], old[v], recipe.amount)
      BY <2>3, <2>4 DEF MayBecome
    <3> QED BY <3>1, <1>1, <1>2, <2>5, Restatused
  <2>9. \A v \in 1 .. Len(old) : old[v].status # "PUBLISHED"
    BY <2>3, <2>4, <2>8
  <2>10. ListFits(Append(old, row), recipe)
    BY <1>1, <1>2, <2>1, <2>6, <2>7, <2>8, <2>9, Extended
  <2>11. ListFits(rows, recipe)'
    BY <2>1, <2>10
  <2>12. CookPoints'
    <3>1. old \in Seq(CookRows)
      BY <2>8 DEF ListFits
    <3>2. rows'[Len(rows) + 1] = row /\ Len(rows') = Len(rows) + 1
      BY <2>1, <2>6, <2>8, <3>1, AddedVersion
    <3>3. Len(rows) + 1 \in Published'
      BY <3>2, <2>7, <1>2 DEF Published, Versions
    <3> QED BY <3>3, <2>1 DEF CookPoints
  <2> QED BY <2>1, <2>11, <2>12, <1>2
<1> QED BY <1>3, <1>4

(* Where neither the recipe nor its versions move, what was said of them stays.              *)
LEMMA Quiet ==
    ASSUME CookInv, UNCHANGED <<recipe, cook, rows>>
    PROVE  ListFits(rows, recipe)' /\ CookPoints'
BY DEF CookInv, CookPoints, Published, Versions

(* Whoever takes the recipe reads the amounts it has.                                       *)
LEMMA HoldKeeps ==
    ASSUME CookInv,
           NEW kind \in {"load", "import", "panel", "withdraw", "save", "release"}, NEW who, NEW text,
           Hold(kind, who, text),
           who \in Jobs \cup Pages \cup Versions \cup {None},
           text \in Scenarios \cup {None},
           kind \in {"load", "import", "panel"} => text \in Scenarios,
           kind = "panel" => who \in Pages,
           kind = "save" => who \in Jobs /\ jobs[who].pc = "ready",
           kind = "release" => who \in Versions /\ rows[who].status = "VALIDATED"
    PROVE  CookInv'
<1>1. UNCHANGED <<recipe, cook, rows, edit, jobs, pages, banned, changes>> /\ ~edit.locked
  BY DEF Hold
<1>2. /\ txn' = [kind |-> kind, who |-> who, text |-> text, seen |-> recipe]
      /\ txn'.kind = kind /\ txn'.who = who /\ txn'.text = text /\ txn'.seen = recipe
  BY DEF Hold
<1>3. recipe \in Contents /\ Len(rows) \in Nat /\ Len(rows) <= MaxVersion /\ MaxVersion \in Nat
  BY CookAssumption, LenProperties DEF CookInv, CookTypeOK
<1>4. who \in Jobs \cup Pages \cup 1 .. MaxVersion \cup {None}
  BY <1>3 DEF Versions
<1>5. txn' \in [kind: {"none", "load", "import", "panel", "withdraw", "save", "release"},
                who: Jobs \cup Pages \cup 1 .. MaxVersion \cup {None},
                text: Scenarios \cup {None}, seen: Contents \cup {None}]
  BY <1>2, <1>3, <1>4
<1>6. CookTypeOK'
  BY <1>1, <1>5 DEF CookInv, CookTypeOK
<1>7. ListFits(rows, recipe)' /\ CookPoints'
  BY <1>1, Quiet
<1>8. HoldFits'
  BY <1>1, <1>2, <1>3 DEF HoldFits, Versions
<1> QED BY <1>1, <1>6, <1>7, <1>8 DEF CookInv, JobFits

(* What a transaction leaves when it ends with fitting versions and frees the recipe.       *)
LEMMA Freed ==
    ASSUME CookInv, txn' = NoHold, UNCHANGED <<recipe, edit, jobs, changes>>,
           ListFits(rows, recipe)', CookPoints', cook' \in 0 .. MaxVersion,
           banned' \in Quantities \cup {None},
           pages' = pages \/ \E p \in Pages : pages' = [pages EXCEPT ![p] = NoPage]
    PROVE  CookInv'
<1>1. txn' \in [kind: {"none", "load", "import", "panel", "withdraw", "save", "release"},
                who: Jobs \cup Pages \cup 1 .. MaxVersion \cup {None},
                text: Scenarios \cup {None}, seen: Contents \cup {None}]
      /\ txn'.kind = "none"
  BY DEF NoHold
<1>2. /\ pages' \in [Pages -> [pc: {"idle", "rows", "signature", "open"}, saw: Contents \cup {None},
                                based: 0 .. MaxVersion, amount: Quantities \cup {None}]]
      /\ \A p \in Pages : pages'[p].pc # "idle" => pages'[p].saw \in Contents
  <2>1. NoPage \in [pc: {"idle", "rows", "signature", "open"}, saw: Contents \cup {None},
                    based: 0 .. MaxVersion, amount: Quantities \cup {None}] /\ NoPage.pc = "idle"
    BY CookAssumption DEF NoPage
  <2>2. pages \in [Pages -> [pc: {"idle", "rows", "signature", "open"}, saw: Contents \cup {None},
                             based: 0 .. MaxVersion, amount: Quantities \cup {None}]]
        /\ \A p \in Pages : pages[p].pc # "idle" => pages[p].saw \in Contents
    BY DEF CookInv, CookTypeOK
  <2>3. CASE pages' = pages
    BY <2>2, <2>3
  <2>4. ASSUME NEW p \in Pages, pages' = [pages EXCEPT ![p] = NoPage]
        PROVE  /\ pages' \in [Pages -> [pc: {"idle", "rows", "signature", "open"}, saw: Contents \cup {None},
                                         based: 0 .. MaxVersion, amount: Quantities \cup {None}]]
               /\ \A q \in Pages : pages'[q].pc # "idle" => pages'[q].saw \in Contents
    BY <2>1, <2>2, <2>4, Zenon
  <2> QED BY <2>3, <2>4
<1>3. CookTypeOK'
  BY <1>1, <1>2 DEF CookInv, CookTypeOK, ListFits
<1>4. HoldFits'
  BY <1>1 DEF HoldFits
<1> QED BY <1>2, <1>3, <1>4 DEF CookInv, JobFits

-----------------------------------------------------------------------------
(* The invariant over the changes of the recipe.                                            *)
LEMMA ChangesKeep ==
    ASSUME CookInv, RecipeNext \/ ChangeName
    PROVE  CookInv'
<1>0. /\ CookTypeOK /\ ListFits(rows, recipe) /\ CookPoints /\ HoldFits
      /\ edit \in [amount: Quantities \cup {None}, locked: BOOLEAN]
      /\ edit.locked => edit.amount \in Quantities
      /\ recipe \in Contents /\ changes \in 0 .. MaxChanges /\ MaxChanges \in Nat /\ MaxVersion \in Nat
  BY CookAssumption DEF CookInv, CookTypeOK
<1>1. ASSUME ChangeIngredients PROVE CookInv'
  <2>1. PICK x \in Quantities : edit' = [amount |-> x, locked |-> FALSE]
    BY <1>1 DEF ChangeIngredients
  <2>2. edit' \in [amount: Quantities \cup {None}, locked: BOOLEAN] /\ ~edit'.locked
    BY <2>1
  <2>3. changes' \in 0 .. MaxChanges
    BY <1>0, <1>1 DEF ChangeIngredients
  <2>4. UNCHANGED <<recipe, cook, rows, txn, jobs, pages, banned>>
    BY <1>1 DEF ChangeIngredients
  <2>5. CookTypeOK'
    BY <1>0, <2>2, <2>3, <2>4 DEF CookTypeOK
  <2>6. HoldFits'
    BY <1>0, <2>2, <2>4 DEF HoldFits, Versions
  <2> QED BY <2>2, <2>4, <2>5, <2>6, Quiet DEF CookInv, JobFits
<1>2. ASSUME LockForChange PROVE CookInv'
  <2>1. edit' = [edit EXCEPT !.locked = TRUE] /\ edit # NoChange /\ ~edit.locked /\ txn = NoHold
    BY <1>2 DEF LockForChange
  <2>2. edit.amount # None
    BY <1>0, <2>1 DEF NoChange
  <2>3. edit' \in [amount: Quantities \cup {None}, locked: BOOLEAN] /\ edit'.amount \in Quantities
    BY <1>0, <2>1, <2>2
  <2>4. UNCHANGED <<recipe, cook, rows, txn, jobs, pages, banned, changes>>
    BY <1>2 DEF LockForChange
  <2>5. CookTypeOK'
    BY <1>0, <2>3, <2>4 DEF CookTypeOK
  <2>6. HoldFits'
    BY <2>1, <2>4 DEF HoldFits, NoHold
  <2> QED BY <2>3, <2>4, <2>5, <2>6, Quiet DEF CookInv, JobFits
<1>3. ASSUME CommitChange PROVE CookInv'
  <2> DEFINE outdated == {v \in Published : rows[v].amount # edit.amount}
             new == [v \in Versions |-> IF v \in outdated THEN [rows[v] EXCEPT !.status = "STALE"] ELSE rows[v]]
  <2>1. /\ edit.locked /\ recipe' = [recipe EXCEPT !.amount = edit.amount]
        /\ rows' = new /\ cook' = IF outdated = {} THEN cook ELSE 0
        /\ edit' = NoChange /\ UNCHANGED <<txn, jobs, pages, banned, changes>>
    BY <1>3 DEF CommitChange
  <2>2. recipe' \in Contents /\ recipe'.amount = edit.amount
    BY <1>0, <2>1 DEF Contents
  <2>3. rows \in Seq(CookRows) /\ Len(rows) \in Nat /\ \A v \in 1 .. Len(rows) : rows[v] \in CookRows
    BY <1>0, LenProperties, ElementOfSeq DEF ListFits
  <2>4. \A v \in 1 .. Len(rows) : v \in outdated =>
           /\ new[v] \in CookRows /\ new[v].status = "STALE"
           /\ new[v].job = rows[v].job /\ new[v].shown = rows[v].shown
    <3> TAKE v \in 1 .. Len(rows)
    <3> HAVE v \in outdated
    <3>1. new[v] = [rows[v] EXCEPT !.status = "STALE"]
      BY DEF Versions
    <3>2. rows[v] \in CookRows
      BY <2>3
    <3> QED BY <3>1, <3>2 DEF CookRows, Statuses
  <2>5. \A v \in 1 .. Len(rows) : v \notin outdated =>
           new[v] = rows[v] /\ (rows[v].status = "PUBLISHED" => rows[v].amount = edit.amount)
    BY DEF Published, Versions
  <2>6. new = [v \in 1 .. Len(rows) |-> new[v]]
    BY DEF Versions
  <2> HIDE DEF new
  <2>7. ListFits(new, recipe') /\ Len(new) = Len(rows)
    <3>1. \A v \in 1 .. Len(rows) : MayBecome(rows[v], new[v], recipe'.amount)
      BY <2>2, <2>4, <2>5 DEF MayBecome
    <3> DEFINE later == recipe'
    <3> HIDE DEF later
    <3>2. \A v \in 1 .. Len(rows) : MayBecome(rows[v], new[v], later.amount)
      BY <3>1 DEF later
    <3>3. ListFits(rows, recipe) /\ MaxVersion \in Nat
      BY <1>0
    <3>4. ListFits(new, later) /\ Len(new) = Len(rows)
      BY <3>2, <3>3, <2>6, Restatused
    <3> QED BY <3>4 DEF later
  <2>8. CookPoints'
    <3>1. CASE outdated = {}
      <4>1. \A v \in 1 .. Len(rows) : new[v] = rows[v]
        BY <3>1, <2>5
      <4> QED BY <4>1, <3>1, <2>1, <2>7, <1>0 DEF CookPoints, Published, Versions
    <3>2. CASE outdated # {}
      <4>1. PICK p \in 1 .. Len(rows) : p \in outdated
        BY <3>2 DEF Published, Versions
      <4>2. \A v \in 1 .. Len(rows) : rows[v].status = "PUBLISHED" => v = p
        BY <4>1, <1>0 DEF ListFits, Published, Versions
      <4>3. \A v \in 1 .. Len(rows) : new[v].status # "PUBLISHED"
        BY <4>1, <4>2, <2>4, <2>5
      <4> QED BY <4>3, <3>2, <2>1, <2>7 DEF CookPoints, Published, Versions
    <3> QED BY <3>1, <3>2
  <2>9. ListFits(rows, recipe)'
    BY <2>1, <2>7
  <2>10. edit' \in [amount: Quantities \cup {None}, locked: BOOLEAN] /\ ~edit'.locked
    BY <2>1 DEF NoChange
  <2>11. CookTypeOK'
    <3>1. cook' \in 0 .. MaxVersion
      BY <1>0, <2>1 DEF CookTypeOK
    <3>2. (rows \in Seq(CookRows))' /\ (Len(rows) <= MaxVersion)'
      BY <2>9 DEF ListFits
    <3> QED BY <1>0, <2>1, <2>2, <2>10, <3>1, <3>2 DEF CookTypeOK
  <2>12. HoldFits'
    <3>1. txn.kind = "none"
      BY <1>0, <2>1 DEF HoldFits
    <3> QED BY <3>1, <2>1 DEF HoldFits
  <2> QED BY <2>1, <2>8, <2>9, <2>10, <2>11, <2>12 DEF CookInv, JobFits
<1>4. ASSUME AbortChange PROVE CookInv'
  <2>1. edit' = NoChange /\ UNCHANGED <<recipe, cook, rows, txn, jobs, pages, banned, changes>>
    BY <1>4 DEF AbortChange
  <2>2. edit' \in [amount: Quantities \cup {None}, locked: BOOLEAN] /\ ~edit'.locked
    BY <2>1 DEF NoChange
  <2>3. CookTypeOK'
    BY <1>0, <2>1, <2>2 DEF CookTypeOK
  <2>4. HoldFits'
    BY <1>0, <2>1, <2>2 DEF HoldFits, Versions
  <2> QED BY <2>1, <2>2, <2>3, <2>4, Quiet DEF CookInv, JobFits
<1>5. ASSUME ChangeName PROVE CookInv'
  <2>1. PICK x \in Names : recipe' = [recipe EXCEPT !.name = x]
    BY <1>5 DEF ChangeName
  <2>2. recipe' \in Contents /\ recipe'.amount = recipe.amount
    BY <1>0, <2>1 DEF Contents
  <2>3. changes' \in 0 .. MaxChanges /\ UNCHANGED <<cook, rows, edit, txn, jobs, pages, banned>>
    BY <1>0, <1>5 DEF ChangeName
  <2>4. CookTypeOK'
    BY <1>0, <2>2, <2>3 DEF CookTypeOK
  <2>5. HoldFits'
    BY <1>0, <2>2, <2>3 DEF HoldFits, Versions
  <2>6. ListFits(rows, recipe)' /\ CookPoints'
    BY <1>0, <2>2, <2>3 DEF ListFits, CookPoints, Published, Versions
  <2> QED BY <2>3, <2>4, <2>5, <2>6 DEF CookInv, JobFits
<1> QED BY <1>1, <1>2, <1>3, <1>4, <1>5 DEF RecipeNext

(* The invariant over the transactions that begin, and those that give up.                  *)
LEMMA BeginningsKeep ==
    ASSUME CookInv,
           \/ Rollback \/ StartLoad \/ StartImport \/ StartWithdraw \/ StartRelease
           \/ \E p \in Pages : StartPanel(p)
           \/ \E j \in Jobs : StartSave(j)
    PROVE  CookInv'
<1>0. recipe \in Contents /\ CookTypeOK
  BY DEF CookInv, CookTypeOK
<1>1. ASSUME Rollback PROVE CookInv'
  <2>1. txn' = NoHold /\ UNCHANGED <<recipe, cook, rows, edit, jobs, banned, changes>>
    BY <1>1 DEF Rollback
  <2>2. pages' = pages \/ \E p \in Pages : pages' = [pages EXCEPT ![p] = NoPage]
    BY <1>1 DEF Rollback, CookInv, HoldFits
  <2>3. ListFits(rows, recipe)' /\ CookPoints'
    BY <2>1, Quiet
  <2>4. cook' \in 0 .. MaxVersion /\ banned' \in Quantities \cup {None}
    BY <1>0, <2>1 DEF CookTypeOK
  <2> QED BY <2>1, <2>2, <2>3, <2>4, Freed
<1>2. ASSUME StartLoad PROVE CookInv'
  <2>1. PICK c \in Contents, d \in Drafts : Hold("load", None, [made |-> c, draft |-> d])
    BY <1>2 DEF StartLoad
  <2> DEFINE text == [made |-> c, draft |-> d]
  <2>2. text \in Scenarios
    BY DEF Scenarios
  <2> HIDE DEF text
  <2>3. Hold("load", None, text)
    BY <2>1 DEF text
  <2> QED BY <2>2, <2>3, HoldKeeps
<1>3. ASSUME StartImport PROVE CookInv'
  <2>1. PICK c \in Contents : Hold("import", None, [made |-> c, draft |-> CHOOSE d \in Drafts : TRUE])
    BY <1>3 DEF StartImport
  <2> DEFINE text == [made |-> c, draft |-> CHOOSE d \in Drafts : TRUE]
  <2>2. (CHOOSE d \in Drafts : TRUE) \in Drafts
    BY CookAssumption
  <2>3. text \in Scenarios
    BY <2>2 DEF Scenarios
  <2> HIDE DEF text
  <2>4. Hold("import", None, text)
    BY <2>1 DEF text
  <2> QED BY <2>3, <2>4, HoldKeeps
<1>4. ASSUME NEW p \in Pages, StartPanel(p) PROVE CookInv'
  <2>1. PICK d \in Drafts : Hold("panel", p, [made |-> pages[p].saw, draft |-> d])
    BY <1>4 DEF StartPanel
  <2> DEFINE text == [made |-> pages[p].saw, draft |-> d]
  <2>2. pages[p].saw \in Contents
    BY <1>4 DEF StartPanel, CookInv
  <2>3. text \in Scenarios
    BY <2>2 DEF Scenarios
  <2> HIDE DEF text
  <2>4. Hold("panel", p, text)
    BY <2>1 DEF text
  <2> QED BY <2>3, <2>4, HoldKeeps
<1>5. ASSUME StartWithdraw PROVE CookInv'
  BY <1>5, HoldKeeps DEF StartWithdraw
<1>6. ASSUME StartRelease PROVE CookInv'
  <2>1. PICK v \in Versions : rows[v].status = "VALIDATED" /\ Hold("release", v, None)
    BY <1>6 DEF StartRelease
  <2> QED BY <2>1, HoldKeeps
<1>7. ASSUME NEW j \in Jobs, StartSave(j) PROVE CookInv'
  BY <1>7, HoldKeeps DEF StartSave
<1> QED BY <1>1, <1>2, <1>3, <1>4, <1>5, <1>6, <1>7

(* The invariant over the readings: a page of the panel, and a task that starts.            *)
LEMMA ReadingsKeep ==
    ASSUME CookInv,
           \/ \E p \in Pages : ReadRecipe(p) \/ ReadVersions(p) \/ ReadSignature(p)
           \/ \E j \in Jobs : StartJob(j)
    PROVE  CookInv'
<1> DEFINE Page == [pc: {"idle", "rows", "signature", "open"}, saw: Contents \cup {None},
                    based: 0 .. MaxVersion, amount: Quantities \cup {None}]
           Job == [pc: {"idle", "ready"}, seen: Contents \cup {None}, from: 0 .. MaxVersion,
                   status: {"none", "VALIDATED", "REJECTED", "SKIPPED"}, text: Scenarios \cup {None}]
<1>0. /\ recipe \in Contents /\ CookTypeOK /\ MaxVersion \in Nat
      /\ Len(rows) \in Nat /\ Len(rows) <= MaxVersion
      /\ pages \in [Pages -> Page] /\ jobs \in [Jobs -> Job]
      /\ \A p \in Pages : pages[p].pc # "idle" => pages[p].saw \in Contents
      /\ recipe.amount \in Quantities
  BY CookAssumption, LenProperties DEF CookInv, CookTypeOK, Contents
<1>1. ASSUME NEW p \in Pages, NEW page \in Page, page.saw \in Contents,
             pages' = [pages EXCEPT ![p] = page],
             UNCHANGED <<recipe, cook, rows, edit, txn, jobs, banned, changes>>
      PROVE  CookInv'
  <2>1. pages' \in [Pages -> Page]
    BY <1>0, <1>1
  <2>2. \A q \in Pages : pages'[q].pc # "idle" => pages'[q].saw \in Contents
    BY <1>0, <1>1
  <2>3. CookTypeOK'
    BY <1>0, <1>1, <2>1 DEF CookTypeOK
  <2>4. HoldFits'
    BY <1>1 DEF CookInv, HoldFits, Versions
  <2> QED BY <1>1, <2>2, <2>3, <2>4, Quiet DEF CookInv, JobFits
<1>2. ASSUME NEW p \in Pages, ReadRecipe(p) PROVE CookInv'
  <2> DEFINE page == [pc |-> "rows", saw |-> recipe, based |-> 0, amount |-> None]
  <2>1. 0 \in 0 .. MaxVersion
    BY <1>0
  <2>2. page \in Page /\ page.saw \in Contents
    BY <1>0, <2>1
  <2>3. pages' = [pages EXCEPT ![p] = page] /\ UNCHANGED <<recipe, cook, rows, edit, txn, jobs, banned, changes>>
    BY <1>2 DEF ReadRecipe
  <2> HIDE DEF page, Page
  <2> QED BY <1>1, <2>2, <2>3
<1>3. ASSUME NEW p \in Pages, ReadVersions(p) PROVE CookInv'
  <2> DEFINE page == [pages[p] EXCEPT !.pc = "signature", !.based = Len(rows)]
  <2>1. pages[p] \in Page
    BY <1>0
  <2>2. pages[p].saw \in Contents
    BY <1>0, <1>3 DEF ReadVersions
  <2>3. Len(rows) \in 0 .. MaxVersion
    BY <1>0
  <2>4. page \in Page /\ page.saw \in Contents
    BY <2>1, <2>2, <2>3
  <2>5. pages' = [pages EXCEPT ![p] = page] /\ UNCHANGED <<recipe, cook, rows, edit, txn, jobs, banned, changes>>
    BY <1>3 DEF ReadVersions
  <2> HIDE DEF page, Page
  <2> QED BY <1>1, <2>4, <2>5
<1>4. ASSUME NEW p \in Pages, ReadSignature(p) PROVE CookInv'
  <2> DEFINE page == [pages[p] EXCEPT !.pc = "open", !.amount = recipe.amount]
  <2>1. page \in Page /\ page.saw \in Contents
    BY <1>0, <1>4 DEF ReadSignature
  <2>2. pages' = [pages EXCEPT ![p] = page] /\ UNCHANGED <<recipe, cook, rows, edit, txn, jobs, banned, changes>>
    BY <1>4 DEF ReadSignature
  <2> HIDE DEF page, Page
  <2> QED BY <1>1, <2>1, <2>2
<1>5. ASSUME NEW j \in Jobs, StartJob(j) PROVE CookInv'
  <2> DEFINE rejected == {v \in Versions : v = CurrentWrite(recipe) /\ rows[v].status = "REJECTED"}
  <2>1. PICK from \in {0} \cup rejected, x \in Answers(recipe) :
          jobs' = [jobs EXCEPT ![j] = [pc |-> "ready", seen |-> recipe, from |-> from,
                                       status |-> x.status, text |-> x.text]]
    BY <1>5 DEF StartJob
  <2>2. UNCHANGED <<recipe, cook, rows, edit, txn, pages, banned, changes>>
    BY <1>5 DEF StartJob
  <2>3. x.status \in {"VALIDATED", "REJECTED", "SKIPPED"} /\ x.text \in Scenarios \cup {None}
        /\ (x.status = "VALIDATED" => x.text \in Scenarios /\ x.text.made = recipe)
    BY <1>0 DEF Answers, Scenarios
  <2>4. from \in 0 .. MaxVersion
    BY <1>0 DEF Versions
  <2> DEFINE job == [pc |-> "ready", seen |-> recipe, from |-> from, status |-> x.status, text |-> x.text]
  <2>5. job \in Job /\ JobFits(job)
    BY <1>0, <2>3, <2>4 DEF JobFits
  <2>6. jobs' = [jobs EXCEPT ![j] = job]
    BY <2>1
  <2> HIDE DEF job, Job
  <2>7. jobs' \in [Jobs -> Job] /\ \A i \in Jobs : JobFits(jobs[i])'
    BY <1>0, <2>5, <2>6 DEF CookInv
  <2>8. CookTypeOK'
    BY <1>0, <2>2, <2>7 DEF CookTypeOK, Job
  <2>9. HoldFits'
    BY <1>0, <1>5, <2>2, <2>6 DEF CookInv, HoldFits, Versions, StartJob, NoJob
  <2> QED BY <2>2, <2>7, <2>8, <2>9, Quiet DEF CookInv
<1> QED BY <1>2, <1>3, <1>4, <1>5

-----------------------------------------------------------------------------
(* The invariant over the transactions that publish or withdraw.                            *)
LEMMA PublicationsKeep ==
    ASSUME CookInv, Load \/ Import \/ PanelPublish \/ Withdraw \/ Release
    PROVE  CookInv'
<1>0. /\ CookTypeOK /\ HoldFits /\ ListFits(rows, recipe) /\ CookPoints
      /\ cook \in 0 .. MaxVersion /\ banned \in Quantities \cup {None}
      /\ recipe.amount \in Quantities /\ MaxVersion \in Nat
      /\ rows \in Seq(CookRows) /\ Len(rows) \in Nat /\ DOMAIN rows = 1 .. Len(rows)
      /\ \A v \in 1 .. Len(rows) : rows[v] \in CookRows
  BY CookAssumption, LenProperties, ElementOfSeq DEF CookInv, CookTypeOK, Contents
<1>1. ASSUME UNCHANGED <<rows, cook, banned, recipe>>
      PROVE  ListFits(rows, recipe)' /\ CookPoints' /\ cook' \in 0 .. MaxVersion
             /\ banned' \in Quantities \cup {None}
  BY <1>0, <1>1, Quiet
<1>2. ASSUME Load PROVE CookInv'
  <2>1. /\ txn.kind = "load" /\ Publish(txn.text, "golden", None, None)
        /\ txn' = NoHold /\ UNCHANGED <<recipe, edit, jobs, pages, changes>>
    BY <1>2 DEF Load
  <2>2. txn.text \in Scenarios
    BY <1>0, <2>1 DEF HoldFits
  <2>3. /\ ListFits(rows, recipe)' /\ CookPoints' /\ cook' \in 0 .. MaxVersion
        /\ banned' \in Quantities \cup {None}
    BY <2>1, <2>2, PublishKeeps
  <2> QED BY <2>1, <2>3, Freed
<1>3. ASSUME Import PROVE CookInv'
  <2>1. /\ txn.kind = "import"
        /\ IF MayImport THEN Publish(txn.text, "writer", txn.seen, None)
                        ELSE UNCHANGED <<rows, cook, banned>>
        /\ txn' = NoHold /\ UNCHANGED <<recipe, edit, jobs, pages, changes>>
    BY <1>3 DEF Import
  <2>2. txn.text \in Scenarios /\ txn.seen \in Contents
    BY <1>0, <2>1 DEF HoldFits
  <2>3. CASE MayImport
    <3>1. txn.text.made.amount = txn.seen.amount
      BY <2>3 DEF MayImport
    <3>2. /\ ListFits(rows, recipe)' /\ CookPoints' /\ cook' \in 0 .. MaxVersion
          /\ banned' \in Quantities \cup {None}
      BY <2>1, <2>2, <2>3, <3>1, PublishKeeps
    <3> QED BY <2>1, <3>2, Freed
  <2>4. CASE ~MayImport
    BY <1>1, <2>1, <2>4, Freed
  <2> QED BY <2>3, <2>4
<1>4. ASSUME PanelPublish PROVE CookInv'
  <2>1. /\ txn.kind = "panel"
        /\ IF TokensHold(pages[txn.who]) THEN Publish(txn.text, "panel", txn.seen, None)
                                         ELSE UNCHANGED <<rows, cook, banned>>
        /\ pages' = [pages EXCEPT ![txn.who] = NoPage]
        /\ txn' = NoHold /\ UNCHANGED <<recipe, edit, jobs, changes>>
    BY <1>4 DEF PanelPublish
  <2>2. txn.text \in Scenarios /\ txn.seen \in Contents /\ txn.who \in Pages
    BY <1>0, <2>1 DEF HoldFits
  <2>3. \E p \in Pages : pages' = [pages EXCEPT ![p] = NoPage]
    BY <2>1, <2>2
  <2>4. CASE TokensHold(pages[txn.who])
    <3>1. /\ ListFits(rows, recipe)' /\ CookPoints' /\ cook' \in 0 .. MaxVersion
          /\ banned' \in Quantities \cup {None}
      BY <2>1, <2>2, <2>4, PublishKeeps
    <3> QED BY <2>1, <2>3, <3>1, Freed
  <2>5. CASE ~TokensHold(pages[txn.who])
    BY <1>1, <2>1, <2>3, <2>5, Freed
  <2> QED BY <2>4, <2>5
<1>5. ASSUME Withdraw PROVE CookInv'
  <2>1. txn' = NoHold /\ UNCHANGED <<recipe, edit, jobs, pages, changes>>
    BY <1>5 DEF Withdraw
  <2>2. CASE Published = {}
    BY <1>1, <1>5, <2>1, <2>2, Freed DEF Withdraw
  <2>3. CASE Published # {}
    <3> DEFINE new == [v \in Versions |-> IF v \in Published
                                           THEN [rows[v] EXCEPT !.status = "REJECTED", !.withdrawn = TRUE]
                                           ELSE rows[v]]
    <3>1. rows' = new /\ cook' = 0 /\ banned' = recipe.amount
      BY <1>5, <2>3 DEF Withdraw
    <3>2. \A v \in 1 .. Len(rows) : v \in Published =>
             /\ new[v] \in CookRows /\ new[v].status = "REJECTED"
             /\ new[v].job = rows[v].job /\ new[v].shown = rows[v].shown
      <4> TAKE v \in 1 .. Len(rows)
      <4> HAVE v \in Published
      <4>1. new[v] = [rows[v] EXCEPT !.status = "REJECTED", !.withdrawn = TRUE]
        BY DEF Versions
      <4>2. rows[v] \in CookRows
        BY <1>0
      <4> HIDE DEF new
      <4> QED BY <4>1, <4>2, WithdrawnRow
    <3>3. \A v \in 1 .. Len(rows) : v \notin Published => new[v] = rows[v] /\ new[v].status # "PUBLISHED"
      BY DEF Published, Versions
    <3>4. new = [v \in 1 .. Len(rows) |-> new[v]]
      BY DEF Versions
    <3> HIDE DEF new
    <3>5. \A v \in 1 .. Len(rows) : MayBecome(rows[v], new[v], recipe.amount)
      BY <3>2, <3>3 DEF MayBecome
    <3>6. ListFits(new, recipe) /\ Len(new) = Len(rows)
      BY <1>0, <3>4, <3>5, Restatused
    <3>7. \A v \in 1 .. Len(new) : new[v].status # "PUBLISHED"
      BY <3>2, <3>3, <3>6
    <3>8. ListFits(rows, recipe)' /\ CookPoints'
      BY <2>1, <3>1, <3>6, <3>7 DEF CookPoints, Published, Versions
    <3>9. cook' \in 0 .. MaxVersion /\ banned' \in Quantities \cup {None}
      BY <1>0, <3>1
    <3> QED BY <2>1, <3>8, <3>9, Freed
  <2> QED BY <2>2, <2>3
<1>6. ASSUME Release PROVE CookInv'
  <2> DEFINE row == rows[txn.who]
  <2>1. txn.kind = "release" /\ txn' = NoHold /\ UNCHANGED <<recipe, edit, jobs, pages, changes>>
    BY <1>6 DEF Release
  <2>2. /\ txn.who \in 1 .. Len(rows) /\ row.status = "VALIDATED" /\ row \in CookRows
        /\ txn.seen \in Contents
    BY <1>0, <2>1 DEF HoldFits, Versions
  <2>3. row.by = "writer" /\ row.text \in Scenarios /\ row.text.made = row.input
    BY <1>0, <2>2 DEF ListFits
  <2>4. CASE row.input = txn.seen /\ row.amount = txn.seen.amount
    <3>1. Publish(row.text, row.by, row.input, row.job)
      BY <1>6, <2>4 DEF Release
    <3>2. /\ row.by \in {"writer", "panel", "golden"} /\ row.input \in Contents \cup {None}
          /\ row.job \in Jobs \cup {None} /\ row.text.made.amount = txn.seen.amount
      BY <2>2, <2>3, <2>4 DEF CookRows
    <3> HIDE DEF row
    <3>3. /\ ListFits(rows, recipe)' /\ CookPoints' /\ cook' \in 0 .. MaxVersion
          /\ banned' \in Quantities \cup {None}
      BY <2>1, <2>3, <3>1, <3>2, PublishKeeps
    <3> QED BY <2>1, <3>3, Freed
  <2>5. CASE ~(row.input = txn.seen /\ row.amount = txn.seen.amount)
    <3> DEFINE new == [rows EXCEPT ![txn.who] = [@ EXCEPT !.status = "STALE"]]
    <3>1. rows' = new /\ UNCHANGED <<cook, banned>>
      BY <1>6, <2>5 DEF Release
    <3>2. new[txn.who] = [row EXCEPT !.status = "STALE"]
          /\ \A v \in 1 .. Len(rows) : v # txn.who => new[v] = rows[v]
      BY <1>0, <2>2
    <3>3. /\ new[txn.who] \in CookRows /\ new[txn.who].status = "STALE"
          /\ new[txn.who].job = row.job /\ new[txn.who].shown = row.shown
      BY <2>2, <3>2 DEF CookRows, Statuses
    <3>4. new = [v \in 1 .. Len(rows) |-> new[v]]
      BY <1>0
    <3> HIDE DEF new
    <3>5. \A v \in 1 .. Len(rows) : MayBecome(rows[v], new[v], recipe.amount)
      BY <1>0, <3>2, <3>3 DEF ListFits, MayBecome
    <3>6. ListFits(new, recipe) /\ Len(new) = Len(rows)
      BY <1>0, <3>4, <3>5, Restatused
    <3>7. \A v \in 1 .. Len(rows) : new[v].status = "PUBLISHED" <=> rows[v].status = "PUBLISHED"
      BY <2>2, <3>2, <3>3
    <3>8. ListFits(rows, recipe)' /\ CookPoints'
      BY <1>0, <2>1, <3>1, <3>6, <3>7 DEF CookPoints, Published, Versions
    <3> QED BY <1>0, <2>1, <3>1, <3>8, Freed
  <2> QED BY <2>4, <2>5
<1> QED BY <1>2, <1>3, <1>4, <1>5, <1>6

(* The invariant over the saving of what a task wrote.                                      *)
LEMMA SaveKeeps ==
    ASSUME CookInv, Save
    PROVE  CookInv'
<1> DEFINE job == jobs[txn.who]
           changed == txn.seen # job.seen
           row == [status |-> IF changed THEN "STALE" ELSE job.status, amount |-> job.seen.amount,
                   input |-> job.seen, text |-> job.text, by |-> "writer", job |-> txn.who,
                   shown |-> FALSE, withdrawn |-> FALSE]
<1>1. /\ txn.kind = "save" /\ txn' = NoHold
      /\ UNCHANGED <<recipe, cook, edit, jobs, pages, banned, changes>>
  BY DEF Save
<1>2. /\ ListFits(rows, recipe) /\ CookPoints /\ MaxVersion \in Nat
      /\ cook \in 0 .. MaxVersion /\ banned \in Quantities \cup {None}
      /\ rows \in Seq(CookRows) /\ Len(rows) \in Nat
  BY CookAssumption, LenProperties DEF CookInv, CookTypeOK
<1>3. CASE rows' = rows
  <2>1. ListFits(rows, recipe)' /\ CookPoints'
    BY <1>1, <1>3, Quiet
  <2> QED BY <1>1, <1>2, <2>1, Freed
<1>4. CASE rows' # rows
  <2>1. /\ ~ \E v \in Versions : rows[v].job = txn.who
        /\ Len(rows) < MaxVersion /\ rows' = Append(rows, row)
    BY <1>4 DEF Save, Add
  <2>2. txn.who \in Jobs /\ job.pc = "ready" /\ JobFits(job)
    BY <1>1 DEF CookInv, HoldFits
  <2>3. /\ job.seen \in Contents /\ job.status \in {"VALIDATED", "REJECTED", "SKIPPED"}
        /\ job.status = "VALIDATED" => job.text \in Scenarios /\ job.text.made = job.seen
    BY <2>2 DEF JobFits
  <2>4. job.text \in Scenarios \cup {None}
    BY <2>2 DEF CookInv, CookTypeOK
  <2>5. job.seen.amount \in Quantities
    BY <2>3 DEF Contents
  <2> DEFINE status == IF changed THEN "STALE" ELSE job.status
  <2>6. status \in {"VALIDATED", "REJECTED", "SKIPPED", "STALE"} /\ (status = "VALIDATED" => job.status = "VALIDATED")
    BY <2>3
  <2>7. row.status = status /\ row.job = txn.who /\ row.by = "writer" /\ row.text = job.text /\ row.input = job.seen
    OBVIOUS
  <2> HIDE DEF status, changed, job
  <2>8. row \in CookRows
    BY <2>2, <2>3, <2>4, <2>5, <2>6 DEF CookRows, Statuses, status
  <2> HIDE DEF row
  <2>9. ListFits(Append(rows, row), recipe)
    <3>1. row.status # "PUBLISHED"
      BY <2>6, <2>7
    <3>2. row.status = "VALIDATED" =>
             row.by = "writer" /\ row.text \in Scenarios /\ row.text.made = row.input
      BY <2>3, <2>6, <2>7
    <3>3. \A v \in 1 .. Len(rows) : rows[v].job # row.job
      BY <2>1, <2>7 DEF Versions
    <3> QED BY <1>2, <2>1, <2>8, <3>1, <3>2, <3>3, Extended
  <2>10. CookPoints'
    <3>1. /\ Len(rows') = Len(rows) + 1 /\ rows'[Len(rows) + 1] = row
          /\ \A v \in 1 .. Len(rows) : rows'[v] = rows[v]
      BY <1>2, <2>1, <2>8, AddedVersion
    <3>2. row.status # "PUBLISHED"
      BY <2>6, <2>7
    <3>3. \A v \in 1 .. Len(rows) + 1 : v \in 1 .. Len(rows) \/ v = Len(rows) + 1
      BY <1>2
    <3>4. Published' = Published
      BY <1>2, <3>1, <3>2, <3>3 DEF Published, Versions
    <3> QED BY <1>1, <1>2, <3>4 DEF CookPoints
  <2>11. ListFits(rows, recipe)'
    BY <1>1, <2>1, <2>9
  <2> QED BY <1>1, <1>2, <2>10, <2>11, Freed
<1> QED BY <1>3, <1>4

(* Every step keeps the invariant.                                                          *)
LEMMA CookStep == CookInv /\ [CookNext]_cookVars => CookInv'
<1> SUFFICES ASSUME CookInv, [CookNext]_cookVars PROVE CookInv'
  OBVIOUS
<1>1. CASE UNCHANGED cookVars
  BY <1>1 DEF cookVars, CookInv, CookTypeOK, CookPoints, HoldFits, JobFits, Published, Versions
<1>2. CASE CookNext
  BY <1>2, ChangesKeep, BeginningsKeep, ReadingsKeep, PublicationsKeep, SaveKeeps
     DEF CookNext, LoaderNext, ImportNext, WithdrawNext, ReleaseNext, PanelNext, WriterNext
<1> QED BY <1>1, <1>2

LEMMA CookAlways == CookSpec => []CookInv
BY CookStarts, CookStep, PTL DEF CookSpec

(* Type correctness.                                                                        *)
THEOREM CookTypes == CookSpec => []CookTypeOK
<1>1. CookInv => CookTypeOK
  BY DEF CookInv
<1> QED BY <1>1, CookAlways, PTL

(* A set whose members are all the same has at most one.                                    *)
LEMMA AtMostOne ==
    ASSUME NEW S, \A x, y \in S : x = y
    PROVE  Cardinality(S) <= 1
<1>1. CASE S = {}
  BY <1>1, FS_EmptySet
<1>2. ASSUME NEW x \in S PROVE Cardinality(S) <= 1
  <2>1. S = {x}
    OBVIOUS
  <2>2. Cardinality({x}) = 1
    BY FS_Singleton
  <2> QED BY <2>1, <2>2
<1> QED BY <1>1, <1>2

(* The telephones cook by one version, signed for the amounts the recipe has and, where the *)
(* writing system wrote it, made for them; a task leaves one result however often it is     *)
(* saved (ScenariosFit).                                                                    *)
THEOREM ScenariosAlwaysFit == CookSpec => []ScenariosFit
<1>1. CookInv => ScenariosFit
  <2> SUFFICES ASSUME CookInv PROVE ScenariosFit
    OBVIOUS
  <2>1. ListFits(rows, recipe) /\ CookPoints /\ Len(rows) \in Nat
    BY LenProperties DEF CookInv, ListFits
  <2>2. \A v, w \in Published : v = w
    BY <2>1 DEF ListFits, Published, Versions
  <2>3. Cardinality(Published) <= 1
    BY <2>2, AtMostOne
  <2>4. cook = LatestOf(Published)
    <3>1. CASE Published = {}
      BY <2>1, <3>1 DEF CookPoints, LatestOf
    <3>2. CASE Published # {}
      <4>1. cook \in Published
        BY <2>1, <3>2 DEF CookPoints
      <4>2. cook <= cook
        BY <2>1, <4>1 DEF Published, Versions
      <4>3. \E v \in Published : \A w \in Published : w <= v
        BY <4>1, <4>2, <2>2
      <4>4. LatestOf(Published) = CHOOSE v \in Published : \A w \in Published : w <= v
        BY <3>2 DEF LatestOf
      <4>5. LatestOf(Published) \in Published
        BY <4>3, <4>4
      <4> QED BY <4>1, <4>5, <2>2
    <3> QED BY <3>1, <3>2
  <2>5. \A v \in Published : rows[v].amount = recipe.amount
    BY <2>1 DEF ListFits, Published, Versions
  <2>6. PhonesCookThis
    BY <2>3, <2>4, <2>5 DEF PhonesCookThis
  <2>7. TextFitsRecipe
    BY <2>1 DEF TextFitsRecipe, ListFits, Published, Versions
  <2>8. OneResultPerTask
    <3> SUFFICES ASSUME NEW j \in Jobs
                 PROVE  Cardinality({v \in Versions : rows[v].job = j /\ ~rows[v].shown}) <= 1
      BY DEF OneResultPerTask
    <3> DEFINE results == {v \in Versions : rows[v].job = j /\ ~rows[v].shown}
    <3>1. \A v, w \in results : v = w
      BY <2>1 DEF ListFits, Versions
    <3> QED BY <3>1, AtMostOne
  <2> QED BY <2>6, <2>7, <2>8 DEF ScenariosFit
<1> QED BY <1>1, CookAlways, PTL

-----------------------------------------------------------------------------
(* What people decided.                                                                     *)

(* What was withdrawn last is the last thing the telephones had, and nothing is on them.    *)
BanFits ==
    banned # None =>
      /\ Published = {}
      /\ \E w \in Versions :
           /\ rows[w].status = "REJECTED" /\ rows[w].withdrawn /\ rows[w].amount = banned
           /\ \A v \in Versions : w < v => ~rows[v].shown

(* A version where it stands, when it is not published: what it says and whom it reached    *)
(* stays, and what was withdrawn stays withdrawn.                                           *)
Remains(row, new) ==
    /\ new.status = "PUBLISHED" => row.status = "PUBLISHED"
    /\ new.shown = row.shown /\ new.input = row.input /\ new.amount = row.amount
    /\ new.withdrawn => row.withdrawn \/ row.status = "PUBLISHED"
    /\ row.status = "REJECTED" /\ row.withdrawn => new.status = "REJECTED" /\ new.withdrawn

LEMMA OrderStays ==
    ASSUME NEW list, ShownInOrder(list), NEW new, Len(new) = Len(list),
           \A v \in 1 .. Len(list) : Remains(list[v], new[v])
    PROVE  ShownInOrder(new)
<1>1. \A v \in 1 .. Len(list) :
        /\ new[v].shown = list[v].shown /\ new[v].input = list[v].input
        /\ new[v].amount = list[v].amount
        /\ new[v].status = "PUBLISHED" => list[v].status = "PUBLISHED"
        /\ new[v].withdrawn => list[v].withdrawn \/ list[v].status = "PUBLISHED"
  BY DEF Remains
<1>2. \A v \in 1 .. Len(new) : new[v].withdrawn \/ new[v].status = "PUBLISHED" => new[v].shown
  BY <1>1 DEF ShownInOrder
<1>3. \A v, w \in 1 .. Len(new) : new[v].status = "PUBLISHED" /\ v < w => ~new[w].shown
  BY <1>1 DEF ShownInOrder
<1>4. \A v \in 1 .. Len(new) : new[v].input # None => new[v].amount = new[v].input.amount
  BY <1>1 DEF ShownInOrder
<1> QED BY <1>2, <1>3, <1>4 DEF ShownInOrder

LEMMA OrderAdded ==
    ASSUME NEW list \in Seq(CookRows), ShownInOrder(list), NEW row \in CookRows,
           row.withdrawn \/ row.status = "PUBLISHED" => row.shown,
           row.shown => \A v \in 1 .. Len(list) : list[v].status # "PUBLISHED",
           row.input # None => row.amount = row.input.amount
    PROVE  ShownInOrder(Append(list, row))
<1> DEFINE new == Append(list, row)
<1>1. /\ Len(list) \in Nat /\ Len(new) = Len(list) + 1
      /\ new[Len(list) + 1] = row
      /\ \A v \in 1 .. Len(list) : new[v] = list[v]
  BY AddedVersion
<1> HIDE DEF new
<1>2. \A v \in 1 .. Len(new) : v \in 1 .. Len(list) \/ v = Len(list) + 1
  BY <1>1
<1>3. \A v \in 1 .. Len(new) : new[v].withdrawn \/ new[v].status = "PUBLISHED" => new[v].shown
  BY <1>1, <1>2 DEF ShownInOrder
<1>4. \A v, w \in 1 .. Len(new) : new[v].status = "PUBLISHED" /\ v < w => ~new[w].shown
  <2> SUFFICES ASSUME NEW v \in 1 .. Len(new), NEW w \in 1 .. Len(new),
                      new[v].status = "PUBLISHED", v < w
               PROVE  ~new[w].shown
    OBVIOUS
  <2>1. v \in 1 .. Len(list)
    BY <1>1
  <2>2. CASE w \in 1 .. Len(list)
    BY <1>1, <2>1, <2>2 DEF ShownInOrder
  <2>3. CASE w = Len(list) + 1
    BY <1>1, <2>1, <2>3
  <2> QED BY <1>2, <2>2, <2>3
<1>5. \A v \in 1 .. Len(new) : new[v].input # None => new[v].amount = new[v].input.amount
  BY <1>1, <1>2 DEF ShownInOrder
<1>6. ShownInOrder(new)
  BY <1>3, <1>4, <1>5 DEF ShownInOrder
<1> QED BY <1>6 DEF new

(* Versions that stay, and nobody withdraws.                                                *)
LEMMA PeopleStay ==
    ASSUME ShownInOrder(rows), BanFits, Len(rows') = Len(rows), banned' = banned,
           \A v \in 1 .. Len(rows) : Remains(rows[v], rows'[v])
    PROVE  ShownInOrder(rows)' /\ BanFits'
<1>1. ShownInOrder(rows')
  BY OrderStays
<1>2. BanFits'
  <2> SUFFICES ASSUME banned # None
               PROVE  /\ Published' = {}
                      /\ \E w \in Versions' :
                           /\ rows'[w].status = "REJECTED" /\ rows'[w].withdrawn
                           /\ rows'[w].amount = banned'
                           /\ \A v \in Versions' : w < v => ~rows'[v].shown
    BY DEF BanFits
  <2>1. Versions' = Versions
    BY DEF Versions
  <2>2. Published' = {}
    BY <2>1 DEF BanFits, Published, Versions, Remains
  <2>3. PICK w \in Versions :
           /\ rows[w].status = "REJECTED" /\ rows[w].withdrawn /\ rows[w].amount = banned
           /\ \A v \in Versions : w < v => ~rows[v].shown
    BY DEF BanFits
  <2>4. rows'[w].status = "REJECTED" /\ rows'[w].withdrawn /\ rows'[w].amount = banned'
    BY <2>3 DEF Versions, Remains
  <2>5. \A v \in Versions : w < v => ~rows'[v].shown
    BY <2>3 DEF Versions, Remains
  <2> QED BY <2>1, <2>2, <2>4, <2>5
<1> QED BY <1>1, <1>2

LEMMA SameStay ==
    ASSUME ShownInOrder(rows), BanFits, UNCHANGED <<rows, banned>>
    PROVE  ShownInOrder(rows)' /\ BanFits'
BY DEF BanFits, Published, Versions

LEMMA PublishPrevails ==
    ASSUME CookInv, ShownInOrder(rows), BanFits, txn.kind # "none",
           NEW text \in Scenarios, NEW by \in {"writer", "panel", "golden"},
           NEW input \in Contents \cup {None}, NEW job \in Jobs \cup {None},
           input # None => txn.seen.amount = input.amount,
           Publish(text, by, input, job)
    PROVE  ShownInOrder(rows)' /\ BanFits'
<1>1. CASE UNCHANGED <<rows, cook, banned>>
  BY <1>1, SameStay
<1>2. CASE ~UNCHANGED <<rows, cook, banned>>
  <2> DEFINE old == [v \in Versions |-> IF v \in Published THEN [rows[v] EXCEPT !.status = "RETIRED"]
                                                          ELSE rows[v]]
             row == [status |-> "PUBLISHED", amount |-> txn.seen.amount, input |-> input,
                     text |-> text, by |-> by, job |-> job, shown |-> TRUE, withdrawn |-> FALSE]
  <2>1. rows' = Append(old, row) /\ banned' = None
    BY <1>2 DEF Publish
  <2>2. /\ rows \in Seq(CookRows) /\ Len(rows) \in Nat
        /\ \A v \in 1 .. Len(rows) : rows[v] \in CookRows
        /\ txn.seen \in Contents
    BY ElementOfSeq, LenProperties DEF CookInv, CookTypeOK, HoldFits
  <2>3. \A v \in 1 .. Len(rows) : v \in Published =>
           /\ old[v] \in CookRows /\ old[v].status = "RETIRED"
           /\ Remains(rows[v], old[v])
    <3> TAKE v \in 1 .. Len(rows)
    <3> HAVE v \in Published
    <3>1. old[v] = [rows[v] EXCEPT !.status = "RETIRED"]
      BY DEF Versions
    <3>2. rows[v] \in CookRows /\ rows[v].status = "PUBLISHED"
      BY <2>2 DEF Published
    <3> QED BY <3>1, <3>2 DEF CookRows, Statuses, Remains
  <2>4. \A v \in 1 .. Len(rows) : v \notin Published =>
           /\ old[v] \in CookRows /\ old[v].status # "PUBLISHED" /\ Remains(rows[v], old[v])
    BY <2>2 DEF Published, Versions, Remains
  <2>5. old = [v \in 1 .. Len(rows) |-> old[v]]
    BY DEF Versions
  <2>6. row \in CookRows
    BY <2>2 DEF CookRows, Statuses, Contents
  <2>7. row.shown /\ row.input = input /\ row.amount = txn.seen.amount
    OBVIOUS
  <2> HIDE DEF old, row
  <2>8. old \in Seq(CookRows) /\ Len(old) = Len(rows)
    BY <2>2, <2>3, <2>4, <2>5, MappedList
  <2>9. ShownInOrder(old)
    BY <2>3, <2>4, <2>8, OrderStays
  <2>10. ShownInOrder(rows)'
    BY <2>1, <2>3, <2>4, <2>6, <2>7, <2>8, <2>9, OrderAdded
  <2> QED BY <2>1, <2>10 DEF BanFits
<1> QED BY <1>1, <1>2

(* A change of the ingredients takes off what no longer fits.                               *)
LEMMA StaleStays ==
    ASSUME NEW row \in CookRows, row.status # "REJECTED", NEW new,
           new = [row EXCEPT !.status = "STALE"]
    PROVE  Remains(row, new)
BY DEF CookRows, Remains

LEMMA ChangePrevails ==
    ASSUME CookInv, ShownInOrder(rows), BanFits, CommitChange
    PROVE  ShownInOrder(rows)' /\ BanFits'
<1> DEFINE outdated == {v \in Published : rows[v].amount # edit.amount}
           new == [v \in Versions |-> IF v \in outdated THEN [rows[v] EXCEPT !.status = "STALE"]
                                                       ELSE rows[v]]
<1>1. rows' = new /\ banned' = banned
  BY DEF CommitChange
<1>2. rows \in Seq(CookRows) /\ \A v \in 1 .. Len(rows) : rows[v] \in CookRows
  BY ElementOfSeq DEF CookInv, CookTypeOK
<1>3. new = [v \in 1 .. Len(rows) |-> new[v]]
  BY DEF Versions
<1>4. \A v \in 1 .. Len(rows) : v \in outdated =>
        new[v] = [rows[v] EXCEPT !.status = "STALE"] /\ rows[v].status = "PUBLISHED"
  BY DEF Versions, Published
<1>5. \A v \in 1 .. Len(rows) : v \notin outdated => new[v] = rows[v]
  BY DEF Versions
<1> HIDE DEF new
<1>6. \A v \in 1 .. Len(rows) : v \in outdated => new[v] \in CookRows /\ Remains(rows[v], new[v])
  <2> TAKE v \in 1 .. Len(rows)
  <2> HAVE v \in outdated
  <2>1. new[v] = [rows[v] EXCEPT !.status = "STALE"] /\ rows[v].status = "PUBLISHED" /\ rows[v] \in CookRows
    BY <1>2, <1>4
  <2>2. new[v] \in CookRows
    BY <2>1 DEF CookRows, Statuses
  <2> QED BY <2>1, <2>2, StaleStays
<1>7. \A v \in 1 .. Len(rows) : new[v] \in CookRows /\ Remains(rows[v], new[v])
  BY <1>2, <1>5, <1>6 DEF Remains
<1>8. Len(new) = Len(rows)
  BY <1>2, <1>3, <1>7, MappedList
<1> QED BY <1>1, <1>7, <1>8, PeopleStay

LEMMA WithdrawPrevails ==
    ASSUME CookInv, ShownInOrder(rows), BanFits, Withdraw
    PROVE  ShownInOrder(rows)' /\ BanFits'
<1>1. CASE Published = {}
  BY <1>1, SameStay DEF Withdraw
<1>2. CASE Published # {}
  <2> DEFINE new == [v \in Versions |-> IF v \in Published
                                         THEN [rows[v] EXCEPT !.status = "REJECTED", !.withdrawn = TRUE]
                                         ELSE rows[v]]
  <2>1. rows' = new /\ banned' = recipe.amount
    BY <1>2 DEF Withdraw
  <2>2. /\ rows \in Seq(CookRows) /\ \A v \in 1 .. Len(rows) : rows[v] \in CookRows
        /\ ListFits(rows, recipe)
    BY ElementOfSeq DEF CookInv, CookTypeOK
  <2>3. \A v \in 1 .. Len(rows) : v \in Published =>
           /\ new[v] \in CookRows /\ new[v].status = "REJECTED" /\ new[v].withdrawn
           /\ new[v].amount = rows[v].amount /\ new[v].shown = rows[v].shown
           /\ Remains(rows[v], new[v])
    <3> TAKE v \in 1 .. Len(rows)
    <3> HAVE v \in Published
    <3>1. new[v] = [rows[v] EXCEPT !.status = "REJECTED", !.withdrawn = TRUE]
      BY DEF Versions
    <3>2. rows[v] \in CookRows /\ rows[v].status = "PUBLISHED"
      BY <2>2 DEF Published
    <3> HIDE DEF new
    <3>3. PICK mid : mid = [rows[v] EXCEPT !.status = "REJECTED"]
      OBVIOUS
    <3>4. /\ mid \in CookRows /\ mid.status = "REJECTED" /\ mid.shown = rows[v].shown
          /\ mid.input = rows[v].input /\ mid.amount = rows[v].amount
      BY <3>2, <3>3 DEF CookRows, Statuses
    <3>5. new[v] = [mid EXCEPT !.withdrawn = TRUE]
      BY <3>1, <3>3
    <3>6. /\ new[v] \in CookRows /\ new[v].status = mid.status /\ new[v].shown = mid.shown
          /\ new[v].input = mid.input /\ new[v].amount = mid.amount /\ new[v].withdrawn
      BY <3>4, <3>5 DEF CookRows
    <3> QED BY <3>2, <3>4, <3>6 DEF Remains
  <2>4. \A v \in 1 .. Len(rows) : v \notin Published => new[v] = rows[v] /\ new[v].status # "PUBLISHED"
    BY DEF Published, Versions
  <2>5. new = [v \in 1 .. Len(rows) |-> new[v]]
    BY DEF Versions
  <2> HIDE DEF new
  <2>6. \A v \in 1 .. Len(rows) : new[v] \in CookRows /\ Remains(rows[v], new[v])
    BY <2>2, <2>3, <2>4 DEF Remains
  <2>7. Len(new) = Len(rows)
    BY <2>2, <2>5, <2>6, MappedList
  <2>8. ShownInOrder(new)
    BY <2>6, <2>7, OrderStays
  <2>9. BanFits'
    <3>1. Versions' = Versions
      BY <2>1, <2>7 DEF Versions
    <3>2. Published' = {}
      BY <2>1, <2>3, <2>4, <3>1 DEF Published, Versions
    <3>3. PICK w \in Published : TRUE
      BY <1>2
    <3>4. w \in 1 .. Len(rows) /\ rows[w].status = "PUBLISHED" /\ w \in Versions
      BY DEF Published, Versions
    <3>5. new[w].status = "REJECTED" /\ new[w].withdrawn /\ new[w].amount = recipe.amount
      BY <2>2, <2>3, <3>4 DEF ListFits
    <3>6. \A v \in Versions : w < v => ~new[v].shown
      <4>1. \A v \in Versions : new[v].shown = rows[v].shown
        BY <2>6 DEF Versions, Remains
      <4> QED BY <3>4, <4>1 DEF ShownInOrder, Versions
    <3> QED BY <2>1, <3>1, <3>2, <3>4, <3>5, <3>6 DEF BanFits
  <2> QED BY <2>1, <2>8, <2>9
<1> QED BY <1>1, <1>2

LEMMA ReleasePrevails ==
    ASSUME CookInv, ShownInOrder(rows), BanFits, Release
    PROVE  ShownInOrder(rows)' /\ BanFits'
<1> DEFINE row == rows[txn.who]
<1>1. /\ txn.kind = "release" /\ txn.who \in 1 .. Len(rows) /\ row.status = "VALIDATED"
      /\ txn.seen \in Contents
  BY DEF CookInv, HoldFits, Release, Versions
<1>2. /\ rows \in Seq(CookRows) /\ DOMAIN rows = 1 .. Len(rows) /\ Len(rows) \in Nat
      /\ \A v \in 1 .. Len(rows) : rows[v] \in CookRows
      /\ row.by = "writer" /\ row.text \in Scenarios
  BY <1>1, ElementOfSeq, LenProperties DEF CookInv, ListFits
<1>3. CASE row.input = txn.seen /\ row.amount = txn.seen.amount
  <2>1. Publish(row.text, row.by, row.input, row.job)
    BY <1>3 DEF Release
  <2>2. row.input \in Contents \cup {None} /\ row.job \in Jobs \cup {None}
    BY <1>1, <1>2 DEF CookRows
  <2> QED BY <1>1, <1>2, <1>3, <2>1, <2>2, PublishPrevails
<1>4. CASE ~(row.input = txn.seen /\ row.amount = txn.seen.amount)
  <2> DEFINE new == [rows EXCEPT ![txn.who] = [@ EXCEPT !.status = "STALE"]]
  <2>1. rows' = new /\ banned' = banned
    BY <1>4 DEF Release
  <2>2. new[txn.who] = [row EXCEPT !.status = "STALE"]
        /\ \A v \in 1 .. Len(rows) : v # txn.who => new[v] = rows[v]
    BY <1>1, <1>2
  <2>3. new = [v \in 1 .. Len(rows) |-> new[v]]
    BY <1>2
  <2> HIDE DEF new
  <2>4. new[txn.who] \in CookRows /\ Remains(rows[txn.who], new[txn.who])
    <3>1. new[txn.who] \in CookRows
      BY <1>1, <1>2, <2>2 DEF CookRows, Statuses
    <3>2. row \in CookRows /\ row.status # "REJECTED"
      BY <1>1, <1>2
    <3> QED BY <2>2, <3>1, <3>2, StaleStays
  <2>5. \A v \in 1 .. Len(rows) : new[v] \in CookRows /\ Remains(rows[v], new[v])
    BY <1>2, <2>2, <2>4 DEF Remains
  <2>6. Len(new) = Len(rows)
    BY <1>2, <2>3, <2>5, MappedList
  <2> QED BY <2>1, <2>5, <2>6, PeopleStay
<1> QED BY <1>3, <1>4

(* What a task saves: nothing, or a row of its own at the end.                              *)
LEMMA Saved ==
    ASSUME CookInv, Save, rows' # rows
    PROVE  /\ txn.who \in Jobs /\ jobs[txn.who].seen \in Contents /\ banned' = banned
           /\ rows \in Seq(CookRows) /\ Len(rows) \in Nat
           /\ \E row \in CookRows :
                /\ rows' = Append(rows, row)
                /\ ~row.shown /\ ~row.withdrawn /\ row.status # "PUBLISHED"
                /\ row.input = jobs[txn.who].seen /\ row.amount = jobs[txn.who].seen.amount
                /\ row.status # "STALE" => ~Superseded(jobs[txn.who])
<1> DEFINE job == jobs[txn.who]
           changed == txn.seen # job.seen
           status == IF changed THEN "STALE" ELSE job.status
           row == [status |-> status, amount |-> job.seen.amount,
                   input |-> job.seen, text |-> job.text, by |-> "writer", job |-> txn.who,
                   shown |-> FALSE, withdrawn |-> FALSE]
<1>1. txn.kind = "save" /\ banned' = banned
  BY DEF Save
<1>2. rows' = Append(rows, row) /\ (~changed => ~Superseded(job))
  BY DEF Save, Add
<1>3. txn.who \in Jobs /\ job.pc = "ready" /\ JobFits(job)
  BY <1>1 DEF CookInv, HoldFits
<1>4. job.seen \in Contents /\ job.status \in {"VALIDATED", "REJECTED", "SKIPPED"}
  BY <1>3 DEF JobFits
<1>5. job.text \in Scenarios \cup {None}
  BY <1>3 DEF CookInv, CookTypeOK
<1>6. job.seen.amount \in Quantities
  BY <1>4 DEF Contents
<1>7. status \in {"VALIDATED", "REJECTED", "SKIPPED", "STALE"} /\ (status # "STALE" => ~changed)
  BY <1>4
<1>8. rows \in Seq(CookRows) /\ Len(rows) \in Nat
  BY LenProperties DEF CookInv, CookTypeOK
<1> HIDE DEF status, changed, job
<1>9. row \in CookRows
  BY <1>3, <1>4, <1>5, <1>6, <1>7 DEF CookRows, Statuses
<1>10. /\ ~row.shown /\ ~row.withdrawn /\ row.status = status
       /\ row.input = job.seen /\ row.amount = job.seen.amount
  OBVIOUS
<1> HIDE DEF row
<1> QED BY <1>1, <1>2, <1>3, <1>4, <1>7, <1>8, <1>9, <1>10 DEF job

LEMMA SavePrevails ==
    ASSUME CookInv, ShownInOrder(rows), BanFits, Save
    PROVE  ShownInOrder(rows)' /\ BanFits'
<1>1. CASE rows' = rows
  BY <1>1, SameStay DEF Save
<1>2. CASE rows' # rows
  <2>1. rows \in Seq(CookRows) /\ Len(rows) \in Nat /\ banned' = banned
    BY <1>2, Saved
  <2>2. PICK row \in CookRows :
          /\ rows' = Append(rows, row)
          /\ ~row.shown /\ ~row.withdrawn /\ row.status # "PUBLISHED"
          /\ row.input = jobs[txn.who].seen /\ row.amount = jobs[txn.who].seen.amount
    BY <1>2, Saved
  <2>3. ShownInOrder(rows)'
    BY <2>1, <2>2, OrderAdded
  <2>4. /\ Len(rows') = Len(rows) + 1 /\ rows'[Len(rows) + 1] = row
        /\ \A v \in 1 .. Len(rows) : rows'[v] = rows[v]
    BY <2>1, <2>2, AddedVersion
  <2>5. \A v \in Versions' : v \in Versions \/ v = Len(rows) + 1
    BY <2>1, <2>4 DEF Versions
  <2>6. BanFits'
    <3> SUFFICES ASSUME banned # None
                 PROVE  /\ Published' = {}
                        /\ \E w \in Versions' :
                             /\ rows'[w].status = "REJECTED" /\ rows'[w].withdrawn
                             /\ rows'[w].amount = banned
                             /\ \A v \in Versions' : w < v => ~rows'[v].shown
      BY <2>1 DEF BanFits
    <3>1. Published' = {}
      BY <2>2, <2>4, <2>5 DEF BanFits, Published, Versions
    <3>2. PICK w \in Versions :
             /\ rows[w].status = "REJECTED" /\ rows[w].withdrawn /\ rows[w].amount = banned
             /\ \A v \in Versions : w < v => ~rows[v].shown
      BY DEF BanFits
    <3>3. w \in Versions'
      BY <2>1, <2>4 DEF Versions
    <3>4. \A v \in Versions' : w < v => ~rows'[v].shown
      BY <2>2, <2>4, <2>5, <3>2 DEF Versions
    <3> QED BY <2>4, <3>1, <3>2, <3>3, <3>4 DEF Versions
  <2> QED BY <2>3, <2>6
<1> QED BY <1>1, <1>2

LEMMA PrevailStarts == CookInit => ShownInOrder(rows) /\ BanFits
BY CookAssumption DEF CookInit, BanFits

LEMMA PrevailStep ==
    CookInv /\ ShownInOrder(rows) /\ BanFits /\ [CookNext]_cookVars => ShownInOrder(rows)' /\ BanFits'
<1> SUFFICES ASSUME CookInv, ShownInOrder(rows), BanFits, [CookNext]_cookVars
             PROVE  ShownInOrder(rows)' /\ BanFits'
  OBVIOUS
<1>1. CASE UNCHANGED <<rows, banned>>
  BY <1>1, SameStay
<1>2. CASE Load
  <2>1. txn.kind = "load" /\ Publish(txn.text, "golden", None, None) /\ txn.text \in Scenarios
    BY <1>2 DEF Load, CookInv, HoldFits
  <2> QED BY <2>1, PublishPrevails
<1>3. CASE Import
  <2>1. /\ txn.kind = "import" /\ txn.text \in Scenarios /\ txn.seen \in Contents
        /\ Publish(txn.text, "writer", txn.seen, None) \/ UNCHANGED <<rows, cook, banned>>
    BY <1>3 DEF Import, CookInv, HoldFits
  <2> QED BY <1>1, <2>1, PublishPrevails
<1>4. CASE PanelPublish
  <2>1. /\ txn.kind = "panel" /\ txn.text \in Scenarios /\ txn.seen \in Contents
        /\ Publish(txn.text, "panel", txn.seen, None) \/ UNCHANGED <<rows, cook, banned>>
    BY <1>4 DEF PanelPublish, CookInv, HoldFits
  <2> QED BY <1>1, <2>1, PublishPrevails
<1>5. CASE UNCHANGED cookVars
  BY <1>1, <1>5 DEF cookVars
<1>6. CASE CookNext
  <2>1. CASE CommitChange \/ Withdraw \/ Release \/ Save
    BY <2>1, ChangePrevails, WithdrawPrevails, ReleasePrevails, SavePrevails
  <2>2. CASE ~(Load \/ Import \/ PanelPublish \/ CommitChange \/ Withdraw \/ Release \/ Save)
    <3>1. UNCHANGED <<rows, banned>>
      BY <1>6, <2>2 DEF CookNext, RecipeNext, ChangeIngredients, LockForChange, AbortChange, ChangeName,
         Rollback, LoaderNext, StartLoad, ImportNext, StartImport, WithdrawNext, StartWithdraw,
         ReleaseNext, StartRelease, PanelNext, ReadRecipe, ReadVersions, ReadSignature, StartPanel,
         WriterNext, StartJob, StartSave, Hold
    <3> QED BY <1>1, <3>1
  <2> QED BY <1>2, <1>3, <1>4, <2>1, <2>2
<1> QED BY <1>5, <1>6

LEMMA Prevailing == CookSpec => [](CookInv /\ ShownInOrder(rows) /\ BanFits)
<1>1. CookInit => CookInv /\ ShownInOrder(rows) /\ BanFits
  BY CookStarts, PrevailStarts
<1>2. CookInv /\ ShownInOrder(rows) /\ BanFits /\ [CookNext]_cookVars
        => (CookInv /\ ShownInOrder(rows) /\ BanFits)'
  BY CookStep, PrevailStep
<1> QED BY <1>1, <1>2, PTL DEF CookSpec

(* Numbers of versions have a greatest one.                                                 *)
LEMMA GreatestVersion ==
    ASSUME NEW n \in Nat, NEW S \in SUBSET (1 .. n), S # {}
    PROVE  \E x \in S : \A y \in S : y <= x
<1> DEFINE R == OpToRel(<, Nat)
           T == {n - x : x \in S}
<1>1. IsWellFoundedOn(R, Nat)
  BY NatLessThanWellFounded, Zenon
<1>2. T \in SUBSET Nat /\ T # {}
  OBVIOUS
<1> HIDE DEF R
<1>3. PICK t \in T : \A u \in T : ~(<<u, t>> \in R)
  <2> HIDE DEF T
  <2> QED BY <1>1, <1>2, WFMin
<1>4. PICK x \in S : t = n - x
  OBVIOUS
<1>5. ASSUME NEW y \in S PROVE y <= x
  <2>1. n - y \in T /\ n - y \in Nat /\ t \in Nat /\ x \in Int /\ y \in Int
    OBVIOUS
  <2> HIDE DEF T
  <2>2. <<n - y, t>> \notin R
    BY <1>3, <2>1
  <2>3. n - y < t => <<n - y, t>> \in R
    BY <2>1 DEF R, OpToRel
  <2> QED BY <1>4, <2>1, <2>2, <2>3
<1> QED BY <1>5

(* What was withdrawn for these amounts is known to an import that finds nothing published. *)
LEMMA BanIsKnown ==
    ASSUME CookInv, ShownInOrder(rows), BanFits, NEW seen, banned # None, banned = seen.amount
    PROVE  WithdrawnInPanel(seen)
<1> DEFINE S == {v \in Versions : rows[v].status = "REJECTED" /\ rows[v].withdrawn}
<1>1. PICK w \in Versions :
         /\ rows[w].status = "REJECTED" /\ rows[w].withdrawn /\ rows[w].amount = banned
         /\ \A v \in Versions : w < v => ~rows[v].shown
  BY DEF BanFits
<1>2. w \in S
  BY <1>1
<1>3. Len(rows) \in Nat
  BY LenProperties DEF CookInv, CookTypeOK
<1>4. \A v \in S : v <= w
  BY <1>1, <1>3 DEF ShownInOrder, Versions
<1>5. LatestOf(S) = CHOOSE v \in S : \A u \in S : u <= v
  BY <1>2 DEF LatestOf
<1>6. \A v \in S : (\A u \in S : u <= v) => v = w
  BY <1>2, <1>3, <1>4 DEF Versions
<1> HIDE DEF S
<1>7. LatestOf(S) = w
  BY <1>2, <1>4, <1>5, <1>6
<1>8. w # 0
  BY <1>1, <1>3 DEF Versions
<1>9. LatestOf({v \in Versions : rows[v].status = "REJECTED" /\ rows[v].withdrawn}) = w
  BY <1>7 DEF S
<1> QED BY <1>1, <1>8, <1>9 DEF WithdrawnInPanel

(* What a revision is saved over came before what it revises.                               *)
LEMMA RevisionIsLast ==
    ASSUME CookInv, ShownInOrder(rows), NEW job, job.seen \in Contents, job.from # 0, ~Superseded(job),
           NEW v \in Versions, rows[v].status \in {"VALIDATED", "SKIPPED", "PUBLISHED"},
           rows[v].input = job.seen
    PROVE  v <= job.from
<1> DEFINE S == {w \in Versions : /\ rows[w].status \in {"VALIDATED", "REJECTED", "SKIPPED", "PUBLISHED"}
                                  /\ rows[w].amount = job.seen.amount
                                  /\ rows[w].input = job.seen}
<1>1. CurrentWrite(job.seen) = job.from /\ CurrentWrite(job.seen) = LatestOf(S)
  BY DEF Superseded, CurrentWrite
<1>2. v \in S
  BY CookAssumption DEF ShownInOrder, Versions
<1>3. S \in SUBSET (1 .. Len(rows)) /\ Len(rows) \in Nat
  BY LenProperties DEF CookInv, CookTypeOK, Versions
<1> HIDE DEF S
<1>4. \E x \in S : \A y \in S : y <= x
  BY <1>2, <1>3, GreatestVersion
<1>5. LatestOf(S) = CHOOSE x \in S : \A y \in S : y <= x
  BY <1>2 DEF LatestOf
<1> QED BY <1>1, <1>2, <1>4, <1>5

(* Only the transaction that holds the recipe moves its versions.                           *)
LEMMA WhoWrites ==
    ASSUME CookInv, [CookNext]_cookVars, rows' # rows, txn.kind # "none"
    PROVE  Load \/ Import \/ PanelPublish \/ Withdraw \/ Release \/ Save
<1>1. ~edit.locked
  BY DEF CookInv, HoldFits
<1>2. CASE UNCHANGED cookVars
  BY <1>2 DEF cookVars
<1>3. CASE CookNext
  BY <1>1, <1>3 DEF CookNext, RecipeNext, ChangeIngredients, LockForChange, CommitChange, AbortChange,
     ChangeName, Rollback, LoaderNext, StartLoad, ImportNext, StartImport, WithdrawNext, StartWithdraw,
     ReleaseNext, StartRelease, PanelNext, ReadRecipe, ReadVersions, ReadSignature, StartPanel,
     WriterNext, StartJob, StartSave, Hold
<1> QED BY <1>2, <1>3

(* Steps of three kinds (PeoplePrevail): no import over a text of the panel or of the       *)
(* loader, or over a withdrawal; no revision saved over a later result; no publication of   *)
(* the panel over what its page has not shown.  It does not keep the loader or a release    *)
(* from publishing over a version of the panel.                                             *)
THEOREM PeopleHaveTheirWay == CookSpec => PeoplePrevail
<1> DEFINE Decided ==
       /\ txn.kind = "import" /\ rows' # rows =>
             /\ banned # recipe.amount
             /\ \A v \in Published : rows[v].by = "writer"
       /\ txn.kind = "save" /\ rows' # rows /\ rows'[Len(rows')].status # "STALE" =>
             \A v \in Versions : v > jobs[txn.who].from /\ jobs[txn.who].from # 0
                                  /\ rows[v].status \in {"VALIDATED", "SKIPPED", "PUBLISHED"}
                => rows[v].input # jobs[txn.who].seen
       /\ txn.kind = "panel" /\ rows' # rows =>
             \A v \in Published : v <= pages[txn.who].based
<1>1. CookInv /\ ShownInOrder(rows) /\ BanFits /\ [CookNext]_cookVars => Decided
  <2> SUFFICES ASSUME CookInv, ShownInOrder(rows), BanFits, [CookNext]_cookVars, rows' # rows,
                      txn.kind \in {"import", "save", "panel"}
               PROVE  Decided
    OBVIOUS
  <2>1. /\ txn.seen \in Contents /\ txn.seen.amount = recipe.amount
        /\ recipe.amount \in Quantities /\ recipe.amount # None
        /\ Len(rows) \in Nat /\ jobs \in [Jobs -> [pc: {"idle", "ready"}, seen: Contents \cup {None},
                          from: 0 .. MaxVersion, status: {"none", "VALIDATED", "REJECTED", "SKIPPED"},
                          text: Scenarios \cup {None}]]
    BY CookAssumption, LenProperties DEF CookInv, CookTypeOK, HoldFits, Contents
  <2>2. Load \/ Import \/ PanelPublish \/ Withdraw \/ Release \/ Save
    BY WhoWrites
  <2>3. CASE txn.kind = "import"
    <3>1. MayImport
      BY <2>2, <2>3 DEF Load, Import, PanelPublish, Withdraw, Release, Save
    <3>2. \A v \in Published : rows[v].by = "writer"
      BY <3>1 DEF MayImport
    <3>3. banned # recipe.amount
      <4>1. CASE Published # {}
        BY <2>1, <4>1 DEF BanFits
      <4>2. CASE Published = {}
        BY <2>1, <3>1, <4>2, BanIsKnown DEF MayImport
      <4> QED BY <4>1, <4>2
    <3> QED BY <2>3, <3>2, <3>3
  <2>4. CASE txn.kind = "save"
    <3>1. Save
      BY <2>2, <2>4 DEF Load, Import, PanelPublish, Withdraw, Release, Save
    <3>2. /\ txn.who \in Jobs /\ jobs[txn.who].seen \in Contents /\ rows \in Seq(CookRows)
      BY <3>1, Saved
    <3>3. PICK row \in CookRows :
            rows' = Append(rows, row) /\ (row.status # "STALE" => ~Superseded(jobs[txn.who]))
      BY <3>1, Saved
    <3>4. rows'[Len(rows')] = row
      BY <3>2, <3>3, AddedVersion
    <3>5. ASSUME rows'[Len(rows')].status # "STALE", NEW v \in Versions, v > jobs[txn.who].from,
                 jobs[txn.who].from # 0, rows[v].status \in {"VALIDATED", "SKIPPED", "PUBLISHED"}
          PROVE  rows[v].input # jobs[txn.who].seen
      <4>1. ~Superseded(jobs[txn.who])
        BY <3>3, <3>4, <3>5
      <4>2. rows[v].input = jobs[txn.who].seen => v <= jobs[txn.who].from
        BY <3>2, <3>5, <4>1, RevisionIsLast
      <4>3. v \in Nat /\ jobs[txn.who].from \in Nat
        BY <2>1, <3>2, CookAssumption DEF Versions
      <4> QED BY <3>5, <4>2, <4>3
    <3> QED BY <2>4, <3>5
  <2>5. CASE txn.kind = "panel"
    <3>1. TokensHold(pages[txn.who])
      BY <2>2, <2>5 DEF Load, Import, PanelPublish, Withdraw, Release, Save
    <3>2. \A v \in Published : v <= pages[txn.who].based
      BY <2>1, <3>1 DEF TokensHold, Published, Versions
    <3> QED BY <2>5, <3>2
  <2> QED BY <2>3, <2>4, <2>5
<1>2. CookInv /\ ShownInOrder(rows) /\ BanFits /\ [CookNext]_cookVars => [Decided]_cookVars
  BY <1>1
<1> HIDE DEF Decided
<1>3. CookSpec => [][Decided]_cookVars
  BY <1>2, Prevailing, PTL DEF CookSpec
<1> QED BY <1>3 DEF Decided, PeoplePrevail
=============================================================================
