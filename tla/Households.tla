----------------------------- MODULE Households -----------------------------
(***************************************************************************)
(* Who belongs to a household and who listens to it                        *)
(* (src/src/households, src/src/common/ws-auth.adapter.ts, ws-rooms.ts):   *)
(* memberships and their roles, invitations, and the rooms of sockets.     *)
(*                                                                         *)
(* A request checks, then runs one transaction, then moves sockets.  What  *)
(* a transaction has written is seen by others when it commits; the rows   *)
(* it has written stay locked until then.  Transactions that count owners  *)
(* hold the lock of the roster (lockHouseholdRoster) from the count on.    *)
(* The heir is any member left, not the oldest; a request that waits in a  *)
(* circle, or whose connection breaks, is rolled back.                     *)
(***************************************************************************)
EXTENDS Naturals, FiniteSets

CONSTANTS
  Users, Homes, Links,  \* people, households, invitations
  Calls,                \* requests under way
  Sockets, HolderOf,    \* sockets and the user each belongs to
  FirstRoles,           \* the roles at the start: [Users -> [Homes -> Role]]
  HomeOps               \* the operations of this instance

ASSUME HomeAssumption ==
  /\ HolderOf \in [Sockets -> Users]
  /\ FirstRoles \in [Users -> [Homes -> {"none", "MEMBER", "OWNER"}]]
  /\ \A h \in Homes : (\E u \in Users : FirstRoles[u][h] # "none") =>
                       \E u \in Users : FirstRoles[u][h] = "OWNER"
  /\ HomeOps \subseteq {"promote", "demote", "remove", "leave", "invite", "accept", "create"}

VARIABLES
  role,    \* Membership
  standing, \* the households that exist
  link,    \* Invitation
  call,    \* requests
  socket   \* sockets: where the handshake is, and their household rooms

homeVars == <<role, standing, link, call, socket>>

Role == {"none", "MEMBER", "OWNER"}
Members(h) == {u \in Users : role[u][h] # "none"}
Owners(h) == {u \in Users : role[u][h] = "OWNER"}
HomesOf(u) == {h \in Homes : role[u][h] # "none"}

Unset == "unset"
\* Of a link, besides its row: whether it was opened by somebody who was losing the
\* household just then, whom it has let in, and whether for somebody who owned it no more.
NoLink == [at |-> "none", home |-> Unset, by |-> Unset,
           beside |-> FALSE, guests |-> {}, astray |-> FALSE]
NoCall == [op |-> "none", pc |-> "idle", who |-> Unset, home |-> Unset, target |-> Unset,
           link |-> Unset, owned |-> FALSE, left |-> {}, dying |-> {}]
Closed == [pc |-> "off", saw |-> {}, rooms |-> {}, called |-> {}]

HomeTypeOK ==
  /\ role \in [Users -> [Homes -> Role]]
  /\ standing \subseteq Homes
  /\ link \in [Links -> [at: {"none", "open", "dead", "declined", "redeemed"},
                         home: Homes \cup {Unset}, by: Users \cup {Unset},
                         beside: BOOLEAN, guests: SUBSET Users, astray: BOOLEAN]]
  /\ call \in [Calls -> [op: HomeOps \cup {"none", "leave"}, pc: {"idle", "checked", "locked", "departed", "rooms"},
                         who: Users \cup {Unset}, home: Homes \cup {Unset},
                         target: Users \cup {Unset}, link: Links \cup {Unset}, owned: BOOLEAN,
                         left: SUBSET Homes, dying: SUBSET Links]]
  /\ socket \in [Sockets -> [pc: {"off", "user", "read", "joined", "again", "on"},
                             saw: SUBSET Homes, rooms: SUBSET Homes, called: SUBSET Homes]]

HomeInit ==
  /\ role = FirstRoles
  /\ standing = {h \in Homes : \E u \in Users : FirstRoles[u][h] # "none"}
  /\ link = [i \in Links |-> NoLink]
  /\ call = [c \in Calls |-> NoCall]
  /\ socket = [s \in Sockets |-> Closed]

-----------------------------------------------------------------------------
(* Locks.  A departing transaction has deleted its own membership.           *)
RosterLocked(h) == \E c \in Calls : call[c].pc = "locked" /\ call[c].home = h
LinkLocked(i) == \E c \in Calls : call[c].pc \in {"locked", "departed"} /\ i \in call[c].dying
MemberLocked(u, h) == \E c \in Calls :
  \/ call[c].pc = "departed" /\ call[c].who = u /\ h \in call[c].left
  \/ call[c].pc = "locked" /\ call[c].target = u /\ call[c].home = h

Open(i, h) == link[i].at = "open" /\ link[i].home = h
OpenBy(u, h) == {i \in Links : Open(i, h) /\ link[i].by = u}
OpenOf(h) == {i \in Links : Open(i, h)}
Kill(S) == [i \in Links |-> IF i \in S THEN [link[i] EXCEPT !.at = "dead"] ELSE link[i]]

Go(c, r) == call' = [call EXCEPT ![c] = r]
Stop(c) == Go(c, NoCall)
Starts(c, op) == op \in HomeOps /\ call[c].pc = "idle"
Request(op, u, h) == [NoCall EXCEPT !.op = op, !.pc = "checked", !.who = u, !.home = h]

(* settleHouseholdAfterMemberLeft: where u has gone from the households S and
   nobody left owns one of them, somebody left becomes its owner.            *)
NeedsHeir(r, h) ==
  /\ \E u \in Users : r[u][h] # "none"
  /\ \A u \in Users : r[u][h] # "OWNER"
Settled(r, S, s) ==
  \E heir \in [{h \in S : NeedsHeir(r, h)} -> Users] :
    /\ \A h \in DOMAIN heir : r[heir[h]][h] # "none"
    /\ s = [u \in Users |-> [h \in Homes |->
             IF h \in DOMAIN heir /\ heir[h] = u THEN "OWNER" ELSE r[u][h]]]
Standing(r) == {h \in standing : \E u \in Users : r[u][h] # "none"}

-----------------------------------------------------------------------------
(* updateMemberRole: a promotion is checked and written without the lock.    *)
StartPromote(c, u, h, t) ==
  /\ Starts(c, "promote")
  /\ role[u][h] = "OWNER" /\ role[t][h] = "MEMBER"
  /\ Go(c, [Request("promote", u, h) EXCEPT !.target = t])
  /\ UNCHANGED <<role, standing, link, socket>>

Promote(c) ==
  LET r == call[c] IN
  /\ r.pc = "checked" /\ r.op = "promote"
  /\ ~MemberLocked(r.target, r.home)
  /\ role' = IF role[r.target][r.home] = "none" THEN role
             ELSE [role EXCEPT ![r.target][r.home] = "OWNER"]
  /\ Stop(c)
  /\ UNCHANGED <<standing, link, socket>>

(* A demotion and a removal: checked, then again under the lock. *)
StartLocked(c, op, u, h, t) ==
  /\ op \in {"demote", "remove"} /\ Starts(c, op)
  /\ role[u][h] = "OWNER" /\ role[t][h] # "none"
  /\ op = "demote" => role[t][h] = "OWNER"
  /\ Go(c, [Request(op, u, h) EXCEPT !.target = t, !.owned = (role[t][h] = "OWNER")])
  /\ UNCHANGED <<role, standing, link, socket>>

\* Mutant: what was checked before the lock is taken for granted under it.
MayGoAsChecked(r) == r.op \in HomeOps

MayGo(r) ==
  /\ role[r.who][r.home] = "OWNER"
  /\ r.owned => Cardinality(Owners(r.home)) > 1

Lock(c) ==
  LET r == call[c]
      dying == IF r.op = "remove" THEN OpenOf(r.home) ELSE OpenBy(r.target, r.home)
  IN
  /\ r.pc = "checked" /\ r.op \in {"demote", "remove"}
  /\ ~RosterLocked(r.home)
  /\ IF MayGo(r)
       THEN /\ \A i \in dying : ~LinkLocked(i)
            /\ ~MemberLocked(r.target, r.home)
            /\ Go(c, [r EXCEPT !.pc = "locked", !.dying = dying])
       ELSE Stop(c)
  /\ UNCHANGED <<role, standing, link, socket>>

CommitLocked(c) ==
  LET r == call[c]
      new == IF r.op = "remove" THEN "none" ELSE "MEMBER"
      after == [role EXCEPT ![r.target][r.home] = new]
  IN
  /\ r.pc = "locked"
  /\ IF role[r.target][r.home] = "none"
       THEN UNCHANGED <<role, standing, link>> /\ Stop(c)
       ELSE /\ IF r.op = "remove" THEN Settled(after, {r.home}, role') ELSE role' = after
            /\ standing' = Standing(role')
            /\ link' = Kill(r.dying)
            /\ IF r.op = "remove"
                 THEN Go(c, [r EXCEPT !.pc = "rooms", !.who = r.target, !.left = {r.home}, !.dying = {}])
                 ELSE Stop(c)
  /\ UNCHANGED socket

-----------------------------------------------------------------------------
(* leave, and the departure an accepted invitation brings with it: the own
   membership is deleted first, the lock of the roster is taken to settle.   *)
StartLeave(c, u, h) ==
  /\ Starts(c, "leave")
  /\ role[u][h] # "none"
  /\ Go(c, [Request("leave", u, h) EXCEPT !.left = {h}])
  /\ UNCHANGED <<role, standing, link, socket>>

Depart(c) ==
  LET r == call[c]
      dying == UNION {OpenBy(r.who, h) : h \in r.left}
  IN
  /\ r.pc = "checked" /\ r.op \in {"leave", "accept"} /\ r.left # {}
  /\ \A i \in dying : ~LinkLocked(i)
  /\ \A h \in r.left : ~MemberLocked(r.who, h)
  /\ IF r.left \subseteq HomesOf(r.who)
       THEN Go(c, [r EXCEPT !.pc = "departed", !.dying = dying])
       ELSE Stop(c)
  /\ UNCHANGED <<role, standing, link, socket>>

Departed(r) == [role EXCEPT ![r.who] = [h \in Homes |-> IF h \in r.left THEN "none" ELSE @[h]]]

(* The heir's row must not be locked by somebody who is leaving too. *)
HeirFree(c, h, after) ==
  \A u \in Users : after[u][h] # role[u][h] /\ u # call[c].who => ~MemberLocked(u, h)

CommitLeave(c) ==
  LET r == call[c] IN
  /\ r.pc = "departed" /\ r.op = "leave"
  /\ ~RosterLocked(r.home)
  /\ Settled(Departed(r), r.left, role')
  /\ HeirFree(c, r.home, role')
  /\ standing' = Standing(role')
  /\ link' = Kill(r.dying)
  /\ Go(c, [r EXCEPT !.pc = "rooms", !.dying = {}])
  /\ UNCHANGED socket

-----------------------------------------------------------------------------
(* Invitations. *)
StartInvite(c, u, h, i) ==
  /\ Starts(c, "invite")
  /\ role[u][h] = "OWNER" /\ link[i].at = "none"
  /\ Go(c, [Request("invite", u, h) EXCEPT !.link = i])
  /\ UNCHANGED <<role, standing, link, socket>>

Invite(c) ==
  LET r == call[c] IN
  /\ r.pc = "checked" /\ r.op = "invite"
  /\ link' = IF r.home \in standing /\ link[r.link].at = "none"
               THEN [link EXCEPT ![r.link] = [NoLink EXCEPT
                       !.at = "open", !.home = r.home, !.by = r.who,
                       !.beside = role[r.who][r.home] # "OWNER" \/ MemberLocked(r.who, r.home)]]
               ELSE link
  /\ Stop(c)
  /\ UNCHANGED <<role, standing, socket>>

Decline(i) ==
  /\ "accept" \in HomeOps /\ link[i].at \in {"open", "dead"} /\ ~LinkLocked(i)
  /\ link' = [link EXCEPT ![i].at = "declined"]
  /\ UNCHANGED <<role, standing, call, socket>>

StartAccept(c, u, i) ==
  LET h == link[i].home IN
  /\ Starts(c, "accept")
  /\ link[i].at = "open" /\ role[link[i].by][h] = "OWNER"
  /\ Go(c, [Request("accept", u, h) EXCEPT !.link = i, !.left = HomesOf(u) \ {h}])
  /\ UNCHANGED <<role, standing, link, socket>>

\* Mutant: the redemption is not conditional on the link.
RedeemableByHome(r) == r.home \in standing

Redeemable(r) == link[r.link].at = "open" /\ r.home \in standing

(* The upsert of the membership and the conditional redemption. *)
LetIn(l, u, strays) ==
  [l EXCEPT !.at = "redeemed", !.guests = @ \cup {u}, !.astray = strays]

CommitAccept(c) ==
  LET r == call[c]
      strays == role[r.who][r.home] = "none" /\ role[link[r.link].by][r.home] # "OWNER"
  IN
  /\ r.op = "accept" /\ r.pc = (IF r.left = {} THEN "checked" ELSE "departed")
  /\ \A h \in r.left : ~RosterLocked(h)
  /\ ~LinkLocked(r.link) /\ ~MemberLocked(r.who, r.home)
  /\ IF Redeemable(r)
       THEN LET joined == [Departed(r) EXCEPT ![r.who][r.home] = IF @ = "none" THEN "MEMBER" ELSE @]
            IN  /\ Settled(joined, r.left, role')
                /\ \A h \in r.left : HeirFree(c, h, role')
                /\ standing' = Standing(role')
                /\ link' = [Kill(r.dying) EXCEPT ![r.link] = LetIn(@, r.who, strays)]
                /\ Go(c, [r EXCEPT !.pc = "rooms", !.dying = {}])
       ELSE UNCHANGED <<role, standing, link>> /\ Stop(c)
  /\ UNCHANGED socket

(* create: the check sees what is committed, so two of one person may pass. *)
StartCreate(c, u, h) ==
  /\ Starts(c, "create")
  /\ HomesOf(u) = {} /\ h \notin standing
  /\ Go(c, Request("create", u, h))
  /\ UNCHANGED <<role, standing, link, socket>>

Create(c) ==
  LET r == call[c] IN
  /\ r.pc = "checked" /\ r.op = "create"
  /\ r.home \notin standing
  /\ role' = [role EXCEPT ![r.who][r.home] = "OWNER"]
  /\ standing' = standing \cup {r.home}
  /\ Go(c, [r EXCEPT !.pc = "rooms"])
  /\ UNCHANGED <<link, socket>>

(* Rolled back: nothing was written. *)
Abort(c) ==
  /\ call[c].pc \in {"checked", "locked", "departed"}
  /\ Stop(c)
  /\ UNCHANGED <<role, standing, link, socket>>

-----------------------------------------------------------------------------
(* After the commit: joinHousehold, and after the messages leaveHousehold,
   for every socket that is in the room of the user.                         *)
Reached(u) == {s \in Sockets : HolderOf[s] = u /\ socket[s].pc # "off"}

JoinRooms(c) ==
  LET r == call[c] IN
  /\ r.pc = "rooms" /\ r.op \in {"accept", "create"}
  /\ socket' = [s \in Sockets |-> IF s \in Reached(r.who)
       THEN [socket[s] EXCEPT !.rooms = @ \cup {r.home}, !.called = @ \cup {r.home}]
       ELSE socket[s]]
  /\ IF r.left = {} THEN Stop(c) ELSE Go(c, [r EXCEPT !.op = "leave"])
  /\ UNCHANGED <<role, standing, link>>

LeaveRooms(c) ==
  LET r == call[c] IN
  /\ r.pc = "rooms" /\ r.op \in {"remove", "leave"}
  /\ socket' = [s \in Sockets |-> IF s \in Reached(r.who)
       THEN [socket[s] EXCEPT !.rooms = @ \ r.left, !.called = @ \ r.left]
       ELSE socket[s]]
  /\ Stop(c)
  /\ UNCHANGED <<role, standing, link>>

(* AuthIoAdapter.authenticate. *)
Shake(s, from, rec) ==
  /\ socket[s].pc = from
  /\ socket' = [socket EXCEPT ![s] = rec]
  /\ UNCHANGED <<role, standing, link, call>>

Now(s) == HomesOf(HolderOf[s])
Connect(s) == Shake(s, "off", [Closed EXCEPT !.pc = "user"])
ReadHomes(s) == Shake(s, "user", [socket[s] EXCEPT !.pc = IF Now(s) = {} THEN "on" ELSE "read", !.saw = Now(s)])
EnterRooms(s) == Shake(s, "read", [socket[s] EXCEPT !.pc = "joined", !.rooms = @ \cup socket[s].saw])
ReadAgain(s) == Shake(s, "joined", [socket[s] EXCEPT !.pc = "again", !.saw = @ \ Now(s)])

\* Mutant: what the second reading shows is not acted on.
StayInStale(s) == Shake(s, "again", [socket[s] EXCEPT !.pc = "on", !.saw = {}])

LeaveStale(s) == Shake(s, "again", [socket[s] EXCEPT !.pc = "on", !.rooms = @ \ socket[s].saw, !.saw = {}])

Disconnect(s) == socket[s].pc # "off" /\ Shake(s, socket[s].pc, Closed)

CallNext(c) ==
  \/ \E u \in Users, h \in Homes :
       \/ \E t \in Users \ {u} : StartPromote(c, u, h, t)
       \/ \E t \in Users, op \in {"demote", "remove"} : StartLocked(c, op, u, h, t)
       \/ StartLeave(c, u, h) \/ StartCreate(c, u, h)
       \/ \E i \in Links : StartInvite(c, u, h, i)
  \/ \E u \in Users, i \in Links : StartAccept(c, u, i)
  \/ Promote(c) \/ Lock(c) \/ CommitLocked(c) \/ Depart(c) \/ CommitLeave(c)
  \/ Invite(c) \/ CommitAccept(c) \/ Create(c) \/ Abort(c)
  \/ JoinRooms(c) \/ LeaveRooms(c)
SocketNext(s) ==
  Connect(s) \/ ReadHomes(s) \/ EnterRooms(s) \/ ReadAgain(s) \/ LeaveStale(s) \/ Disconnect(s)
HomeNext ==
  \/ \E c \in Calls : CallNext(c)
  \/ \E i \in Links : Decline(i)
  \/ \E s \in Sockets : SocketNext(s)

HomeSpec == HomeInit /\ [][HomeNext]_homeVars

-----------------------------------------------------------------------------
(* A household that exists has members, and one of them manages it, whoever
   is demoted, removed or leaves at the same time (households.service.ts:917-935,
   household-cleanup.util.ts:158-199).                                       *)
OwnerRemains == \A h \in standing : Owners(h) # {}

(* A link lets in one person at most, and nobody once its issuer was demoted, removed
   or gone, though the check of the issuer was before that; leaving aside links opened
   while that was under way (acceptInvitation, :297-326 and :440-480;
   revokeInvitationsCreatedBy, household-cleanup.util.ts:93-109).                     *)
GuestsOfOwners ==
  \A i \in Links :
    /\ Cardinality(link[i].guests) <= 1
    /\ link[i].at # "redeemed" => link[i].guests = {}
    /\ ~link[i].beside => ~link[i].astray

(* A socket listens to a household only for a member of it, or until the
   request that took the membership away, or its own handshake, moves it out;
   leaving aside rooms a late joinHousehold has put it in (ws-auth.adapter.ts:150-173). *)
Leaving(u, h) == \E c \in Calls : call[c].pc = "rooms" /\ call[c].who = u /\ h \in call[c].left
NoStrayListener ==
  \A s \in Sockets : \A h \in socket[s].rooms \ socket[s].called :
    \/ role[HolderOf[s]][h] # "none"
    \/ socket[s].pc = "joined"
    \/ socket[s].pc = "again" /\ h \in socket[s].saw
    \/ Leaving(HolderOf[s], h)

(* Roles are changed by owners only: the comment on ensureOwnerInTx calls it
   the only check a change of roles may rest on (households.service.ts:110-113). *)
PromotedByOwner ==
  [][\A c \in Calls : Promote(c) /\ role' # role => role[call[c].who][call[c].home] = "OWNER"]_homeVars

(* Refuted: whoever a link lets in, its issuer owns the household at that moment: the
   comment calls the moment of use the only one at which this can be checked for sure
   (households.service.ts:297-308).                                                   *)
NoStrayGuest == \A i \in Links : ~link[i].astray

(* One person, one household at a time (households.service.ts:316-321). *)
OneHome == \A u \in Users : Cardinality(HomesOf(u)) <= 1
=============================================================================
