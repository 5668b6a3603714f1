----------------------------- MODULE MailOutbox -----------------------------
(***************************************************************************)
(* The outbox of mail (src/src/mail): rows that domain code inserts, the   *)
(* worker that claims and sends them (mail-worker.service.ts), reports of  *)
(* the provider, the panel's "send again" and the removal of an account.   *)
(*                                                                         *)
(* A sweep is a sequence of single statements: put back what hangs, list   *)
(* what is due, claim row by row, read the claimed rows, and for each of   *)
(* them call the provider and write the outcome without any condition.     *)
(***************************************************************************)
EXTENDS Naturals, FiniteSets

CONSTANTS
  Messages,     \* rows, each with a dedupeKey of its own
  People,       \* whose account and address a message is for
  OwnerOf,      \* [Messages -> People]
  Workers,      \* processes that sweep
  MaxAttempts,  \* MAIL_MAX_ATTEMPTS
  MaxCrashes,   \* bound: crashes of workers
  MaxRetries,   \* bound: how often the panel sends one message again
  MaxLapses,    \* bound: how often the provider forgets the key of a message
  MailEvents    \* what happens in this instance besides sending

ASSUME MailAssumption ==
  /\ OwnerOf \in [Messages -> People]
  /\ MaxAttempts \in Nat \ {0}
  /\ MaxCrashes \in Nat /\ MaxRetries \in Nat /\ MaxLapses \in Nat
  /\ MailEvents \subseteq {"slow", "reports", "panel", "removal", "retention"}

VARIABLES
  mail,       \* MailMessage
  suppressed, \* MailSuppression: people by their address
  accounts,   \* people whose account exists
  phase,      \* per worker: where its sweep is
  job,        \* per worker and message: the claim and the attempt it makes
  asked,      \* messages the panel has checked and is about to queue again
  accepted,   \* external: idempotency keys the provider remembers
  delivered,  \* external: how many mails left for a message
  reported,   \* external: which of them it has reported as failed
  lapses,     \* external: how often it has forgotten the key of a message
  crashes,
  retried,    \* history: how often the panel has queued a message again
  silenced,   \* history: messages the removal of an account has skipped
  overtaken,  \* history: messages put back although a worker still had them
  late        \* history: messages still under way a day after they were accepted

external == <<accepted, delivered, reported, lapses>>
history == <<crashes, retried, silenced, overtaken, late>>
mailVars == <<mail, suppressed, accounts, phase, job, asked, external, history>>

Status == {"absent", "QUEUED", "SENDING", "SENT", "FAILED", "SKIPPED"}
MailRow == [status: Status, attempts: Nat, due: BOOLEAN, stuck: BOOLEAN,
            scrubbed: BOOLEAN, id: Nat]
NoMail == [status |-> "absent", attempts |-> 0, due |-> FALSE, stuck |-> FALSE,
           scrubbed |-> FALSE, id |-> 0]

SendingSteps == {"none", "listed", "claimed", "read", "ok", "again", "rejected", "bad address"}
NoJob == [pc |-> "none", attempts |-> 0, empty |-> FALSE, id |-> 0]
MailJobs == [pc: SendingSteps, attempts: Nat, empty: BOOLEAN, id: Nat]

MailShapes ==
  /\ mail \in [Messages -> MailRow]
  /\ suppressed \subseteq People /\ accounts \subseteq People
  /\ phase \in [Workers -> {"idle", "list", "claim", "deliver"}]
  /\ job \in [Workers -> [Messages -> MailJobs]]
  /\ asked \subseteq {m \in Messages : retried[m] < MaxRetries}
  /\ accepted \subseteq Messages \X Nat /\ reported \subseteq Messages \X Nat
  /\ delivered \in [Messages -> Nat] /\ lapses \in [Messages -> 0 .. MaxLapses]
  /\ crashes \in 0 .. MaxCrashes /\ retried \in [Messages -> 0 .. MaxRetries]
  /\ silenced \subseteq Messages /\ overtaken \subseteq Messages /\ late \subseteq Messages

WithinBudget ==
  \A m \in Messages :
    /\ mail[m].attempts <= MaxAttempts + retried[m]
    /\ mail[m].status \in {"QUEUED", "SENDING"} => mail[m].attempts < MaxAttempts + retried[m]
    /\ \A w \in Workers : job[w][m].attempts < MaxAttempts + retried[m]

(* The values of every variable.  Attempts are counted without a cap; a message still
   has no more than its budget and one for each time the panel sent it again
   (deliver, mail-worker.service.ts:261-275; retry, admin-mails.service.ts:28-31). *)
MailTypeOK == MailShapes /\ WithinBudget

MailInit ==
  /\ mail = [m \in Messages |-> NoMail]
  /\ suppressed = {} /\ accounts = People
  /\ phase = [w \in Workers |-> "idle"]
  /\ job = [w \in Workers |-> [m \in Messages |-> NoJob]]
  /\ asked = {} /\ accepted = {}
  /\ delivered = [m \in Messages |-> 0] /\ reported = {} /\ lapses = [m \in Messages |-> 0]
  /\ crashes = 0 /\ retried = [m \in Messages |-> 0]
  /\ silenced = {} /\ overtaken = {} /\ late = {}

(* Every write of a row refreshes updatedAt. *)
Put(m, row) == mail' = [mail EXCEPT ![m] = [row EXCEPT !.stuck = FALSE]]
Gets(w, m, j) == job' = [job EXCEPT ![w][m] = j]

-----------------------------------------------------------------------------
(* enqueue: ON CONFLICT DO NOTHING by dedupeKey, not for a suppressed address. *)
Enqueue(m) ==
  /\ OwnerOf[m] \in accounts \ suppressed
  /\ mail[m].status = "absent"
  /\ Put(m, [NoMail EXCEPT !.status = "QUEUED", !.due = TRUE])
  /\ UNCHANGED <<suppressed, accounts, phase, job, asked, external, history>>

-----------------------------------------------------------------------------
(* One sweep of a worker; `running` keeps a process from sweeping twice. *)

InHand(w, m) == job[w][m].pc \notin {"none", "listed"}

\* Mutant: what a dead worker had is left as it is.
NothingLost == {}

Lost == {m \in Messages : mail[m].status = "SENDING" /\ mail[m].stuck}

RecoverStuck(w) ==
  /\ phase[w] = "idle"
  /\ phase' = [phase EXCEPT ![w] = "list"]
  /\ mail' = [m \in Messages |->
       IF m \in Lost THEN [mail[m] EXCEPT !.status = "QUEUED", !.stuck = FALSE] ELSE mail[m]]
  /\ overtaken' = overtaken \cup {m \in Lost : \E v \in Workers : InHand(v, m)}
  /\ UNCHANGED <<suppressed, accounts, job, asked, external, crashes, retried, silenced, late>>

ListDue(w) ==
  LET waiting == {m \in Messages : mail[m].status = "QUEUED" /\ mail[m].due} IN
  /\ phase[w] = "list"
  /\ phase' = [phase EXCEPT ![w] = IF waiting = {} THEN "idle" ELSE "claim"]
  /\ job' = [job EXCEPT ![w] = [m \in Messages |->
       IF m \in waiting THEN [NoJob EXCEPT !.pc = "listed"] ELSE NoJob]]
  /\ UNCHANGED <<mail, suppressed, accounts, asked, external, history>>

\* Mutant: the claim does not ask for the status.
ClaimableAnyway(m) == mail[m].status # "absent"

Claimable(m) == mail[m].status = "QUEUED"

(* The count of the conditional update says whose the row is. *)
ClaimRow(w, m) ==
  /\ phase[w] = "claim" /\ job[w][m].pc = "listed"
  /\ IF Claimable(m)
       THEN Put(m, [mail[m] EXCEPT !.status = "SENDING"]) /\ Gets(w, m, [NoJob EXCEPT !.pc = "claimed"])
       ELSE Gets(w, m, NoJob) /\ UNCHANGED mail
  /\ UNCHANGED <<suppressed, accounts, phase, asked, external, history>>

ReadClaimed(w) ==
  /\ phase[w] = "claim"
  /\ \A m \in Messages : job[w][m].pc # "listed"
  /\ phase' = [phase EXCEPT ![w] = "deliver"]
  /\ job' = [job EXCEPT ![w] = [m \in Messages |->
       IF job[w][m].pc = "claimed" /\ mail[m].status = "SENDING"
         THEN [pc |-> "read", attempts |-> mail[m].attempts, empty |-> mail[m].scrubbed, id |-> 0]
         ELSE NoJob]]
  /\ UNCHANGED <<mail, suppressed, accounts, asked, external, history>>

\* Mutant: every attempt has a key of its own.
KeyOfAttempt(w, m) == <<m, job[w][m].attempts>>

(* The key under which the provider is called: the same for every attempt. *)
IdempotencyKey(w, m) == <<m, 0>>

(* The call; a message it accepts under a key it remembers is not sent again, its answer
   names the mail that was.  The answer to an accepted one may be lost.  A scrubbed row
   cannot be rendered.                                                                 *)
SendMail(w, m, answer) ==
  LET key == IdempotencyKey(w, m) IN
  /\ job[w][m].pc = "read"
  /\ job[w][m].empty => answer = "rejected"
  /\ \/ /\ answer \in {"ok", "again"}
        /\ accepted' = accepted \cup {key}
        /\ delivered' = [delivered EXCEPT ![m] = IF key \in accepted THEN @ ELSE @ + 1]
     \/ answer \in {"again", "rejected", "bad address"} /\ UNCHANGED <<accepted, delivered>>
  /\ UNCHANGED <<reported, lapses>>
  /\ Gets(w, m, [job[w][m] EXCEPT !.pc = answer, !.id = IF answer = "ok" THEN delivered'[m] ELSE 0])
  /\ UNCHANGED <<mail, suppressed, accounts, phase, asked, history>>

SuppressAddress(w, m) ==
  /\ job[w][m].pc = "bad address"
  /\ suppressed' = suppressed \cup {OwnerOf[m]}
  /\ Gets(w, m, [job[w][m] EXCEPT !.pc = "rejected"])
  /\ UNCHANGED <<mail, accounts, phase, asked, external, history>>

\* Mutant: the attempt that used up the budget is followed by one more.
MayTryOnceMore(tries) == tries <= MaxAttempts

MayTryAgain(tries) == tries < MaxAttempts

(* The outcome, written by id, with the attempts counted from the row as it was read. *)
Settle(w, m) ==
  LET j == job[w][m]
      tries == j.attempts + 1
  IN
  /\ j.pc \in {"ok", "again", "rejected"}
  /\ Put(m, [mail[m] EXCEPT
       !.attempts = tries,
       !.status = CASE j.pc = "ok" -> "SENT"
                    [] j.pc = "again" /\ MayTryAgain(tries) -> "QUEUED"
                    [] OTHER -> "FAILED",
       !.due = FALSE,
       !.id = IF j.pc = "ok" THEN j.id ELSE @])
  /\ Gets(w, m, NoJob)
  /\ UNCHANGED <<suppressed, accounts, phase, asked, external, history>>

EndSweep(w) ==
  /\ phase[w] = "deliver"
  /\ job[w] = [m \in Messages |-> NoJob]
  /\ phase' = [phase EXCEPT ![w] = "idle"]
  /\ UNCHANGED <<mail, suppressed, accounts, job, asked, external, history>>

(* The process dies, or a statement fails and the sweep is left. *)
WorkerDies(w) ==
  /\ phase[w] # "idle" /\ crashes < MaxCrashes
  /\ crashes' = crashes + 1
  /\ phase' = [phase EXCEPT ![w] = "idle"]
  /\ job' = [job EXCEPT ![w] = [m \in Messages |-> NoJob]]
  /\ UNCHANGED <<mail, suppressed, accounts, asked, external, retried, silenced, overtaken, late>>

-----------------------------------------------------------------------------
(* Time. *)

BecomesDue(m) ==
  /\ mail[m].status = "QUEUED" /\ ~mail[m].due
  /\ mail' = [mail EXCEPT ![m].due = TRUE]
  /\ UNCHANGED <<suppressed, accounts, phase, job, asked, external, history>>

(* STUCK_SENDING_MS pass: nobody has the row, unless a worker is that slow. *)
Hangs(m) ==
  /\ mail[m].status = "SENDING" /\ ~mail[m].stuck
  /\ "slow" \in MailEvents \/ \A w \in Workers : ~InHand(w, m)
  /\ mail' = [mail EXCEPT ![m].stuck = TRUE]
  /\ UNCHANGED <<suppressed, accounts, phase, job, asked, external, history>>

(* Retention clears address and content, whatever the status. *)
Scrub(m) ==
  /\ "retention" \in MailEvents
  /\ mail[m].status # "absent" /\ ~mail[m].scrubbed
  /\ Put(m, [mail[m] EXCEPT !.scrubbed = TRUE])
  /\ UNCHANGED <<suppressed, accounts, phase, job, asked, external, history>>

(* A day after it accepted a message the provider forgets its key.  All attempts of the
   worker are due within hours of the first, so a message still under way by then was
   held up: no sweep ran, the mails were switched off, or a call took as long.         *)
AtRest(m) ==
  mail[m].status \in {"SENT", "FAILED", "SKIPPED"} /\ \A w \in Workers : ~InHand(w, m)

KeyLapses(m) ==
  /\ \E key \in accepted : key[1] = m
  /\ lapses[m] < MaxLapses
  /\ accepted' = {key \in accepted : key[1] # m}
  /\ lapses' = [lapses EXCEPT ![m] = @ + 1]
  /\ late' = IF AtRest(m) THEN late ELSE late \cup {m}
  /\ UNCHANGED <<mail, suppressed, accounts, phase, job, asked, delivered, reported,
                 crashes, retried, silenced, overtaken>>

-----------------------------------------------------------------------------
(* Reports of the provider, the panel, the removal of an account. *)

Bounced(p) ==
  /\ "reports" \in MailEvents
  /\ \E m \in Messages : OwnerOf[m] = p /\ delivered[m] > 0
  /\ p \notin suppressed
  /\ suppressed' = suppressed \cup {p}
  /\ UNCHANGED <<mail, accounts, phase, job, asked, external, history>>

(* The provider could not deliver what it accepted; it says so once for each mail.  The
   row is found by providerMessageId, which is there once the answer was written.       *)
ReportedFailed(m) ==
  /\ "reports" \in MailEvents
  /\ mail[m].id # 0 /\ <<m, mail[m].id>> \notin reported
  /\ reported' = reported \cup {<<m, mail[m].id>>}
  /\ Put(m, [mail[m] EXCEPT !.status = "FAILED"])
  /\ UNCHANGED <<suppressed, accounts, phase, job, asked, accepted, delivered, lapses, history>>

(* "Send again": the attempts stay as they are. *)
AskRetry(m) ==
  /\ "panel" \in MailEvents /\ retried[m] < MaxRetries
  /\ mail[m].status = "FAILED" /\ ~mail[m].scrubbed
  /\ OwnerOf[m] \in accounts \ suppressed
  /\ asked' = asked \cup {m}
  /\ UNCHANGED <<mail, suppressed, accounts, phase, job, external, history>>

QueueAgain(m) ==
  /\ m \in asked
  /\ asked' = asked \ {m}
  /\ IF mail[m].status = "FAILED" /\ ~mail[m].scrubbed
       THEN /\ Put(m, [mail[m] EXCEPT !.status = "QUEUED", !.due = TRUE])
            /\ retried' = [retried EXCEPT ![m] = @ + 1]
       ELSE UNCHANGED <<mail, retried>>
  /\ UNCHANGED <<suppressed, accounts, phase, job, external, crashes, silenced, overtaken, late>>

(* deleteAccount skips what waits; rows stay without their user. *)
RemoveAccount(p) ==
  LET waiting == {m \in Messages : OwnerOf[m] = p /\ mail[m].status = "QUEUED"} IN
  /\ "removal" \in MailEvents
  /\ p \in accounts
  /\ accounts' = accounts \ {p}
  /\ mail' = [m \in Messages |->
       IF m \in waiting THEN [mail[m] EXCEPT !.status = "SKIPPED", !.stuck = FALSE] ELSE mail[m]]
  /\ silenced' = silenced \cup waiting
  /\ UNCHANGED <<suppressed, phase, job, asked, external, crashes, retried, overtaken, late>>

-----------------------------------------------------------------------------
Sweeping(w) ==
  \/ RecoverStuck(w) \/ ListDue(w) \/ ReadClaimed(w) \/ EndSweep(w)
  \/ \E m \in Messages :
       \/ ClaimRow(w, m) \/ SuppressAddress(w, m) \/ Settle(w, m)
       \/ \E answer \in {"ok", "again", "rejected", "bad address"} : SendMail(w, m, answer)

MailNext ==
  \/ \E w \in Workers : Sweeping(w) \/ WorkerDies(w)
  \/ \E m \in Messages :
       \/ Enqueue(m) \/ BecomesDue(m) \/ Hangs(m) \/ Scrub(m) \/ KeyLapses(m)
       \/ ReportedFailed(m) \/ AskRetry(m) \/ QueueAgain(m)
  \/ \E p \in People : Bounced(p) \/ RemoveAccount(p)

MailSpec == MailInit /\ [][MailNext]_mailVars

(* A living process sweeps again and again and goes on with what it began; time passes. *)
MailFairSpec ==
  /\ MailSpec
  /\ \A w \in Workers : WF_mailVars(Sweeping(w))
  /\ \A m \in Messages : WF_mailVars(BecomesDue(m)) /\ WF_mailVars(Hangs(m))

-----------------------------------------------------------------------------
(* What waited when its account was removed never leaves, though a worker had
   listed it before, as long as none was slower with it than STUCK_SENDING_MS
   (claim, mail-worker.service.ts:149-172; users.service.ts:667-679).         *)
SilencedStaysSilent ==
  \A m \in silenced \ overtaken : mail[m].status # "SENDING" /\ \A w \in Workers : ~InHand(w, m)

(* However often a message is claimed, taken for lost, reported and queued again, it
   leaves once for each day its key is remembered, and a second time only after the
   panel was asked to send it again or a day went by while it was still under way
   (the key of deliver, mail-worker.service.ts:187-281, valid for a day:
   providers/mail-client.ts:16-21).                                                 *)
OneCopyPerKey ==
  \A m \in Messages :
    /\ delivered[m] <= 1 + lapses[m]
    /\ delivered[m] > 1 => retried[m] > 0 \/ m \in late

(* Once queued, a message is sent or given up, whoever crashes or whatever is
   reported of it meanwhile; workers that overtake each other may go on
   (sweep and recoverStuck, mail-worker.service.ts:101-185).                  *)
EveryMailSettles ==
  \A m \in Messages :
    mail[m].status = "QUEUED" ~>
      (mail[m].status \in {"SENT", "FAILED", "SKIPPED"} \/ m \in overtaken)

(* Refuted: the key protects from every second sending (mail-worker.service.ts:25-28). *)
NeverTwice == \A m \in Messages : delivered[m] <= 1

(* Refuted: no attempt begins for somebody whose account is gone. *)
NoAttemptAfterRemoval ==
  [][\A w \in Workers, m \in Messages :
       job[w][m].pc # "claimed" /\ job'[w][m].pc = "claimed" => OwnerOf[m] \in accounts]_mailVars
=============================================================================
