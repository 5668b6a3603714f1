---------------------------- MODULE TurnExecution ----------------------------
(***************************************************************************)
(* Durable execution of ONE assistant turn (src/src/agent).  An accepted   *)
(* turn is a row of AgentTurn; any backend process may claim it under a    *)
(* lease, run the model and its tools, and close it.  Processes crash,     *)
(* drain and restart, leases expire under a stalled worker, every database *)
(* call may fail before or after its commit, and a sweeper, a polling      *)
(* client and the user's "stop" close turns from outside.                  *)
(*                                                                         *)
(* An attempt is one claim of the turn; run[a] is the worker routine of    *)
(* attempt a.  The random lease token of a claim is represented by the     *)
(* attempt number, which every claim increments, so tokens are as fresh    *)
(* here as the UUIDs of the code.                                          *)
(***************************************************************************)
EXTENDS Naturals, Sequences, FiniteSets

CONSTANTS
  Procs,        \* backend processes
  Nobody,       \* the process of a run that has not been claimed
  MaxAttempts,  \* AI_TURN_MAX_ATTEMPTS
  MaxCalls,     \* bound: model calls of one attempt (MAX_TOOL_ROUNDS + 1)
  MaxEffects,   \* bound: keyed effects of the turn
  KeyedOps,     \* tool + input of a journaled write (create_recipe ...)
  CardOps,      \* tool + input of a proposal card (propose_week_plan ...)
  TextCards,    \* the cards for which the server has the closing sentence
  NoOp,         \* no operation
  Costs,        \* whether a model call may cost something, nothing, or either
  Faults,       \* how a database call may fail in this instance
  Events        \* what may befall the processes and the turn in this instance

ASSUME ConstantsAssumption ==
  /\ Nobody \notin Procs
  /\ MaxAttempts \in Nat \ {0}
  /\ MaxCalls \in Nat \ {0}
  /\ MaxEffects \in Nat
  /\ TextCards \subseteq CardOps
  /\ KeyedOps \cap CardOps = {}
  /\ NoOp \notin KeyedOps \cup CardOps
  /\ Costs \subseteq BOOLEAN
  /\ Faults \subseteq {"rejected", "unacknowledged"}
  /\ Events \subseteq {"crash", "drain", "stop", "deadline"}

VARIABLES
  row,       \* the AgentTurn row
  clock,     \* where the deadline of the turn is: open, due, over (past grace)
  messages,  \* the quota counter the turn was charged to
  journal,   \* AgentTurnEffect: what each key holds, and by which attempt
  booked,    \* AiUsage rows of the turn, one per model call
  answer,    \* the ASSISTANT message with outputKey = final
  proc,      \* per process: mode, controller in the running map, stop under way
  abort,     \* per controller (named by the attempt that made it): its reason
  run,       \* per attempt: its worker routine
  paidFor,   \* history: the model calls that cost something
  gone       \* history: paid calls that fell out of memory unrecorded

vars == <<row, clock, messages, journal, booked, answer, proc, abort, run,
          paidFor, gone>>

Attempts == 1 .. MaxAttempts
Ops == KeyedOps \cup CardOps
CardKey == 0
Keys == CardKey .. MaxEffects
NoEffect == [op |-> NoOp, by |-> 0]
NoAnswer == [by |-> 0, card |-> NoOp]
Calls == [by : Attempts, idx : 1 .. MaxCalls, paid : BOOLEAN]
Reasons == {"none", "cancelled", "shutdown", "lease_lost", "timeout"}
Outcomes == {"ok"} \cup Faults

PCs == {"idle", "claimed", "reserved", "prelude", "check", "round", "model",
        "record", "decide", "tools", "commit", "settle", "refund", "ended"}
Goals == {"none", "answer", "replay", "fail", "release", "drop"}

\* The routine of an attempt before it is claimed; a finished one keeps nothing.
Blank == [pc |-> "idle", proc |-> Nobody, ctl |-> 0, calls |-> 0,
          paid |-> FALSE, spent |-> FALSE, retry |-> {}, told |-> <<>>,
          card |-> "no", key |-> 0, op |-> NoOp, goal |-> "none"]

Done(p) == [Blank EXCEPT !.pc = "ended", !.proc = p]

Active(a) == run[a].pc \notin {"idle", "claimed", "reserved", "ended"}
At(a, pc) == run[a].pc = pc
Ctl(a) == abort[run[a].ctl]

-----------------------------------------------------------------------------
(* The database row and what is done to it                                 *)

Init ==
  /\ row = [status |-> "RUNNING", token |-> 0, lease |-> "none", attempt |-> 0,
            cancel |-> FALSE, cost |-> 0, refunded |-> FALSE]
  /\ clock = "open"
  /\ messages = 1
  /\ journal = [k \in Keys |-> NoEffect]
  /\ booked = {}
  /\ answer = NoAnswer
  /\ proc = [p \in Procs |-> [mode |-> "up", running |-> 0, stopping |-> FALSE]]
  /\ abort = [a \in Attempts |-> "none"]
  /\ run = [a \in Attempts |-> Blank]
  /\ paidFor = {}
  /\ gone = {}

\* Mutant: the condition on the row forgets the lease token.
HeldByAnybody(a) == row.status = "RUNNING" /\ row.attempt >= a

\* Mutant: the condition on the row forgets the status.
HeldWhenClosed(a) == row.token = a

\* The lease of attempt a is still the one of the row.
Held(a) == row.status = "RUNNING" /\ row.token = a

\* liveTurn / closeTurn: nobody holds a lease that has not expired.
Unleased == row.lease # "live"

Refundable(r) == ~r.refunded /\ r.cost = 0

\* refundIfFree on row r: the flag and the counter move together.
Refund(r) ==
  IF Refundable(r)
  THEN /\ row' = [r EXCEPT !.refunded = TRUE]
       /\ messages' = IF messages > 0 THEN messages - 1 ELSE 0
  ELSE row' = r /\ messages' = messages

Closed(status) == [row EXCEPT !.status = status, !.lease = "none"]

Released == [row EXCEPT !.token = 0, !.lease = "none"]

\* Mutant: the call key of a recovered attempt is that of the first one.
CallKeyOfTurn(c) == c.idx

\* usageCallKey: the identity of a model call in the ledger.
CallKey(c) == <<c.by, c.idx>>

\* Mutant: a call booked after the refund does not take the refund back.
BookWithoutRecharge(c) ==
  IF \E b \in booked : CallKey(b) = CallKey(c)
  THEN UNCHANGED <<booked, row, messages>>
  ELSE /\ booked' = booked \cup {c}
       /\ row' = IF c.paid THEN [row EXCEPT !.cost = @ + 1] ELSE row
       /\ UNCHANGED messages

\* AgentUsageLedger.record: one row per call key; a paid call takes back a refund.
Book(c) ==
  IF \E b \in booked : CallKey(b) = CallKey(c)
  THEN UNCHANGED <<booked, row, messages>>
  ELSE /\ booked' = booked \cup {c}
       /\ IF ~c.paid
          THEN UNCHANGED <<row, messages>>
          ELSE /\ row' = [row EXCEPT !.cost = @ + 1, !.refunded = FALSE]
               /\ messages' = IF row.refunded THEN messages + 1 ELSE messages

\* A booking that may fail: rejected, or committed with the answer lost.
TryBook(c, outcome) ==
  IF outcome = "rejected" THEN UNCHANGED <<booked, row, messages>> ELSE Book(c)

-----------------------------------------------------------------------------
(* The worker routine: how a step leaves it                                *)

Goto(a, pc) == run' = [run EXCEPT ![a].pc = pc]

\* The catch of run(): the reason of the controller decides what is still done.
GoalFor(reason) ==
  CASE reason = "lease_lost" -> "drop"
    [] reason = "shutdown"   -> "release"
    [] OTHER                 -> "fail"

Throw(a, reason) ==
  run' = [run EXCEPT ![a].pc = "settle", ![a].goal = GoalFor(reason),
                     ![a].key = 0, ![a].op = NoOp]

\* The finally of run(): the process forgets the turn.
End(a) ==
  /\ run' = [run EXCEPT ![a] = Done(run[a].proc)]
  /\ proc' = [proc EXCEPT ![run[a].proc].running = 0]

\* AbortController.abort: the first reason stays.
AbortCtl(c, reason) ==
  abort' = [abort EXCEPT ![c] = IF @ = "none" THEN reason ELSE @]

\* leaseCheckpoint: what the database says of the lease and of "stop".
Checkpoint(a) ==
  IF ~Held(a) THEN "lease_lost" ELSE IF row.cancel THEN "cancelled" ELSE "none"

\* The reason of a's controller after a checkpoint.
ReasonAfter(a) == IF Ctl(a) = "none" THEN Checkpoint(a) ELSE Ctl(a)

-----------------------------------------------------------------------------
(* Claiming the turn and starting the routine                              *)

\* AgentTurnQueue.claim by the worker of process p (poll or kick).
Claim(p) ==
  /\ proc[p].mode = "up"
  /\ row.status = "RUNNING" /\ ~row.cancel /\ clock = "open"
  /\ row.attempt < MaxAttempts
  /\ Unleased
  /\ LET a == row.attempt + 1
     IN /\ row' = [row EXCEPT !.token = a, !.lease = "live", !.attempt = a]
        /\ run' = [run EXCEPT ![a].pc = "claimed", ![a].proc = p]
  /\ UNCHANGED <<clock, messages, journal, booked, answer, proc, abort,
                 paidFor, gone>>

\* claimAndRun after the claim: a draining process gives the turn back.
TakeClaim(a) ==
  /\ At(a, "claimed")
  /\ LET p == run[a].proc
     IN IF proc[p].mode = "up"
        THEN /\ Goto(a, "reserved")
             /\ proc' = [proc EXCEPT ![p].running = IF @ = 0 THEN a ELSE @]
             /\ UNCHANGED row
        ELSE /\ run' = [run EXCEPT ![a] = Done(p)]
             /\ \E outcome \in Outcomes :
                  row' = IF outcome # "rejected" /\ Held(a) THEN Released ELSE row
             /\ UNCHANGED proc
  /\ UNCHANGED <<clock, messages, journal, booked, answer, abort, paidFor, gone>>

\* execute reads the turn and run() picks up the controller of the map.
Start(a) ==
  /\ At(a, "reserved")
  /\ LET p == run[a].proc
         fresh == proc[p].running = 0
         c == IF fresh THEN a ELSE proc[p].running
         reason == IF fresh THEN "none" ELSE abort[c]
     IN /\ run' = [run EXCEPT ![a].ctl = c,
                              ![a].pc = IF reason = "none" THEN "prelude" ELSE "settle",
                              ![a].goal = IF reason = "none" THEN "none" ELSE GoalFor(reason)]
        /\ proc' = [proc EXCEPT ![p].running = c]
        /\ abort' = [abort EXCEPT ![c] = reason]
  /\ UNCHANGED <<row, clock, messages, journal, booked, answer, paidFor, gone>>

\* The turn could not be read: the lease is left to expire.
StartFails(a) ==
  /\ At(a, "reserved")
  /\ "rejected" \in Faults
  /\ End(a)
  /\ UNCHANGED <<row, clock, messages, journal, booked, answer, abort,
                 paidFor, gone>>

\* replayTerminalCard: a recovered attempt answers with a card already saved.
Prelude(a) ==
  /\ At(a, "prelude")
  /\ IF a > 1 /\ journal[CardKey].op \in TextCards
     THEN run' = [run EXCEPT ![a].pc = "settle", ![a].goal = "replay"]
     ELSE Goto(a, "check")
  /\ UNCHANGED <<row, clock, messages, journal, booked, answer, proc, abort,
                 paidFor, gone>>

\* leaseCheckpoint before the prompt is built.
FirstCheck(a) ==
  /\ At(a, "check")
  /\ AbortCtl(run[a].ctl, Checkpoint(a))
  /\ IF Checkpoint(a) = "none" THEN Goto(a, "round") ELSE Throw(a, ReasonAfter(a))
  /\ UNCHANGED <<row, clock, messages, journal, booked, answer, proc,
                 paidFor, gone>>

-----------------------------------------------------------------------------
(* The model and its tools                                                 *)

\* The next model call, unless the controller was aborted meanwhile.
Round(a) ==
  /\ At(a, "round")
  /\ IF Ctl(a) = "none"
     THEN /\ run[a].calls < MaxCalls
          /\ run' = [run EXCEPT ![a].pc = "model", ![a].calls = @ + 1]
     ELSE Throw(a, Ctl(a))
  /\ UNCHANGED <<row, clock, messages, journal, booked, answer, proc, abort,
                 paidFor, gone>>

LastCall(a) == [by |-> a, idx |-> run[a].calls, paid |-> run[a].paid]

ModelReturns(a) ==
  /\ At(a, "model")
  /\ \E paid \in Costs :
       /\ run' = [run EXCEPT ![a].pc = "record", ![a].paid = paid,
                             ![a].spent = @ \/ paid]
       /\ paidFor' = IF paid
                     THEN paidFor \cup {[by |-> a, idx |-> run[a].calls, paid |-> TRUE]}
                     ELSE paidFor
  /\ UNCHANGED <<row, clock, messages, journal, booked, answer, proc, abort, gone>>

\* The provider fails, or the call is cut by the abort signal.
ModelFails(a) ==
  /\ At(a, "model")
  /\ Throw(a, Ctl(a))
  /\ UNCHANGED <<row, clock, messages, journal, booked, answer, proc, abort,
                 paidFor, gone>>

\* TurnLedger.record right after the call; a failed booking is kept for settle.
Record(a) ==
  /\ At(a, "record")
  /\ \E outcome \in Outcomes :
       /\ TryBook(LastCall(a), outcome)
       /\ run' = [run EXCEPT ![a].pc = "decide",
                    ![a].retry = IF outcome = "ok" THEN @ ELSE @ \cup {LastCall(a)}]
  /\ UNCHANGED <<clock, journal, answer, proc, abort, paidFor, gone>>

\* The response was a refusal, a text without tools, or tool calls.
Decide(a) ==
  /\ At(a, "decide")
  /\ \/ Throw(a, Ctl(a))
     \/ run' = [run EXCEPT ![a].pc = "settle", ![a].goal = "answer"]
     \/ run[a].calls < MaxCalls /\ Goto(a, "tools")
  /\ UNCHANGED <<row, clock, messages, journal, booked, answer, proc, abort,
                 paidFor, gone>>

\* Mutant: the cursor moves on past an effect of another operation.
RecognizeAnything(a, key, op) ==
  run' = [run EXCEPT
    ![a].pc = "tools", ![a].key = 0, ![a].op = NoOp,
    ![a].told = IF op \in KeyedOps THEN Append(@, op) ELSE @,
    ![a].card = IF op \in KeyedOps THEN @ ELSE "ends"]

\* recognize: the stored effect answers the same operation; anything else is a
\* recovery conflict and the cursor stays.
Recognize(a, key, op) ==
  LET same == journal[key].op = op
  IN run' = [run EXCEPT
       ![a].pc = "tools", ![a].key = 0, ![a].op = NoOp,
       ![a].told = IF same /\ op \in KeyedOps THEN Append(@, op) ELSE @,
       ![a].card = IF op \in KeyedOps THEN @ ELSE IF same THEN "ends" ELSE "kept"]

\* Mutant: a keyed write is taken for a card.
KeyForCard(a, op) == CardKey

\* keyFor: the card, or the next effect after those this attempt recognised.
KeyFor(a, op) == IF op \in CardOps THEN CardKey ELSE Len(run[a].told) + 1

\* A tool with an effect, up to its own transaction (executeDurable).
CallTool(a, op) ==
  /\ At(a, "tools")
  /\ op \in CardOps => run[a].card = "no"
  /\ KeyFor(a, op) \in Keys
  /\ LET key == KeyFor(a, op)
     IN IF journal[key] # NoEffect
        THEN Recognize(a, key, op) /\ UNCHANGED abort
        ELSE /\ AbortCtl(run[a].ctl, Checkpoint(a))
             /\ IF Checkpoint(a) = "none"
                THEN run' = [run EXCEPT ![a].pc = "commit", ![a].key = key, ![a].op = op]
                ELSE UNCHANGED run
  /\ UNCHANGED <<row, clock, messages, journal, booked, answer, proc,
                 paidFor, gone>>

\* The tool is told its effect was committed.
Told(a) ==
  run' = [run EXCEPT
    ![a].pc = "tools", ![a].key = 0, ![a].op = NoOp,
    ![a].told = IF run[a].op \in KeyedOps THEN Append(@, run[a].op) ELSE @,
    ![a].card = IF run[a].op \in CardOps THEN "ends" ELSE @]

\* The tool is told it failed; the model may call it again.
Refused(a) ==
  run' = [run EXCEPT ![a].pc = "tools", ![a].key = 0, ![a].op = NoOp]

\* The transaction of the effect: the fence, the journal row and the domain
\* write commit together.
Commit(a) ==
  /\ At(a, "commit")
  /\ LET key == run[a].key
         effect == [op |-> run[a].op, by |-> a]
     IN \/ /\ ~Held(a)
           /\ AbortCtl(run[a].ctl, "lease_lost")
           /\ Refused(a)
           /\ UNCHANGED journal
        \/ /\ Held(a)
           /\ IF journal[key] # NoEffect
              THEN Recognize(a, key, run[a].op) /\ UNCHANGED journal
              ELSE \E outcome \in Outcomes :
                     /\ journal' = IF outcome = "rejected" THEN journal
                                   ELSE [journal EXCEPT ![key] = effect]
                     /\ IF outcome = "ok" THEN Told(a) ELSE Refused(a)
           /\ UNCHANGED abort
  /\ UNCHANGED <<row, clock, messages, booked, answer, proc, paidFor, gone>>

\* A card with the server's sentence ends the turn without another call.
CardEndsTurn(a) ==
  /\ At(a, "tools")
  /\ run[a].card = "ends"
  /\ journal[CardKey].op \in TextCards
  /\ run' = [run EXCEPT ![a].pc = "settle", ![a].goal = "answer"]
  /\ UNCHANGED <<row, clock, messages, journal, booked, answer, proc, abort,
                 paidFor, gone>>

\* onThinking after the tools: the checkpoint may abort, its error is swallowed.
EndTools(a) ==
  /\ At(a, "tools")
  /\ AbortCtl(run[a].ctl, Checkpoint(a))
  /\ run' = [run EXCEPT ![a].pc = "round",
                         ![a].card = IF @ = "ends" THEN "kept" ELSE @]
  /\ UNCHANGED <<row, clock, messages, journal, booked, answer, proc,
                 paidFor, gone>>

-----------------------------------------------------------------------------
(* Settling the ledger and leaving the turn                                *)

\* TurnLedger.settle: each failed booking is tried once more, then given up.
Settle(a) ==
  /\ At(a, "settle")
  /\ \E c \in run[a].retry, outcome \in Outcomes :
       /\ TryBook(c, outcome)
       /\ run' = [run EXCEPT ![a].retry = @ \ {c}]
       /\ gone' = IF c.paid /\ c \notin booked' THEN gone \cup {c} ELSE gone
  /\ UNCHANGED <<clock, journal, answer, proc, abort, paidFor>>

Settled(a, goals) ==
  At(a, "settle") /\ run[a].goal \in goals /\ run[a].retry = {}

\* finishDone: status, final message and the ceiling refund in one transaction.
Answer(a) ==
  /\ Settled(a, {"answer", "replay"})
  /\ Held(a)
  /\ \E ceiling \in BOOLEAN, outcome \in Outcomes :
       IF outcome = "rejected"
       THEN /\ Throw(a, Ctl(a))
            /\ UNCHANGED <<row, messages, answer, proc>>
       ELSE /\ IF ceiling /\ run[a].goal = "answer" /\ ~run[a].spent
               THEN Refund(Closed("DONE"))
               ELSE row' = Closed("DONE") /\ UNCHANGED messages
            /\ answer' = [by |-> a, card |-> journal[CardKey].op]
            /\ IF outcome = "ok" THEN End(a)
               ELSE Throw(a, Ctl(a)) /\ UNCHANGED proc
  /\ UNCHANGED <<clock, journal, booked, abort, paidFor, gone>>

\* finishFailed: the conditional close; the refund is a transaction of its own.
Fail(a) ==
  /\ Settled(a, {"fail"})
  /\ Held(a)
  /\ \E outcome \in Outcomes :
       /\ row' = IF outcome = "rejected" THEN row ELSE Closed("FAILED")
       /\ IF outcome = "ok" /\ ~run[a].spent
          THEN Goto(a, "refund") /\ UNCHANGED proc
          ELSE End(a)
  /\ UNCHANGED <<clock, messages, journal, booked, answer, abort, paidFor, gone>>

FailRefund(a) ==
  /\ At(a, "refund")
  /\ \/ Refund(row)
     \/ "rejected" \in Faults /\ UNCHANGED <<row, messages>>
  /\ End(a)
  /\ UNCHANGED <<clock, journal, booked, answer, abort, paidFor, gone>>

\* The turn is no longer a's: neither an answer nor a failure is written.
AlreadyClosed(a) ==
  /\ Settled(a, {"answer", "replay", "fail"})
  /\ ~Held(a)
  /\ End(a)
  /\ UNCHANGED <<row, clock, messages, journal, booked, answer, abort,
                 paidFor, gone>>

\* Lost lease: nothing more.  Shutdown: the lease goes back to the queue.
GiveUp(a) ==
  /\ Settled(a, {"drop", "release"})
  /\ \E outcome \in Outcomes :
       row' = IF run[a].goal = "release" /\ Held(a) /\ outcome # "rejected"
              THEN Released ELSE row
  /\ End(a)
  /\ UNCHANGED <<clock, messages, journal, booked, answer, abort, paidFor, gone>>

-----------------------------------------------------------------------------
(* Timers of the routine                                                   *)

\* renewLease: extends our lease and brings "stop", or finds it is not ours.
Renew(a) ==
  /\ Active(a)
  /\ Ctl(a) = "none"
  /\ IF Held(a)
     THEN /\ row' = [row EXCEPT !.lease = "live"]
          /\ AbortCtl(run[a].ctl, IF row.cancel THEN "cancelled" ELSE "none")
     ELSE /\ AbortCtl(run[a].ctl, "lease_lost")
          /\ UNCHANGED row
  /\ UNCHANGED <<clock, messages, journal, booked, answer, proc, run,
                 paidFor, gone>>

\* Renewals have failed for a whole lease: somebody else may own the turn.
RenewGivesUp(a) ==
  /\ Active(a)
  /\ "rejected" \in Faults
  /\ ~(row.token = a /\ row.lease = "live")
  /\ AbortCtl(run[a].ctl, "lease_lost")
  /\ UNCHANGED <<row, clock, messages, journal, booked, answer, proc, run,
                 paidFor, gone>>

\* The process's own timer for the deadline of the turn.
DeadlineTimer(a) ==
  /\ Active(a)
  /\ clock # "open"
  /\ AbortCtl(run[a].ctl, "timeout")
  /\ UNCHANGED <<row, clock, messages, journal, booked, answer, proc, run,
                 paidFor, gone>>

-----------------------------------------------------------------------------
(* Closing from outside: sweeper, polling client, "stop"                   *)

\* closeTurn: the conditional close and the refund of a free turn, atomically.
CloseTurn == Refund(Closed("FAILED"))

\* Mutant: no verdict past the deadline.
VerdictWithoutDeadline(p) ==
  /\ Unleased
  /\ proc[p].running = 0
  /\ row.cancel \/ row.attempt >= MaxAttempts

\* Mutant: a stopped turn is left to whoever may claim it.
VerdictWithoutStop(p) ==
  \/ clock = "over"
  \/ Unleased /\ proc[p].running = 0 /\ row.attempt >= MaxAttempts

\* turnCloseVerdict as process p computes it: past the grace of the deadline,
\* or nobody runs the turn and it may not be claimed again.
Verdict(p) ==
  \/ clock = "over"
  \/ /\ Unleased
     /\ proc[p].running = 0
     /\ row.cancel \/ row.attempt >= MaxAttempts

\* The sweeper's pass, and the lazy close of a poll or of a new message.
Sweep(p) ==
  /\ proc[p].mode # "down"
  /\ row.status = "RUNNING"
  /\ Verdict(p)
  /\ CloseTurn
  /\ UNCHANGED <<clock, journal, booked, answer, proc, abort, run, paidFor, gone>>

\* cancelTurn at process p: the durable request ...
StopRequest(p) ==
  /\ proc[p].mode # "down" /\ ~proc[p].stopping
  /\ row.status = "RUNNING"
  /\ row' = [row EXCEPT !.cancel = TRUE]
  /\ proc' = [proc EXCEPT ![p].stopping = TRUE]
  /\ UNCHANGED <<clock, messages, journal, booked, answer, abort, run,
                 paidFor, gone>>

\* ... then the local signal, or the close of a turn nobody holds.
StopFollowUp(p) ==
  /\ proc[p].stopping
  /\ proc' = [proc EXCEPT ![p].stopping = FALSE]
  /\ IF proc[p].running # 0
     THEN AbortCtl(proc[p].running, "cancelled") /\ UNCHANGED <<row, messages>>
     ELSE /\ IF row.status = "RUNNING" /\ Unleased
             THEN CloseTurn
             ELSE UNCHANGED <<row, messages>>
          /\ UNCHANGED abort
  /\ UNCHANGED <<clock, journal, booked, answer, run, paidFor, gone>>

-----------------------------------------------------------------------------
(* Processes and time                                                      *)

\* SIGTERM: no more claims; the running turns get their grace.
Drain(p) ==
  /\ proc[p].mode = "up"
  /\ proc' = [proc EXCEPT ![p].mode = "draining"]
  /\ UNCHANGED <<row, clock, messages, journal, booked, answer, abort, run,
                 paidFor, gone>>

\* beforeApplicationShutdown after the grace: the registered turn is aborted.
DrainAbort(p) ==
  /\ proc[p].mode = "draining"
  /\ proc[p].running # 0
  /\ AbortCtl(proc[p].running, "shutdown")
  /\ UNCHANGED <<row, clock, messages, journal, booked, answer, proc, run,
                 paidFor, gone>>

Runs(p) == {a \in Attempts : run[a].proc = p}

\* What attempt a knows of paid calls that the ledger may not have.
InMemory(a) ==
  run[a].retry \cup (IF At(a, "record") THEN {LastCall(a)} ELSE {})

\* SIGKILL, or the end of a drained process: its memory is lost.
Crash(p) ==
  /\ proc[p].mode # "down"
  /\ proc' = [proc EXCEPT ![p] = [mode |-> "down", running |-> 0, stopping |-> FALSE]]
  /\ run' = [a \in Attempts |-> IF a \in Runs(p) THEN Done(p) ELSE run[a]]
  /\ gone' = gone \cup {c \in UNION {InMemory(a) : a \in Runs(p)} :
                          c.paid /\ c \notin booked}
  /\ UNCHANGED <<row, clock, messages, journal, booked, answer, abort, paidFor>>

Restart(p) ==
  /\ proc[p].mode = "down"
  /\ proc' = [proc EXCEPT ![p].mode = "up"]
  /\ UNCHANGED <<row, clock, messages, journal, booked, answer, abort, run,
                 paidFor, gone>>

\* leaseMs passed without a renewal.
LeaseExpires ==
  /\ row.lease = "live"
  /\ row' = [row EXCEPT !.lease = "expired"]
  /\ UNCHANGED <<clock, messages, journal, booked, answer, proc, abort, run,
                 paidFor, gone>>

\* deadlineAt, then TURN_TIMEOUT_GRACE_MS after it.
DeadlinePasses ==
  /\ clock # "over"
  /\ clock' = IF clock = "open" THEN "due" ELSE "over"
  /\ UNCHANGED <<row, messages, journal, booked, answer, proc, abort, run,
                 paidFor, gone>>

-----------------------------------------------------------------------------

Routine(a) ==
  \/ TakeClaim(a) \/ Start(a) \/ StartFails(a) \/ Prelude(a) \/ FirstCheck(a)
  \/ Round(a) \/ ModelReturns(a) \/ ModelFails(a) \/ Record(a) \/ Decide(a)
  \/ \E op \in Ops : CallTool(a, op)
  \/ Commit(a) \/ CardEndsTurn(a) \/ EndTools(a)
  \/ Settle(a) \/ Answer(a) \/ Fail(a) \/ FailRefund(a) \/ AlreadyClosed(a)
  \/ GiveUp(a)
  \/ Renew(a) \/ RenewGivesUp(a) \/ DeadlineTimer(a)

Process(p) ==
  \/ Claim(p) \/ Sweep(p)
  \/ "stop" \in Events /\ (StopRequest(p) \/ StopFollowUp(p))
  \/ "drain" \in Events /\ (Drain(p) \/ DrainAbort(p))
  \/ "crash" \in Events /\ (Crash(p) \/ Restart(p))

Next ==
  \/ \E a \in Attempts : Routine(a)
  \/ \E p \in Procs : Process(p)
  \/ LeaseExpires
  \/ "deadline" \in Events /\ DeadlinePasses

Spec == Init /\ [][Next]_vars

Progress(a) ==
  \/ TakeClaim(a) \/ Start(a) \/ StartFails(a) \/ Prelude(a) \/ FirstCheck(a)
  \/ Round(a) \/ ModelReturns(a) \/ ModelFails(a) \/ Record(a) \/ Decide(a)
  \/ Commit(a) \/ EndTools(a)
  \/ Settle(a) \/ Answer(a) \/ Fail(a) \/ FailRefund(a) \/ AlreadyClosed(a)
  \/ GiveUp(a)

\* A dead process is restarted; every process sweeps at boot and once a minute, so
\* one that keeps coming back gets to its sweep; an unrenewed lease runs out; the
\* event loop of a living process gets on with its routines.  Nobody has to claim
\* the turn, and its deadline may be far away.
Fairness ==
  /\ \A p \in Procs : WF_vars(Restart(p)) /\ SF_vars(Sweep(p))
  /\ WF_vars(LeaseExpires)
  /\ \A a \in Attempts : WF_vars(Progress(a))

FairSpec == Spec /\ Fairness

-----------------------------------------------------------------------------
(* Type invariant                                                          *)

Rows == [status : {"RUNNING", "DONE", "FAILED"}, token : 0 .. MaxAttempts,
         lease : {"none", "live", "expired"}, attempt : 0 .. MaxAttempts,
         cancel : BOOLEAN, cost : Nat, refunded : BOOLEAN]

Routines == [pc : PCs, proc : Procs \cup {Nobody}, ctl : 0 .. MaxAttempts,
          calls : 0 .. MaxCalls, paid : BOOLEAN, spent : BOOLEAN,
          retry : SUBSET Calls, told : Seq(KeyedOps),
          card : {"no", "ends", "kept"}, key : Keys, op : Ops \cup {NoOp},
          goal : Goals]

\* Every variable stays in its domain.
TypeOK ==
  /\ row \in Rows
  /\ clock \in {"open", "due", "over"}
  /\ messages \in Nat
  /\ journal \in [Keys -> [op : Ops \cup {NoOp}, by : 0 .. MaxAttempts]]
  /\ booked \subseteq Calls
  /\ answer \in [by : 0 .. MaxAttempts, card : CardOps \cup {NoOp}]
  /\ proc \in [Procs -> [mode : {"up", "draining", "down"},
                         running : 0 .. MaxAttempts, stopping : BOOLEAN]]
  /\ abort \in [Attempts -> Reasons]
  /\ run \in [Attempts -> Routines]
  /\ paidFor \subseteq Calls
  /\ gone \subseteq Calls

-----------------------------------------------------------------------------
(* Safety                                                                  *)

\* A turn is DONE exactly when its one answer exists; the answer was written by
\* the last attempt that claimed the turn (never by a stalled predecessor) and
\* carries the card saved in the journal, whichever attempt saved it
\* (finishDone, replayTerminalCard).
DoneHasItsAnswer ==
  /\ row.status = "DONE" <=> answer # NoAnswer
  /\ row.status = "DONE" =>
       /\ answer.by = row.attempt
       /\ answer.card = journal[CardKey].op

\* The quota counter, moved by four different transactions (refundIfFree from
\* a worker, from the sweeper, from "stop", and the recharge of record), agrees
\* with the refund flag, and a turn that the ledger says cost something is
\* charged.
QuotaMatchesRefund ==
  /\ messages = IF row.refunded THEN 0 ELSE 1
  /\ row.refunded => row.cost = 0 /\ row.status # "RUNNING"

\* The cost of the turn counts every paid call of the ledger once, over all
\* attempts and retried bookings, and a paid call is in the ledger, still in the
\* memory of its attempt, or known to be lost (rejected twice, or a crash).
NoPaidCallVanishes ==
  /\ row.cost = Cardinality({c \in booked : c.paid})
  /\ {c \in booked : c.paid} \subseteq paidFor
  /\ paidFor \subseteq booked \cup gone \cup UNION {InMemory(a) : a \in Attempts}

Present(k) == journal[k] # NoEffect

\* Keyed effects fill their keys without gaps, in the order of the attempts: an
\* attempt that lost its lease adds nothing once a later one has written.
EffectsInOrder ==
  \A k \in Keys \ {CardKey} : Present(k) =>
    /\ journal[k].by \in 1 .. row.attempt
    /\ \A j \in 1 .. k - 1 : Present(j) /\ journal[j].by <= journal[k].by

\* What a recovered attempt was told it saved is what the journal holds, in that
\* order: it never gets the result of a different operation, and it never skips
\* past one to start a second version of it (TurnEffects.keyFor, recognize).
ToldMatchesJournal ==
  \A a \in Attempts : \A n \in 1 .. Len(run[a].told) :
    n \in Keys /\ journal[n].op = run[a].told[n]

\* While attempt a holds the lease, the key its transaction is about to fill is
\* still free: EffectAlreadyCommittedError is never met on that path.
CommitKeyIsFree ==
  \A a \in Attempts : At(a, "commit") /\ Held(a) => ~Present(run[a].key)

\* The journal that a recovered attempt goes by: in order, as it was told, and
\* with room where it goes on (TurnEffects.keyFor, recognize, commitFor).
JournalHolds == EffectsInOrder /\ ToldMatchesJournal /\ CommitKeyIsFree

-----------------------------------------------------------------------------
(* Action properties                                                       *)

\* Once a turn is closed, no worker, sweeper or "stop" closes it again, answers
\* it or adds an effect to it, however stale the worker is.
ClosedIsFinal ==
  [][row.status # "RUNNING" =>
       /\ row'.status = row.status
       /\ UNCHANGED <<answer, journal>>
       /\ row'.attempt = row.attempt]_vars

\* An effect is added once, to a turn that is running, by the attempt that
\* claimed it last; effects are never rewritten or removed.
FencedWrites ==
  [][\A k \in Keys : journal'[k] # journal[k] =>
       /\ ~Present(k)
       /\ row.status = "RUNNING"
       /\ journal'[k].by = row.attempt]_vars

-----------------------------------------------------------------------------
(* What a turn promises, whoever executes it                               *)

Contract == INSTANCE TurnContract WITH
  Effects <- Keys \X Ops,
  status <- row.status,
  answered <- answer # NoAnswer,
  effects <- {<<k, journal[k].op>> : k \in {j \in Keys : Present(j)}},
  charged <- messages # 0,
  cost <- row.cost

\* The crashing, racing workers together keep the contract of one turn.
KeepsContract == Contract!Spec

-----------------------------------------------------------------------------
(* Liveness                                                                *)

\* Whatever crashes, and even if nobody claims it, a turn past its deadline is
\* closed: the sweeper of any process that comes back sees to it.
OverdueIsClosed == clock = "over" ~> row.status # "RUNNING"

\* "Stop" is durable: even if its process and the worker die, the turn is closed
\* without waiting for its deadline.
StopEndsTurn == row.cancel ~> row.status # "RUNNING"

-----------------------------------------------------------------------------
(* What comments of the source say and the code does not do                *)

\* finishFailed: one rule for all failures, a turn that spent nothing gives its
\* message back.
FreeFailureIsRefunded ==
  (/\ row.status = "FAILED" /\ paidFor = {}
   /\ \A a \in Attempts : ~At(a, "refund"))
  => row.refunded

\* TurnLedger: a call whose booking was rejected twice was still paid for, so
\* the message may not come back.
RejectedTwiceStaysCharged == gone # {} => ~row.refunded

\* The lease_lost exit of run(): the turn is no longer ours, somebody has taken
\* it over or closed it.
DropMeansLost ==
  \A a \in Attempts : At(a, "settle") /\ run[a].goal = "drop" => ~Held(a)

=============================================================================
