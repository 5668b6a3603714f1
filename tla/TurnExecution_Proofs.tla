------------------------ MODULE TurnExecution_Proofs ------------------------
(***************************************************************************)
(* What holds of TurnExecution for any number of processes, attempts, model*)
(* calls and effects, and whatever faults and events occur.                *)
(*                                                                         *)
(* Types.  TypeOK is not inductive: TypeInv adds what a routine keeps      *)
(* between its steps (Sound) and the kind of the effect under the card's   *)
(* key.                                                                    *)
(*                                                                         *)
(* Safety.  Every step of the system has one of seven shapes as far as the *)
(* row, the quota, the journal and the answer go (Shape), and one of four  *)
(* as far as a routine goes (Steps); Inv is proved from the shapes, and so *)
(* is the refinement of TurnContract.                                      *)
(*                                                                         *)
(* The ledger.  MoneyInv follows every model call from its answer to its   *)
(* row: a call has a number of its own, what an attempt still has to book  *)
(* are its own calls, and a routine that begins or leaves owes nothing.    *)
(***************************************************************************)
EXTENDS TurnExecution, FiniteSetTheorems, TLAPS

-----------------------------------------------------------------------------
(* Types                                                                   *)

\* A claimed routine has its process; one that waits for the model, or is about
\* to book the call, has made one; a pending effect has the key its operation
\* was given.
Sound == {r \in Routines :
  /\ r.pc # "idle" => r.proc \in Procs
  /\ r.pc \in {"model", "record"} => r.calls \in 1 .. MaxCalls
  /\ r.pc = "commit" =>
       /\ r.op \in Ops
       /\ r.key = IF r.op \in CardOps THEN CardKey ELSE Len(r.told) + 1}

TypeInv ==
  /\ TypeOK
  /\ run \in [Attempts -> Sound]
  /\ journal[CardKey].op \in CardOps \cup {NoOp}

\* The constants of the model are in the domains of the fields.
LEMMA Domains ==
  /\ 0 \in 0 .. MaxAttempts
  /\ Attempts \subseteq 0 .. MaxAttempts
  /\ 0 \in 0 .. MaxCalls
  /\ 0 \in Keys
  /\ CardKey \in Keys
  /\ NoOp \in Ops \cup {NoOp}
  /\ <<>> \in Seq(KeyedOps)
  /\ {} \in SUBSET Calls
  BY ConstantsAssumption DEF Attempts, Keys, CardKey

LEMMA DoneIsSound ==
  ASSUME NEW p \in Procs
  PROVE  Done(p) \in Sound
<1>1. /\ {"idle", "ended"} \subseteq PCs
      /\ "none" \in Goals
  BY DEF PCs, Goals
<1>2. Blank \in Routines
  BY <1>1, Domains DEF Blank, Routines
<1>3. Done(p) \in Routines
  BY <1>1, <1>2 DEF Done, Routines
<1>4. Done(p).pc = "ended" /\ Done(p).proc = p
  BY DEF Done, Blank
<1> QED
  BY <1>3, <1>4 DEF Sound

\* Only three program points carry an obligation of their own.
LEMMA Elsewhere ==
  ASSUME NEW r \in Routines, r.pc \notin {"model", "record", "commit"}, r.proc \in Procs
  PROVE  r \in Sound
  BY DEF Sound

LEMMA Claimed ==
  ASSUME TypeInv, NEW a \in Attempts, ~At(a, "idle")
  PROVE  run[a] \in Routines /\ run[a] \in Sound /\ run[a].proc \in Procs
  BY DEF TypeInv, TypeOK, Sound, At

LEMMA RunStep ==
  ASSUME TypeInv, NEW a \in Attempts, NEW r \in Sound, run' = [run EXCEPT ![a] = r]
  PROVE  run' \in [Attempts -> Sound]
  BY DEF TypeInv

LEMMA InitTypeInv == Init => TypeInv
<1> SUFFICES ASSUME Init PROVE TypeInv
  OBVIOUS
<1>1. "none" \in Goals /\ "idle" \in PCs /\ "none" \in Reasons
  BY DEF Goals, PCs, Reasons
<1>2. Blank \in Routines
  BY <1>1, Domains DEF Blank, Routines
<1>3. Blank \in Sound
  BY <1>2 DEF Sound, Blank
<1>4. run \in [Attempts -> Sound] /\ run \in [Attempts -> Routines]
  BY <1>2, <1>3 DEF Init
<1>5. row \in Rows
  BY Domains DEF Init, Rows
<1>6. /\ journal \in [Keys -> [op : Ops \cup {NoOp}, by : 0 .. MaxAttempts]]
      /\ journal[CardKey].op \in CardOps \cup {NoOp}
  BY Domains DEF Init, NoEffect
<1>7. /\ answer \in [by : 0 .. MaxAttempts, card : CardOps \cup {NoOp}]
      /\ proc \in [Procs -> [mode : {"up", "draining", "down"},
                             running : 0 .. MaxAttempts, stopping : BOOLEAN]]
  BY Domains DEF Init, NoAnswer
<1>8. abort \in [Attempts -> Reasons]
  BY <1>1 DEF Init
<1> QED
  BY <1>4, <1>5, <1>6, <1>7, <1>8 DEF Init, TypeInv, TypeOK

-----------------------------------------------------------------------------
(* Types: what the shared operators do                                     *)

LEMMA ThrowType ==
  ASSUME TypeInv, NEW a \in Attempts, NEW reason, ~At(a, "idle"), Throw(a, reason)
  PROVE  run' \in [Attempts -> Sound]
<1> DEFINE r == [run[a] EXCEPT !.pc = "settle", !.goal = GoalFor(reason),
                               !.key = 0, !.op = NoOp]
<1>1. GoalFor(reason) \in Goals /\ "settle" \in PCs
  BY DEF GoalFor, Goals, PCs
<1>2. run[a] \in Routines /\ run[a].proc \in Procs
  BY Claimed
<1>3. r \in Routines
  BY <1>1, <1>2, Domains DEF Routines
<1>4. r.pc = "settle" /\ r.proc = run[a].proc
  BY <1>2 DEF Routines
<1>5. r \in Sound
  BY <1>2, <1>3, <1>4, Elsewhere
<1>6. run' = [run EXCEPT ![a] = r]
  BY DEF Throw
<1> QED
  BY <1>5, <1>6, RunStep

LEMMA GotoType ==
  ASSUME TypeInv, NEW a \in Attempts, NEW pc \in PCs \ {"model", "record", "commit"},
         ~At(a, "idle"), Goto(a, pc)
  PROVE  run' \in [Attempts -> Sound]
<1> DEFINE r == [run[a] EXCEPT !.pc = pc]
<1>1. run[a] \in Routines /\ run[a].proc \in Procs
  BY Claimed
<1>2. r \in Routines /\ r.pc = pc /\ r.proc = run[a].proc
  BY <1>1 DEF Routines
<1>3. r \in Sound
  BY <1>1, <1>2, Elsewhere
<1>4. run' = [run EXCEPT ![a] = r]
  BY DEF Goto
<1> QED
  BY <1>3, <1>4, RunStep

LEMMA EndType ==
  ASSUME TypeInv, NEW a \in Attempts, ~At(a, "idle"), End(a)
  PROVE  /\ run' \in [Attempts -> Sound]
         /\ proc' \in [Procs -> [mode : {"up", "draining", "down"},
                                 running : 0 .. MaxAttempts, stopping : BOOLEAN]]
<1>1. run[a].proc \in Procs
  BY Claimed
<1>2. Done(run[a].proc) \in Sound
  BY <1>1, DoneIsSound
<1>3. run' = [run EXCEPT ![a] = Done(run[a].proc)]
  BY DEF End
<1>4. proc' = [proc EXCEPT ![run[a].proc].running = 0]
  BY DEF End
<1> QED
  BY <1>2, <1>3, <1>4, RunStep, Domains DEF TypeInv, TypeOK

LEMMA AbortType ==
  ASSUME TypeInv, NEW c, NEW reason \in Reasons, AbortCtl(c, reason)
  PROVE  abort' \in [Attempts -> Reasons]
  BY DEF AbortCtl, TypeInv, TypeOK

LEMMA CheckpointType ==
  ASSUME NEW a
  PROVE  Checkpoint(a) \in Reasons
  BY DEF Checkpoint, Reasons

LEMMA RefundType ==
  ASSUME TypeInv, NEW r \in Rows, Refund(r)
  PROVE  row' \in Rows /\ messages' \in Nat
<1>1. [r EXCEPT !.refunded = TRUE] \in Rows
  BY DEF Rows
<1>2. messages \in Nat
  BY DEF TypeInv, TypeOK
<1>3. messages > 0 => messages - 1 \in Nat
  BY <1>2
<1>4. row' \in {r, [r EXCEPT !.refunded = TRUE]}
  BY DEF Refund
<1>5. \/ messages' \in {messages, 0}
      \/ messages > 0 /\ messages' = messages - 1
  BY DEF Refund
<1>6. messages' \in Nat
  BY <1>2, <1>3, <1>5
<1> QED
  BY <1>1, <1>4, <1>6

LEMMA BookType ==
  ASSUME TypeInv, NEW c \in Calls, NEW outcome, TryBook(c, outcome)
  PROVE  row' \in Rows /\ messages' \in Nat /\ booked' \subseteq Calls
<1>1. row \in Rows /\ messages \in Nat /\ booked \subseteq Calls
  BY DEF TypeInv, TypeOK
<1>2. row.cost + 1 \in Nat
  BY <1>1 DEF Rows
<1>3. [row EXCEPT !.cost = row.cost + 1, !.refunded = FALSE] \in Rows
  BY <1>1, <1>2 DEF Rows
<1> DEFINE charged == [row EXCEPT !.cost = row.cost + 1, !.refunded = FALSE]
<1>4. row' \in {row, charged} /\ messages' \in {messages, messages + 1}
      /\ booked' \in {booked, booked \cup {c}}
  BY DEF TryBook, Book
<1> QED
  BY <1>1, <1>3, <1>4

LEMMA RowType ==
  ASSUME TypeInv
  PROVE  /\ \A s \in {"RUNNING", "DONE", "FAILED"} : Closed(s) \in Rows
         /\ Released \in Rows
         /\ [row EXCEPT !.cancel = TRUE] \in Rows
         /\ \A l \in {"none", "live", "expired"} : [row EXCEPT !.lease = l] \in Rows
         /\ \A a \in Attempts :
              [row EXCEPT !.token = a, !.lease = "live", !.attempt = a] \in Rows
<1>1. row \in Rows
  BY DEF TypeInv, TypeOK
<1>2. \A s \in {"RUNNING", "DONE", "FAILED"} : Closed(s) \in Rows
  BY <1>1 DEF Closed, Rows
<1>3. Released \in Rows
  BY <1>1, Domains DEF Released, Rows
<1>4. [row EXCEPT !.cancel = TRUE] \in Rows
  BY <1>1 DEF Rows
<1>5. \A l \in {"none", "live", "expired"} : [row EXCEPT !.lease = l] \in Rows
  BY <1>1 DEF Rows
<1>6. ASSUME NEW a \in Attempts
      PROVE  [row EXCEPT !.token = a, !.lease = "live", !.attempt = a] \in Rows
  BY <1>1, Domains DEF Rows
<1> QED
  BY <1>2, <1>3, <1>4, <1>5, <1>6

-----------------------------------------------------------------------------
(* Types: the steps of a routine                                           *)

LEMMA TypeInv_TakeClaim ==
  ASSUME TypeInv, NEW a \in Attempts, TakeClaim(a)
  PROVE  TypeInv'
<1>1. UNCHANGED <<clock, messages, journal, booked, answer, abort, paidFor, gone>>
  BY DEF TakeClaim
<1>2. row' \in Rows
  BY RowType DEF TakeClaim, TypeInv, TypeOK
<1>3. proc' \in [Procs -> [mode : {"up", "draining", "down"},
                           running : 0 .. MaxAttempts, stopping : BOOLEAN]]
  BY Domains DEF TakeClaim, TypeInv, TypeOK
<1>4. "reserved" \in PCs \ {"model", "record", "commit"}
  BY DEF PCs
<1>5. ~At(a, "idle")
  BY DEF TakeClaim, At
<1>6. Goto(a, "reserved") \/ run' = [run EXCEPT ![a] = Done(run[a].proc)]
  BY DEF TakeClaim
<1>7. run' \in [Attempts -> Sound]
  BY <1>4, <1>5, <1>6, Claimed, GotoType, DoneIsSound, RunStep
<1> QED
  BY <1>1, <1>2, <1>3, <1>7 DEF TypeInv, TypeOK, Sound

LEMMA TypeInv_Start ==
  ASSUME TypeInv, NEW a \in Attempts, Start(a)
  PROVE  TypeInv'
<1> DEFINE p == run[a].proc
           fresh == proc[p].running = 0
           c == IF fresh THEN a ELSE proc[p].running
           reason == IF fresh THEN "none" ELSE abort[c]
           pc == IF reason = "none" THEN "prelude" ELSE "settle"
           goal == IF reason = "none" THEN "none" ELSE GoalFor(reason)
           r == [run[a] EXCEPT !.ctl = c, !.pc = pc, !.goal = goal]
<1>1. run[a] \in Routines /\ p \in Procs
  BY Claimed DEF Start, At
<1>2. proc[p].running \in 0 .. MaxAttempts
  BY <1>1 DEF TypeInv, TypeOK
<1>3. c \in Attempts
  BY <1>2 DEF Attempts
<1>4. reason \in Reasons
  BY <1>3 DEF TypeInv, TypeOK, Reasons
<1>5. pc \in PCs /\ goal \in Goals
  BY DEF PCs, Goals, GoalFor
<1>6. /\ run' = [run EXCEPT ![a] = r]
      /\ proc' = [proc EXCEPT ![p].running = c]
      /\ abort' = [abort EXCEPT ![c] = reason]
      /\ UNCHANGED <<row, clock, messages, journal, booked, answer, paidFor, gone>>
  BY DEF Start
<1>7. pc \notin {"model", "record", "commit"}
  OBVIOUS
<1> HIDE DEF c, reason, pc, goal
<1>8. r \in Routines /\ r.pc = pc /\ r.proc = p
  BY <1>1, <1>3, <1>5, Domains DEF Routines
<1>9. run' \in [Attempts -> Sound]
  <2>1. r \in Sound
    BY <1>1, <1>7, <1>8, Elsewhere
  <2> QED
    BY <2>1, <1>6, RunStep
<1>10. proc' \in [Procs -> [mode : {"up", "draining", "down"},
                            running : 0 .. MaxAttempts, stopping : BOOLEAN]]
  BY <1>3, <1>6, Domains DEF TypeInv, TypeOK
<1>11. abort' \in [Attempts -> Reasons]
  BY <1>4, <1>6 DEF TypeInv, TypeOK
<1> QED
  BY <1>6, <1>9, <1>10, <1>11 DEF TypeInv, TypeOK, Sound

LEMMA TypeInv_StartFails ==
  ASSUME TypeInv, NEW a \in Attempts, StartFails(a)
  PROVE  TypeInv'
<1>1. ~At(a, "idle") /\ End(a)
  BY DEF StartFails, At
<1>2. UNCHANGED <<row, clock, messages, journal, booked, answer, abort, paidFor, gone>>
  BY DEF StartFails
<1> QED
  BY <1>1, <1>2, EndType DEF TypeInv, TypeOK, Sound

LEMMA TypeInv_Prelude ==
  ASSUME TypeInv, NEW a \in Attempts, Prelude(a)
  PROVE  TypeInv'
<1> DEFINE r == [run[a] EXCEPT !.pc = "settle", !.goal = "replay"]
<1>1. {"settle", "check"} \subseteq PCs /\ "replay" \in Goals
  BY DEF PCs, Goals
<1>2. ~At(a, "idle")
  BY DEF Prelude, At
<1>3. run[a] \in Routines /\ run[a].proc \in Procs
  BY <1>2, Claimed
<1>4. r \in Routines /\ r.pc = "settle" /\ r.proc = run[a].proc
  BY <1>1, <1>3 DEF Routines
<1>5. r \in Sound
  BY <1>3, <1>4, Elsewhere
<1>6. run' = [run EXCEPT ![a] = r] \/ Goto(a, "check")
  BY DEF Prelude
<1> HIDE DEF r
<1>7. run' \in [Attempts -> Sound]
  BY <1>1, <1>2, <1>5, <1>6, GotoType, RunStep
<1>8. UNCHANGED <<row, clock, messages, journal, booked, answer, proc, abort,
                  paidFor, gone>>
  BY DEF Prelude
<1> QED
  BY <1>7, <1>8 DEF TypeInv, TypeOK, Sound

LEMMA TypeInv_FirstCheck ==
  ASSUME TypeInv, NEW a \in Attempts, FirstCheck(a)
  PROVE  TypeInv'
<1>1. ~At(a, "idle") /\ AbortCtl(run[a].ctl, Checkpoint(a))
  BY DEF FirstCheck, At
<1>2. Goto(a, "round") \/ Throw(a, ReasonAfter(a))
  BY DEF FirstCheck
<1>3. "round" \in PCs \ {"model", "record", "commit"}
  BY DEF PCs
<1>4. run' \in [Attempts -> Sound]
  BY <1>1, <1>2, <1>3, GotoType, ThrowType
<1>5. abort' \in [Attempts -> Reasons]
  BY <1>1, AbortType, CheckpointType
<1>6. UNCHANGED <<row, clock, messages, journal, booked, answer, proc, paidFor, gone>>
  BY DEF FirstCheck
<1> QED
  BY <1>4, <1>5, <1>6 DEF TypeInv, TypeOK, Sound

LEMMA TypeInv_Round ==
  ASSUME TypeInv, NEW a \in Attempts, Round(a)
  PROVE  TypeInv'
<1>1. ~At(a, "idle")
  BY DEF Round, At
<1>2. UNCHANGED <<row, clock, messages, journal, booked, answer, proc, abort,
                  paidFor, gone>>
  BY DEF Round
<1>3. CASE Throw(a, Ctl(a))
  BY <1>1, <1>2, <1>3, ThrowType DEF TypeInv, TypeOK, Sound
<1>4. CASE /\ run[a].calls < MaxCalls
           /\ run' = [run EXCEPT ![a].pc = "model", ![a].calls = @ + 1]
  <2> DEFINE n == run[a].calls + 1
             r == [run[a] EXCEPT !.pc = "model", !.calls = n]
  <2>1. run[a] \in Routines /\ run[a].proc \in Procs
    BY <1>1, Claimed
  <2>2. n \in 1 .. MaxCalls /\ n \in 0 .. MaxCalls
    BY <1>4, <2>1, ConstantsAssumption DEF Routines
  <2>3. "model" \in PCs
    BY DEF PCs
  <2>4. run' = [run EXCEPT ![a] = r]
    BY <1>4
  <2> HIDE DEF n
  <2>5. /\ r \in Routines /\ r.pc = "model" /\ r.calls = n
        /\ r.proc = run[a].proc
    BY <2>1, <2>2, <2>3 DEF Routines
  <2>6. r \in Sound
    BY <2>1, <2>2, <2>5 DEF Sound
  <2>7. run' \in [Attempts -> Sound]
    BY <2>4, <2>6, RunStep
  <2> QED
    BY <1>2, <2>7 DEF TypeInv, TypeOK, Sound
<1> QED
  BY <1>3, <1>4 DEF Round

LEMMA TypeInv_ModelReturns ==
  ASSUME TypeInv, NEW a \in Attempts, ModelReturns(a)
  PROVE  TypeInv'
<1>1. PICK paid \in Costs :
        /\ run' = [run EXCEPT ![a].pc = "record", ![a].paid = paid,
                              ![a].spent = @ \/ paid]
        /\ paidFor' = IF paid
                      THEN paidFor \cup {[by |-> a, idx |-> run[a].calls, paid |-> TRUE]}
                      ELSE paidFor
  BY DEF ModelReturns
<1> DEFINE spent == run[a].spent \/ paid
           r == [run[a] EXCEPT !.pc = "record", !.paid = paid, !.spent = spent]
<1>2. /\ run[a] \in Routines /\ run[a].proc \in Procs
      /\ run[a].calls \in 1 .. MaxCalls
  BY Claimed DEF ModelReturns, At, Sound
<1>3. paid \in BOOLEAN /\ spent \in BOOLEAN /\ "record" \in PCs
  BY <1>2, ConstantsAssumption DEF Routines, PCs
<1>4. run' = [run EXCEPT ![a] = r]
  BY <1>1
<1> HIDE DEF spent
<1>5. /\ r \in Routines /\ r.pc = "record" /\ r.calls = run[a].calls
      /\ r.proc = run[a].proc
  BY <1>2, <1>3 DEF Routines
<1>6. r \in Sound
  BY <1>2, <1>5 DEF Sound
<1>7. run' \in [Attempts -> Sound]
  BY <1>4, <1>6, RunStep
<1>8. paidFor' \subseteq Calls
  <2>1. [by |-> a, idx |-> run[a].calls, paid |-> TRUE] \in Calls
    BY <1>2 DEF Calls
  <2>2. paidFor \subseteq Calls
    BY DEF TypeInv, TypeOK
  <2> QED
    BY <1>1, <2>1, <2>2
<1>9. UNCHANGED <<row, clock, messages, journal, booked, answer, proc, abort, gone>>
  BY DEF ModelReturns
<1> QED
  BY <1>7, <1>8, <1>9 DEF TypeInv, TypeOK, Sound

LEMMA TypeInv_ModelFails ==
  ASSUME TypeInv, NEW a \in Attempts, ModelFails(a)
  PROVE  TypeInv'
<1>1. ~At(a, "idle") /\ Throw(a, Ctl(a))
  BY DEF ModelFails, At
<1>2. UNCHANGED <<row, clock, messages, journal, booked, answer, proc, abort,
                  paidFor, gone>>
  BY DEF ModelFails
<1> QED
  BY <1>1, <1>2, ThrowType DEF TypeInv, TypeOK, Sound

LEMMA LastCallType ==
  ASSUME TypeInv, NEW a \in Attempts, At(a, "record")
  PROVE  LastCall(a) \in Calls
<1>1. run[a] \in Routines /\ run[a].calls \in 1 .. MaxCalls
  BY Claimed DEF At, Sound
<1> QED
  BY <1>1 DEF LastCall, Calls, Routines

LEMMA TypeInv_Record ==
  ASSUME TypeInv, NEW a \in Attempts, Record(a)
  PROVE  TypeInv'
<1>1. PICK outcome \in Outcomes :
        /\ TryBook(LastCall(a), outcome)
        /\ run' = [run EXCEPT ![a].pc = "decide",
             ![a].retry = IF outcome = "ok" THEN @ ELSE @ \cup {LastCall(a)}]
  BY DEF Record
<1> DEFINE retry == IF outcome = "ok" THEN run[a].retry
                    ELSE run[a].retry \cup {LastCall(a)}
           r == [run[a] EXCEPT !.pc = "decide", !.retry = retry]
<1>2. LastCall(a) \in Calls
  BY LastCallType DEF Record
<1>3. run[a] \in Routines /\ run[a].proc \in Procs
  BY Claimed DEF Record, At
<1>4. retry \in SUBSET Calls /\ "decide" \in PCs
  BY <1>2, <1>3 DEF Routines, PCs
<1>5. run' = [run EXCEPT ![a] = r]
  BY <1>1
<1> HIDE DEF retry
<1>6. r \in Routines /\ r.pc = "decide" /\ r.proc = run[a].proc
  BY <1>3, <1>4 DEF Routines
<1>7. r \in Sound
  BY <1>3, <1>6, Elsewhere
<1>8. run' \in [Attempts -> Sound]
  BY <1>5, <1>7, RunStep
<1>9. row' \in Rows /\ messages' \in Nat /\ booked' \subseteq Calls
  BY <1>1, <1>2, BookType
<1>10. UNCHANGED <<clock, journal, answer, proc, abort, paidFor, gone>>
  BY DEF Record
<1> QED
  BY <1>8, <1>9, <1>10 DEF TypeInv, TypeOK, Sound

LEMMA TypeInv_Decide ==
  ASSUME TypeInv, NEW a \in Attempts, Decide(a)
  PROVE  TypeInv'
<1> DEFINE r == [run[a] EXCEPT !.pc = "settle", !.goal = "answer"]
<1>1. ~At(a, "idle")
  BY DEF Decide, At
<1>2. run[a] \in Routines /\ run[a].proc \in Procs
  BY <1>1, Claimed
<1>3. /\ {"settle", "tools"} \subseteq PCs \ {"model", "record", "commit"}
      /\ "answer" \in Goals
  BY DEF PCs, Goals
<1>4. r \in Routines /\ r.pc = "settle" /\ r.proc = run[a].proc
  BY <1>2, <1>3 DEF Routines
<1>5. r \in Sound
  BY <1>2, <1>4, Elsewhere
<1>6. \/ Throw(a, Ctl(a))
      \/ run' = [run EXCEPT ![a] = r]
      \/ Goto(a, "tools")
  BY DEF Decide
<1> HIDE DEF r
<1>7. run' \in [Attempts -> Sound]
  BY <1>1, <1>3, <1>5, <1>6, ThrowType, GotoType, RunStep
<1>8. UNCHANGED <<row, clock, messages, journal, booked, answer, proc, abort,
                  paidFor, gone>>
  BY DEF Decide
<1> QED
  BY <1>7, <1>8 DEF TypeInv, TypeOK, Sound

\* What the journal answers, the transaction reports or the failure tells leads
\* back to the tools.
LEMMA ToolsType ==
  ASSUME TypeInv, NEW a \in Attempts, ~At(a, "idle"),
         NEW told \in Seq(KeyedOps), NEW card \in {"no", "ends", "kept"},
         run' = [run EXCEPT ![a] = [run[a] EXCEPT !.pc = "tools", !.key = 0,
                                      !.op = NoOp, !.told = told, !.card = card]]
  PROVE  run' \in [Attempts -> Sound]
<1> DEFINE r == [run[a] EXCEPT !.pc = "tools", !.key = 0, !.op = NoOp,
                               !.told = told, !.card = card]
<1>1. run[a] \in Routines /\ run[a].proc \in Procs
  BY Claimed
<1>2. "tools" \in PCs
  BY DEF PCs
<1>3. r \in Routines /\ r.pc = "tools" /\ r.proc = run[a].proc
  BY <1>1, <1>2, Domains DEF Routines
<1>4. r \in Sound
  BY <1>1, <1>3, Elsewhere
<1> QED
  BY <1>4, RunStep

LEMMA RecognizeType ==
  ASSUME TypeInv, NEW a \in Attempts, ~At(a, "idle"), NEW key, NEW op,
         Recognize(a, key, op)
  PROVE  run' \in [Attempts -> Sound]
<1> DEFINE same == journal[key].op = op
           told == IF same /\ op \in KeyedOps THEN Append(run[a].told, op)
                   ELSE run[a].told
           card == IF op \in KeyedOps THEN run[a].card
                   ELSE IF same THEN "ends" ELSE "kept"
<1>1. run[a] \in Routines
  BY Claimed
<1>2. run[a].told \in Seq(KeyedOps) /\ run[a].card \in {"no", "ends", "kept"}
  BY <1>1 DEF Routines
<1>3. told \in Seq(KeyedOps)
  BY <1>2
<1>4. card \in {"no", "ends", "kept"}
  BY <1>2
<1>5. run' = [run EXCEPT ![a] = [run[a] EXCEPT !.pc = "tools", !.key = 0,
                                   !.op = NoOp, !.told = told, !.card = card]]
  BY DEF Recognize
<1> HIDE DEF told, card
<1> QED
  BY <1>3, <1>4, <1>5, ToolsType

LEMMA ToldType ==
  ASSUME TypeInv, NEW a \in Attempts, ~At(a, "idle"), Told(a)
  PROVE  run' \in [Attempts -> Sound]
<1> DEFINE op == run[a].op
           told == IF op \in KeyedOps THEN Append(run[a].told, op) ELSE run[a].told
           card == IF op \in CardOps THEN "ends" ELSE run[a].card
<1>1. run[a] \in Routines
  BY Claimed
<1>2. run[a].told \in Seq(KeyedOps) /\ run[a].card \in {"no", "ends", "kept"}
  BY <1>1 DEF Routines
<1>3. told \in Seq(KeyedOps)
  BY <1>2
<1>4. card \in {"no", "ends", "kept"}
  BY <1>2
<1>5. run' = [run EXCEPT ![a] = [run[a] EXCEPT !.pc = "tools", !.key = 0,
                                   !.op = NoOp, !.told = told, !.card = card]]
  BY DEF Told
<1> HIDE DEF told, card
<1> QED
  BY <1>3, <1>4, <1>5, ToolsType

LEMMA RefusedType ==
  ASSUME TypeInv, NEW a \in Attempts, ~At(a, "idle"), Refused(a)
  PROVE  run' \in [Attempts -> Sound]
<1> DEFINE r == [run[a] EXCEPT !.pc = "tools", !.key = 0, !.op = NoOp]
<1>1. run[a] \in Routines /\ run[a].proc \in Procs
  BY Claimed
<1>2. "tools" \in PCs
  BY DEF PCs
<1>3. r \in Routines /\ r.pc = "tools" /\ r.proc = run[a].proc
  BY <1>1, <1>2, Domains DEF Routines
<1>4. r \in Sound
  BY <1>1, <1>3, Elsewhere
<1>5. run' = [run EXCEPT ![a] = r]
  BY DEF Refused
<1> QED
  BY <1>4, <1>5, RunStep

LEMMA TypeInv_CallTool ==
  ASSUME TypeInv, NEW a \in Attempts, NEW op \in Ops, CallTool(a, op)
  PROVE  TypeInv'
<1> DEFINE key == KeyFor(a, op)
           r == [run[a] EXCEPT !.pc = "commit", !.key = key, !.op = op]
<1>1. ~At(a, "idle") /\ key \in Keys
  BY DEF CallTool, At
<1>2. \/ Recognize(a, key, op) /\ UNCHANGED abort
      \/ /\ AbortCtl(run[a].ctl, Checkpoint(a))
         /\ UNCHANGED run \/ run' = [run EXCEPT ![a] = r]
  BY DEF CallTool
<1>3. abort' \in [Attempts -> Reasons]
  BY <1>2, AbortType, CheckpointType DEF TypeInv, TypeOK
<1>4. run[a] \in Routines /\ run[a].proc \in Procs
  BY <1>1, Claimed
<1>5. "commit" \in PCs
  BY DEF PCs
<1>6. key = IF op \in CardOps THEN CardKey ELSE Len(run[a].told) + 1
  BY DEF KeyFor
<1> HIDE DEF key
<1>7. /\ r \in Routines /\ r.pc = "commit" /\ r.proc = run[a].proc
      /\ r.key = key /\ r.op = op /\ r.told = run[a].told
  BY <1>1, <1>4, <1>5 DEF Routines
<1>8. r \in Sound
  BY <1>4, <1>6, <1>7 DEF Sound
<1> HIDE DEF r
<1>9. run' \in [Attempts -> Sound]
  BY <1>1, <1>2, <1>8, RecognizeType, RunStep DEF TypeInv
<1>10. UNCHANGED <<row, clock, messages, journal, booked, answer, proc, paidFor, gone>>
  BY DEF CallTool
<1> QED
  BY <1>3, <1>9, <1>10 DEF TypeInv, TypeOK, Sound

LEMMA TypeInv_Commit ==
  ASSUME TypeInv, NEW a \in Attempts, Commit(a)
  PROVE  TypeInv'
<1> DEFINE key == run[a].key
           effect == [op |-> run[a].op, by |-> a]
<1>1. ~At(a, "idle") /\ run[a].pc = "commit"
  BY DEF Commit, At
<1>2. /\ run[a] \in Routines
      /\ run[a].op \in Ops
      /\ key = IF run[a].op \in CardOps THEN CardKey ELSE Len(run[a].told) + 1
  BY <1>1, Claimed DEF Sound
<1>3. /\ AbortCtl(run[a].ctl, "lease_lost") \/ UNCHANGED abort
      /\ Refused(a) \/ Recognize(a, key, run[a].op) \/ Told(a)
      /\ journal' \in {journal, [journal EXCEPT ![key] = effect]}
      /\ UNCHANGED <<row, clock, messages, booked, answer, proc, paidFor, gone>>
  BY DEF Commit
<1>4. run' \in [Attempts -> Sound]
  BY <1>1, <1>3, RefusedType, RecognizeType, ToldType
<1>5. abort' \in [Attempts -> Reasons]
  <2>1. "lease_lost" \in Reasons
    BY DEF Reasons
  <2> QED
    BY <1>3, <2>1, AbortType DEF TypeInv, TypeOK
<1>6. effect \in [op : Ops \cup {NoOp}, by : 0 .. MaxAttempts]
  BY <1>2, Domains
<1>7. journal' \in [Keys -> [op : Ops \cup {NoOp}, by : 0 .. MaxAttempts]]
  BY <1>3, <1>6 DEF TypeInv, TypeOK
<1>8. journal'[CardKey].op \in CardOps \cup {NoOp}
  <2>1. Len(run[a].told) + 1 # CardKey
    BY <1>2 DEF Routines, CardKey
  <2>2. key = CardKey => run[a].op \in CardOps
    BY <1>2, <2>1
  <2>3. journal[CardKey].op \in CardOps \cup {NoOp}
    BY DEF TypeInv
  <2>4. CASE journal' = journal
    BY <2>3, <2>4
  <2>5. CASE journal' = [journal EXCEPT ![key] = effect] /\ key = CardKey
    <3>1. journal'[CardKey] = effect
      BY <2>5, Domains DEF TypeInv, TypeOK
    <3> QED
      BY <2>2, <2>5, <3>1
  <2>6. CASE journal' = [journal EXCEPT ![key] = effect] /\ key # CardKey
    <3>1. journal'[CardKey] = journal[CardKey]
      BY <2>6, Domains DEF TypeInv, TypeOK
    <3> QED
      BY <2>3, <3>1
  <2> QED
    BY <1>3, <2>4, <2>5, <2>6
<1> QED
  BY <1>3, <1>4, <1>5, <1>7, <1>8 DEF TypeInv, TypeOK, Sound

LEMMA TypeInv_CardEndsTurn ==
  ASSUME TypeInv, NEW a \in Attempts, CardEndsTurn(a)
  PROVE  TypeInv'
<1> DEFINE r == [run[a] EXCEPT !.pc = "settle", !.goal = "answer"]
<1>1. "settle" \in PCs /\ "answer" \in Goals
  BY DEF PCs, Goals
<1>2. run[a] \in Routines /\ run[a].proc \in Procs
  BY Claimed DEF CardEndsTurn, At
<1>3. r \in Routines /\ r.pc = "settle" /\ r.proc = run[a].proc
  BY <1>1, <1>2 DEF Routines
<1>4. r \in Sound
  BY <1>2, <1>3, Elsewhere
<1>5. run' = [run EXCEPT ![a] = r]
  BY DEF CardEndsTurn
<1>6. run' \in [Attempts -> Sound]
  BY <1>4, <1>5, RunStep
<1>7. UNCHANGED <<row, clock, messages, journal, booked, answer, proc, abort,
                  paidFor, gone>>
  BY DEF CardEndsTurn
<1> QED
  BY <1>6, <1>7 DEF TypeInv, TypeOK, Sound

LEMMA TypeInv_EndTools ==
  ASSUME TypeInv, NEW a \in Attempts, EndTools(a)
  PROVE  TypeInv'
<1> DEFINE card == IF run[a].card = "ends" THEN "kept" ELSE run[a].card
           r == [run[a] EXCEPT !.pc = "round", !.card = card]
<1>1. "round" \in PCs
  BY DEF PCs
<1>2. run[a] \in Routines /\ run[a].proc \in Procs
  BY Claimed DEF EndTools, At
<1>3. card \in {"no", "ends", "kept"}
  BY <1>2 DEF Routines
<1>4. run' = [run EXCEPT ![a] = r]
  BY DEF EndTools
<1> HIDE DEF card
<1>5. r \in Routines /\ r.pc = "round" /\ r.proc = run[a].proc
  BY <1>1, <1>2, <1>3 DEF Routines
<1>6. r \in Sound
  BY <1>2, <1>5, Elsewhere
<1>7. run' \in [Attempts -> Sound]
  BY <1>4, <1>6, RunStep
<1>8. abort' \in [Attempts -> Reasons]
  BY AbortType, CheckpointType DEF EndTools
<1>9. UNCHANGED <<row, clock, messages, journal, booked, answer, proc, paidFor, gone>>
  BY DEF EndTools
<1> QED
  BY <1>7, <1>8, <1>9 DEF TypeInv, TypeOK, Sound

LEMMA TypeInv_Settle ==
  ASSUME TypeInv, NEW a \in Attempts, Settle(a)
  PROVE  TypeInv'
<1>1. PICK c \in run[a].retry, outcome \in Outcomes :
        /\ TryBook(c, outcome)
        /\ run' = [run EXCEPT ![a].retry = @ \ {c}]
        /\ gone' = IF c.paid /\ c \notin booked' THEN gone \cup {c} ELSE gone
  BY DEF Settle
<1> DEFINE retry == run[a].retry \ {c}
           r == [run[a] EXCEPT !.retry = retry]
<1>2. run[a] \in Routines /\ run[a].proc \in Procs /\ run[a].pc = "settle"
  BY Claimed DEF Settle, At
<1>3. c \in Calls /\ retry \in SUBSET Calls
  BY <1>1, <1>2 DEF Routines
<1>4. run' = [run EXCEPT ![a] = r]
  BY <1>1
<1> HIDE DEF retry
<1>5. r \in Routines /\ r.pc = "settle" /\ r.proc = run[a].proc
  BY <1>2, <1>3 DEF Routines
<1>6. r \in Sound
  BY <1>2, <1>5, Elsewhere
<1>7. run' \in [Attempts -> Sound]
  BY <1>4, <1>6, RunStep
<1>8. row' \in Rows /\ messages' \in Nat /\ booked' \subseteq Calls
  BY <1>1, <1>3, BookType
<1>9. gone' \subseteq Calls
  BY <1>1, <1>3 DEF TypeInv, TypeOK
<1>10. UNCHANGED <<clock, journal, answer, proc, abort, paidFor>>
  BY DEF Settle
<1> QED
  BY <1>7, <1>8, <1>9, <1>10 DEF TypeInv, TypeOK, Sound

LEMMA TypeInv_Answer ==
  ASSUME TypeInv, NEW a \in Attempts, Answer(a)
  PROVE  TypeInv'
<1> DEFINE text == [by |-> a, card |-> journal[CardKey].op]
<1>1. ~At(a, "idle")
  BY DEF Answer, Settled, At
<1>2. /\ (Throw(a, Ctl(a)) /\ UNCHANGED proc) \/ End(a)
      /\ \/ Refund(Closed("DONE"))
         \/ row' \in {row, Closed("DONE")} /\ UNCHANGED messages
      /\ answer' \in {answer, text}
      /\ UNCHANGED <<clock, journal, booked, abort, paidFor, gone>>
  BY DEF Answer
<1>3. /\ run' \in [Attempts -> Sound]
      /\ proc' \in [Procs -> [mode : {"up", "draining", "down"},
                              running : 0 .. MaxAttempts, stopping : BOOLEAN]]
  BY <1>1, <1>2, ThrowType, EndType DEF TypeInv, TypeOK
<1>4. row \in Rows /\ messages \in Nat /\ Closed("DONE") \in Rows
  BY RowType DEF TypeInv, TypeOK
<1>5. row' \in Rows /\ messages' \in Nat
  BY <1>2, <1>4, RefundType
<1>6. text \in [by : 0 .. MaxAttempts, card : CardOps \cup {NoOp}]
  BY Domains DEF TypeInv
<1>7. answer' \in [by : 0 .. MaxAttempts, card : CardOps \cup {NoOp}]
  BY <1>2, <1>6 DEF TypeInv, TypeOK
<1> QED
  BY <1>2, <1>3, <1>5, <1>7 DEF TypeInv, TypeOK, Sound

LEMMA TypeInv_Fail ==
  ASSUME TypeInv, NEW a \in Attempts, Fail(a)
  PROVE  TypeInv'
<1>1. ~At(a, "idle")
  BY DEF Fail, Settled, At
<1>2. "refund" \in PCs \ {"model", "record", "commit"}
  BY DEF PCs
<1>3. /\ (Goto(a, "refund") /\ UNCHANGED proc) \/ End(a)
      /\ row' \in {row, Closed("FAILED")}
      /\ UNCHANGED <<clock, messages, journal, booked, answer, abort, paidFor, gone>>
  BY DEF Fail
<1>4. /\ run' \in [Attempts -> Sound]
      /\ proc' \in [Procs -> [mode : {"up", "draining", "down"},
                              running : 0 .. MaxAttempts, stopping : BOOLEAN]]
  BY <1>1, <1>2, <1>3, GotoType, EndType DEF TypeInv, TypeOK
<1>5. row' \in Rows
  BY <1>3, RowType DEF TypeInv, TypeOK
<1> QED
  BY <1>3, <1>4, <1>5 DEF TypeInv, TypeOK, Sound

LEMMA TypeInv_FailRefund ==
  ASSUME TypeInv, NEW a \in Attempts, FailRefund(a)
  PROVE  TypeInv'
<1>1. ~At(a, "idle")
  BY DEF FailRefund, At
<1>2. /\ Refund(row) \/ UNCHANGED <<row, messages>>
      /\ End(a)
      /\ UNCHANGED <<clock, journal, booked, answer, abort, paidFor, gone>>
  BY DEF FailRefund
<1>3. row' \in Rows /\ messages' \in Nat
  BY <1>2, RefundType DEF TypeInv, TypeOK
<1> QED
  BY <1>1, <1>2, <1>3, EndType DEF TypeInv, TypeOK, Sound

LEMMA TypeInv_AlreadyClosed ==
  ASSUME TypeInv, NEW a \in Attempts, AlreadyClosed(a)
  PROVE  TypeInv'
<1>1. ~At(a, "idle")
  BY DEF AlreadyClosed, Settled, At
<1>2. /\ End(a)
      /\ UNCHANGED <<row, clock, messages, journal, booked, answer, abort,
                     paidFor, gone>>
  BY DEF AlreadyClosed
<1> QED
  BY <1>1, <1>2, EndType DEF TypeInv, TypeOK, Sound

LEMMA TypeInv_GiveUp ==
  ASSUME TypeInv, NEW a \in Attempts, GiveUp(a)
  PROVE  TypeInv'
<1>1. ~At(a, "idle")
  BY DEF GiveUp, Settled, At
<1>2. /\ End(a)
      /\ row' \in {row, Released}
      /\ UNCHANGED <<clock, messages, journal, booked, answer, abort, paidFor, gone>>
  BY DEF GiveUp
<1>3. row' \in Rows
  BY <1>2, RowType DEF TypeInv, TypeOK
<1> QED
  BY <1>1, <1>2, <1>3, EndType DEF TypeInv, TypeOK, Sound

\* The timers of a routine extend the lease and abort the controller.
LEMMA TypeInv_Timers ==
  ASSUME TypeInv, NEW a \in Attempts,
         Renew(a) \/ RenewGivesUp(a) \/ DeadlineTimer(a)
  PROVE  TypeInv'
<1>1. {"cancelled", "none", "lease_lost", "timeout"} \subseteq Reasons
  BY DEF Reasons
<1>2. PICK reason \in Reasons : AbortCtl(run[a].ctl, reason)
  BY <1>1 DEF Renew, RenewGivesUp, DeadlineTimer
<1>3. abort' \in [Attempts -> Reasons]
  BY <1>2, AbortType
<1>4. /\ row' \in {row, [row EXCEPT !.lease = "live"]}
      /\ UNCHANGED <<clock, messages, journal, booked, answer, proc, run,
                     paidFor, gone>>
  BY DEF Renew, RenewGivesUp, DeadlineTimer
<1>5. row' \in Rows
  BY <1>4, RowType DEF TypeInv, TypeOK
<1> QED
  BY <1>3, <1>4, <1>5 DEF TypeInv, TypeOK, Sound

-----------------------------------------------------------------------------
(* Types: the steps of processes and of time                               *)

LEMMA TypeInv_Claim ==
  ASSUME TypeInv, NEW p \in Procs, Claim(p)
  PROVE  TypeInv'
<1> DEFINE a == row.attempt + 1
           r == [run[a] EXCEPT !.pc = "claimed", !.proc = p]
<1>1. row.attempt \in 0 .. MaxAttempts /\ row.attempt < MaxAttempts
  BY DEF Claim, TypeInv, TypeOK, Rows
<1>2. a \in Attempts
  BY <1>1, ConstantsAssumption DEF Attempts
<1>3. /\ row' = [row EXCEPT !.token = a, !.lease = "live", !.attempt = a]
      /\ run' = [run EXCEPT ![a] = r]
      /\ UNCHANGED <<clock, messages, journal, booked, answer, proc, abort,
                     paidFor, gone>>
  BY DEF Claim
<1> HIDE DEF a
<1>4. run[a] \in Routines
  BY <1>2 DEF TypeInv, TypeOK
<1>5. "claimed" \in PCs
  BY DEF PCs
<1>6. r \in Routines /\ r.pc = "claimed" /\ r.proc = p
  BY <1>4, <1>5 DEF Routines
<1>7. r \in Sound
  BY <1>6, Elsewhere
<1>8. run' \in [Attempts -> Sound]
  BY <1>2, <1>3, <1>7, RunStep
<1>9. row' \in Rows
  BY <1>2, <1>3, RowType
<1> QED
  BY <1>3, <1>8, <1>9 DEF TypeInv, TypeOK, Sound

LEMMA TypeInv_Sweep ==
  ASSUME TypeInv, NEW p \in Procs, Sweep(p)
  PROVE  TypeInv'
<1>1. /\ Refund(Closed("FAILED"))
      /\ UNCHANGED <<clock, journal, booked, answer, proc, abort, run, paidFor, gone>>
  BY DEF Sweep, CloseTurn
<1>2. row' \in Rows /\ messages' \in Nat
  BY <1>1, RowType, RefundType
<1> QED
  BY <1>1, <1>2 DEF TypeInv, TypeOK, Sound

LEMMA TypeInv_Stop ==
  ASSUME TypeInv, NEW p \in Procs, StopRequest(p) \/ StopFollowUp(p)
  PROVE  TypeInv'
<1>1. /\ \/ Refund(Closed("FAILED"))
         \/ row' \in {row, [row EXCEPT !.cancel = TRUE]} /\ UNCHANGED messages
      /\ AbortCtl(proc[p].running, "cancelled") \/ UNCHANGED abort
      /\ \E stopping \in BOOLEAN : proc' = [proc EXCEPT ![p].stopping = stopping]
      /\ UNCHANGED <<clock, journal, booked, answer, run, paidFor, gone>>
  BY DEF StopRequest, StopFollowUp, CloseTurn
<1>2. row \in Rows /\ messages \in Nat
  BY DEF TypeInv, TypeOK
<1>3. row' \in Rows /\ messages' \in Nat
  BY <1>1, <1>2, RowType, RefundType
<1>4. "cancelled" \in Reasons
  BY DEF Reasons
<1>5. abort' \in [Attempts -> Reasons]
  BY <1>1, <1>4, AbortType DEF TypeInv, TypeOK
<1>6. proc' \in [Procs -> [mode : {"up", "draining", "down"},
                           running : 0 .. MaxAttempts, stopping : BOOLEAN]]
  BY <1>1 DEF TypeInv, TypeOK
<1> QED
  BY <1>1, <1>3, <1>5, <1>6 DEF TypeInv, TypeOK, Sound

LEMMA TypeInv_Mode ==
  ASSUME TypeInv, NEW p \in Procs, Drain(p) \/ DrainAbort(p) \/ Restart(p)
  PROVE  TypeInv'
<1>1. /\ AbortCtl(proc[p].running, "shutdown") \/ UNCHANGED abort
      /\ \E mode \in {"up", "draining"} : proc' \in {proc, [proc EXCEPT ![p].mode = mode]}
      /\ UNCHANGED <<row, clock, messages, journal, booked, answer, run, paidFor, gone>>
  BY DEF Drain, DrainAbort, Restart
<1>2. "shutdown" \in Reasons
  BY DEF Reasons
<1>3. abort' \in [Attempts -> Reasons]
  BY <1>1, <1>2, AbortType DEF TypeInv, TypeOK
<1>4. proc' \in [Procs -> [mode : {"up", "draining", "down"},
                           running : 0 .. MaxAttempts, stopping : BOOLEAN]]
  BY <1>1 DEF TypeInv, TypeOK
<1> QED
  BY <1>1, <1>3, <1>4 DEF TypeInv, TypeOK, Sound

LEMMA TypeInv_Crash ==
  ASSUME TypeInv, NEW p \in Procs, Crash(p)
  PROVE  TypeInv'
<1>1. run' \in [Attempts -> Sound]
  BY DoneIsSound DEF Crash, TypeInv
<1>2. ASSUME NEW a \in Attempts
      PROVE  InMemory(a) \subseteq Calls
  <2>1. run[a].retry \subseteq Calls
    BY DEF TypeInv, TypeOK, Routines
  <2> QED
    BY <2>1, LastCallType DEF InMemory
<1>3. gone' \subseteq Calls
  BY <1>2 DEF Crash, Runs, TypeInv, TypeOK
<1>4. proc' \in [Procs -> [mode : {"up", "draining", "down"},
                           running : 0 .. MaxAttempts, stopping : BOOLEAN]]
  BY Domains DEF Crash, TypeInv, TypeOK
<1>5. UNCHANGED <<row, clock, messages, journal, booked, answer, abort, paidFor>>
  BY DEF Crash
<1> QED
  BY <1>1, <1>3, <1>4, <1>5 DEF TypeInv, TypeOK, Sound

LEMMA TypeInv_Time ==
  ASSUME TypeInv, LeaseExpires \/ DeadlinePasses
  PROVE  TypeInv'
<1>1. /\ row' \in {row, [row EXCEPT !.lease = "expired"]}
      /\ clock' \in {clock, "due", "over"}
      /\ UNCHANGED <<messages, journal, booked, answer, proc, abort, run, paidFor, gone>>
  BY DEF LeaseExpires, DeadlinePasses
<1>2. row' \in Rows
  BY <1>1, RowType DEF TypeInv, TypeOK
<1> QED
  BY <1>1, <1>2 DEF TypeInv, TypeOK, Sound

LEMMA TypeInv_Next == TypeInv /\ [Next]_vars => TypeInv'
<1> SUFFICES ASSUME TypeInv, [Next]_vars PROVE TypeInv'
  OBVIOUS
<1>1. ASSUME NEW a \in Attempts, Routine(a)
      PROVE  TypeInv'
  BY <1>1, TypeInv_TakeClaim, TypeInv_Start, TypeInv_StartFails, TypeInv_Prelude,
     TypeInv_FirstCheck, TypeInv_Round, TypeInv_ModelReturns, TypeInv_ModelFails,
     TypeInv_Record, TypeInv_Decide, TypeInv_CallTool, TypeInv_Commit,
     TypeInv_CardEndsTurn, TypeInv_EndTools, TypeInv_Settle, TypeInv_Answer,
     TypeInv_Fail, TypeInv_FailRefund, TypeInv_AlreadyClosed, TypeInv_GiveUp,
     TypeInv_Timers
     DEF Routine
<1>2. ASSUME NEW p \in Procs, Process(p)
      PROVE  TypeInv'
  BY <1>2, TypeInv_Claim, TypeInv_Sweep, TypeInv_Stop, TypeInv_Mode, TypeInv_Crash
     DEF Process
<1>3. CASE LeaseExpires \/ DeadlinePasses
  BY <1>3, TypeInv_Time
<1>4. CASE UNCHANGED vars
  BY <1>4 DEF vars, TypeInv, TypeOK, Sound
<1> QED
  BY <1>1, <1>2, <1>3, <1>4 DEF Next

\* Every variable stays in its domain, in whatever order processes, faults and
\* timers take their turns.
THEOREM TypeCorrect == Spec => []TypeOK
<1>1. Spec => []TypeInv
  BY InitTypeInv, TypeInv_Next, PTL DEF Spec
<1>2. TypeInv => TypeOK
  BY DEF TypeInv
<1> QED
  BY <1>1, <1>2, PTL

-----------------------------------------------------------------------------
(* What a step does to the routines                                        *)

Others(a) == \A b \in Attempts \ {a} : run'[b] = run[b]

\* The routine goes on, or ends: what it was told stays, or is forgotten.
Moves(a) ==
  /\ run'[a].pc \notin {"commit", "refund"}
  /\ run'[a].told \in {run[a].told, <<>>}

StartsEffect(a) ==
  /\ run'[a].pc = "commit"
  /\ run'[a].told = run[a].told
  /\ journal[run'[a].key] = NoEffect

Learns(a) ==
  /\ run'[a].pc = "tools"
  /\ Len(run[a].told) + 1 \in Keys
  /\ \E op \in KeyedOps :
       /\ run'[a].told = Append(run[a].told, op)
       /\ journal'[Len(run[a].told) + 1].op = op

Refunds(a) ==
  /\ run'[a].pc = "refund"
  /\ run'[a].told = run[a].told
  /\ row'.status = "FAILED"

Steps(a) == Moves(a) \/ StartsEffect(a) \/ Learns(a) \/ Refunds(a)

LEMMA ClosedFields ==
  ASSUME row \in Rows, NEW status
  PROVE  /\ Closed(status).status = status
         /\ Closed(status).token = row.token
         /\ Closed(status).attempt = row.attempt
         /\ Closed(status).cost = row.cost
         /\ Closed(status).refunded = row.refunded
  BY DEF Closed, Rows

Put(a, r) == run' = [run EXCEPT ![a] = r]

LEMMA Replaced ==
  ASSUME TypeInv, NEW a \in Attempts, NEW r, Put(a, r)
  PROVE  run'[a] = r /\ Others(a)
  BY DEF Put, TypeInv, TypeOK, Others

LEMMA ThrowMoves ==
  ASSUME TypeInv, NEW a \in Attempts, NEW reason, Throw(a, reason)
  PROVE  Moves(a) /\ Others(a)
<1> DEFINE r == [run[a] EXCEPT !.pc = "settle", !.goal = GoalFor(reason),
                               !.key = 0, !.op = NoOp]
<1>1. Put(a, r)
  BY DEF Throw, Put
<1>2. r.pc = "settle" /\ r.told = run[a].told
  BY DEF TypeInv, TypeOK, Routines
<1> QED
  BY <1>1, <1>2, Replaced DEF Moves

LEMMA GotoMoves ==
  ASSUME TypeInv, NEW a \in Attempts, NEW pc, Goto(a, pc)
  PROVE  run'[a].pc = pc /\ run'[a].told = run[a].told /\ Others(a)
<1> DEFINE r == [run[a] EXCEPT !.pc = pc]
<1>1. Put(a, r)
  BY DEF Goto, Put
<1>2. r.pc = pc /\ r.told = run[a].told
  BY DEF TypeInv, TypeOK, Routines
<1> QED
  BY <1>1, <1>2, Replaced

LEMMA DoneFields ==
  ASSUME NEW p
  PROVE  Done(p).pc = "ended" /\ Done(p).told = <<>>
  BY DEF Done, Blank

LEMMA EndMoves ==
  ASSUME TypeInv, NEW a \in Attempts, End(a)
  PROVE  Moves(a) /\ Others(a)
<1>1. Put(a, Done(run[a].proc))
  BY DEF End, Put
<1> QED
  BY <1>1, Replaced, DoneFields DEF Moves

LEMMA RefusedMoves ==
  ASSUME TypeInv, NEW a \in Attempts, Refused(a)
  PROVE  Moves(a) /\ Others(a)
<1> DEFINE r == [run[a] EXCEPT !.pc = "tools", !.key = 0, !.op = NoOp]
<1>1. Put(a, r)
  BY DEF Refused, Put
<1>2. r.pc = "tools" /\ r.told = run[a].told
  BY DEF TypeInv, TypeOK, Routines
<1> QED
  BY <1>1, <1>2, Replaced DEF Moves

\* A stored effect of the same keyed operation is told again.
LEMMA RecognizeMoves ==
  ASSUME TypeInv, NEW a \in Attempts, NEW key \in Keys, NEW op \in Ops,
         op \in KeyedOps => key = Len(run[a].told) + 1,
         Recognize(a, key, op), UNCHANGED journal
  PROVE  (Moves(a) \/ Learns(a)) /\ Others(a)
<1> DEFINE same == journal[key].op = op
           told == IF same /\ op \in KeyedOps THEN Append(run[a].told, op)
                   ELSE run[a].told
           card == IF op \in KeyedOps THEN run[a].card
                   ELSE IF same THEN "ends" ELSE "kept"
           r == [run[a] EXCEPT !.pc = "tools", !.key = 0, !.op = NoOp,
                               !.told = told, !.card = card]
<1>1. Put(a, r)
  BY DEF Recognize, Put
<1> HIDE DEF told, card
<1>2. r.pc = "tools" /\ r.told = told
  BY DEF TypeInv, TypeOK, Routines
<1>3. run'[a].pc = "tools" /\ run'[a].told = told /\ Others(a)
  BY <1>1, <1>2, Replaced
<1>4. CASE same /\ op \in KeyedOps
  <2>1. told = Append(run[a].told, op)
    BY <1>4 DEF told
  <2>2. journal'[Len(run[a].told) + 1].op = op
    BY <1>4
  <2> QED
    BY <1>3, <1>4, <2>1, <2>2 DEF Learns
<1>5. CASE ~(same /\ op \in KeyedOps)
  BY <1>3, <1>5 DEF told, Moves
<1> QED
  BY <1>4, <1>5

LEMMA CommitMoves ==
  ASSUME TypeInv, NEW a \in Attempts, Commit(a)
  PROVE  (Moves(a) \/ Learns(a)) /\ Others(a)
<1> DEFINE key == run[a].key
           op == run[a].op
<1>1. /\ key \in Keys /\ op \in Ops
      /\ key = IF op \in CardOps THEN CardKey ELSE Len(run[a].told) + 1
  BY Claimed DEF Commit, At, Sound, Routines
<1>2. op \in KeyedOps => key = Len(run[a].told) + 1
  BY <1>1, ConstantsAssumption
<1>3. CASE Refused(a)
  BY <1>3, RefusedMoves
<1>4. CASE Recognize(a, key, op) /\ UNCHANGED journal
  BY <1>1, <1>2, <1>4, RecognizeMoves
<1>5. CASE /\ journal' = [journal EXCEPT ![key] = [op |-> op, by |-> a]]
           /\ Told(a)
  <2> DEFINE told == IF op \in KeyedOps THEN Append(run[a].told, op) ELSE run[a].told
             card == IF op \in CardOps THEN "ends" ELSE run[a].card
             r == [run[a] EXCEPT !.pc = "tools", !.key = 0, !.op = NoOp,
                                 !.told = told, !.card = card]
  <2>1. Put(a, r)
    BY <1>5 DEF Told, Put
  <2> HIDE DEF told, card
  <2>2. r.pc = "tools" /\ r.told = told
    BY DEF TypeInv, TypeOK, Routines
  <2>3. run'[a].pc = "tools" /\ run'[a].told = told /\ Others(a)
    BY <2>1, <2>2, Replaced
  <2>4. journal'[key].op = op
    BY <1>1, <1>5 DEF TypeInv, TypeOK
  <2>5. CASE op \in KeyedOps
    BY <1>1, <1>2, <2>3, <2>4, <2>5 DEF told, Learns
  <2>6. CASE op \notin KeyedOps
    BY <2>3, <2>6 DEF told, Moves
  <2> QED
    BY <2>3, <2>5, <2>6
<1> QED
  BY <1>3, <1>4, <1>5 DEF Commit

LEMMA CallToolMoves ==
  ASSUME TypeInv, NEW a \in Attempts, NEW op \in Ops, CallTool(a, op)
  PROVE  UNCHANGED run \/ (Steps(a) /\ Others(a))
<1> DEFINE key == KeyFor(a, op)
           r == [run[a] EXCEPT !.pc = "commit", !.key = key, !.op = op]
<1>1. key \in Keys /\ UNCHANGED journal
  BY DEF CallTool
<1>2. op \in KeyedOps => key = Len(run[a].told) + 1
  BY ConstantsAssumption DEF KeyFor
<1>3. CASE Recognize(a, key, op)
  BY <1>1, <1>2, <1>3, RecognizeMoves DEF Steps
<1>4. CASE journal[key] = NoEffect /\ Put(a, r)
  <2> HIDE DEF key
  <2>1. r.pc = "commit" /\ r.told = run[a].told /\ r.key = key
    BY DEF TypeInv, TypeOK, Routines
  <2> HIDE DEF r
  <2>2. run'[a] = r /\ Others(a)
    BY <1>4, Replaced
  <2>3. journal[run'[a].key] = NoEffect
    BY <1>4, <2>1, <2>2
  <2> QED
    BY <2>1, <2>2, <2>3 DEF StartsEffect, Steps
<1> QED
  BY <1>3, <1>4 DEF CallTool, Put

LEMMA RoutineMoves ==
  ASSUME TypeInv, NEW a \in Attempts, Routine(a)
  PROVE  UNCHANGED run \/ (Steps(a) /\ Others(a))
<1>1. CASE TakeClaim(a)
  <2>1. Goto(a, "reserved") \/ Put(a, Done(run[a].proc))
    BY <1>1 DEF TakeClaim, Put
  <2> QED
    BY <2>1, GotoMoves, Replaced, DoneFields DEF Moves, Steps
<1>2. CASE Start(a)
  <2> DEFINE p == run[a].proc
             c == IF proc[p].running = 0 THEN a ELSE proc[p].running
             reason == IF proc[p].running = 0 THEN "none" ELSE abort[c]
             pc == IF reason = "none" THEN "prelude" ELSE "settle"
             goal == IF reason = "none" THEN "none" ELSE GoalFor(reason)
             r == [run[a] EXCEPT !.ctl = c, !.pc = pc, !.goal = goal]
  <2>1. Put(a, r) /\ pc \notin {"commit", "refund"}
    BY <1>2 DEF Start, Put
  <2> HIDE DEF c, pc, goal
  <2>2. r.pc = pc /\ r.told = run[a].told
    BY DEF TypeInv, TypeOK, Routines
  <2> QED
    BY <2>1, <2>2, Replaced DEF Moves, Steps
<1>3. CASE StartFails(a) \/ FailRefund(a) \/ AlreadyClosed(a) \/ GiveUp(a)
  <2>1. End(a)
    BY <1>3 DEF StartFails, FailRefund, AlreadyClosed, GiveUp
  <2> QED
    BY <2>1, EndMoves DEF Steps
<1>4. CASE Prelude(a) \/ Decide(a) \/ CardEndsTurn(a)
  <2> DEFINE r(goal) == [run[a] EXCEPT !.pc = "settle", !.goal = goal]
  <2>1. \/ Put(a, r("replay")) \/ Put(a, r("answer"))
        \/ Goto(a, "check") \/ Goto(a, "tools") \/ Throw(a, Ctl(a))
    BY <1>4 DEF Prelude, Decide, CardEndsTurn, Put
  <2>2. ASSUME NEW goal
        PROVE  r(goal).pc = "settle" /\ r(goal).told = run[a].told
    BY DEF TypeInv, TypeOK, Routines
  <2> HIDE DEF r
  <2> QED
    BY <2>1, <2>2, Replaced, GotoMoves, ThrowMoves DEF Moves, Steps
<1>5. CASE FirstCheck(a)
  <2>1. Goto(a, "round") \/ Throw(a, ReasonAfter(a))
    BY <1>5 DEF FirstCheck
  <2> QED
    BY <2>1, GotoMoves, ThrowMoves DEF Moves, Steps
<1>6. CASE Round(a) \/ ModelFails(a)
  <2> DEFINE r == [run[a] EXCEPT !.pc = "model", !.calls = run[a].calls + 1]
  <2>1. Throw(a, Ctl(a)) \/ Put(a, r)
    BY <1>6 DEF Round, ModelFails, Put
  <2>2. r.pc = "model" /\ r.told = run[a].told
    BY DEF TypeInv, TypeOK, Routines
  <2> HIDE DEF r
  <2> QED
    BY <2>1, <2>2, Replaced, ThrowMoves DEF Moves, Steps
<1>7. CASE ModelReturns(a)
  <2>1. PICK paid \in Costs :
          run' = [run EXCEPT ![a].pc = "record", ![a].paid = paid,
                             ![a].spent = @ \/ paid]
    BY <1>7 DEF ModelReturns
  <2> DEFINE r == [run[a] EXCEPT !.pc = "record", !.paid = paid,
                                 !.spent = run[a].spent \/ paid]
  <2>2. Put(a, r)
    BY <2>1 DEF Put
  <2>3. r.pc = "record" /\ r.told = run[a].told
    BY DEF TypeInv, TypeOK, Routines
  <2> QED
    BY <2>2, <2>3, Replaced DEF Moves, Steps
<1>8. CASE Record(a)
  <2>1. PICK outcome \in Outcomes :
          run' = [run EXCEPT ![a].pc = "decide",
            ![a].retry = IF outcome = "ok" THEN @ ELSE @ \cup {LastCall(a)}]
    BY <1>8 DEF Record
  <2> DEFINE retry == IF outcome = "ok" THEN run[a].retry
                      ELSE run[a].retry \cup {LastCall(a)}
             r == [run[a] EXCEPT !.pc = "decide", !.retry = retry]
  <2>2. Put(a, r)
    BY <2>1 DEF Put
  <2> HIDE DEF retry
  <2>3. r.pc = "decide" /\ r.told = run[a].told
    BY DEF TypeInv, TypeOK, Routines
  <2> QED
    BY <2>2, <2>3, Replaced DEF Moves, Steps
<1>9. CASE Settle(a)
  <2>1. PICK c : run' = [run EXCEPT ![a].retry = @ \ {c}]
    BY <1>9 DEF Settle
  <2> DEFINE r == [run[a] EXCEPT !.retry = run[a].retry \ {c}]
  <2>2. Put(a, r)
    BY <2>1 DEF Put
  <2>3. r.pc = "settle" /\ r.told = run[a].told
    BY <1>9 DEF Settle, At, TypeInv, TypeOK, Routines
  <2> QED
    BY <2>2, <2>3, Replaced DEF Moves, Steps
<1>10. CASE EndTools(a)
  <2> DEFINE card == IF run[a].card = "ends" THEN "kept" ELSE run[a].card
             r == [run[a] EXCEPT !.pc = "round", !.card = card]
  <2>1. Put(a, r)
    BY <1>10 DEF EndTools, Put
  <2> HIDE DEF card
  <2>2. r.pc = "round" /\ r.told = run[a].told
    BY DEF TypeInv, TypeOK, Routines
  <2> QED
    BY <2>1, <2>2, Replaced DEF Moves, Steps
<1>11. CASE Answer(a)
  <2>1. Throw(a, Ctl(a)) \/ End(a)
    BY <1>11 DEF Answer
  <2> QED
    BY <2>1, ThrowMoves, EndMoves DEF Steps
<1>12. CASE Fail(a)
  <2>1. row \in Rows
    BY DEF TypeInv, TypeOK
  <2>2. \/ End(a)
        \/ Goto(a, "refund") /\ row' = Closed("FAILED")
    BY <1>12 DEF Fail, Outcomes
  <2> QED
    BY <2>1, <2>2, EndMoves, GotoMoves, ClosedFields DEF Refunds, Steps
<1>13. CASE Renew(a) \/ RenewGivesUp(a) \/ DeadlineTimer(a)
  BY <1>13 DEF Renew, RenewGivesUp, DeadlineTimer
<1> QED
  BY <1>1, <1>2, <1>3, <1>4, <1>5, <1>6, <1>7, <1>8, <1>9, <1>10,
     <1>11, <1>12, <1>13, CallToolMoves, CommitMoves DEF Routine, Steps

LEMMA ClaimMoves ==
  ASSUME TypeInv, NEW p \in Procs, Claim(p)
  PROVE  /\ run'[row.attempt + 1].pc = "claimed"
         /\ Moves(row.attempt + 1) /\ Others(row.attempt + 1)
<1> DEFINE a == row.attempt + 1
           r == [run[a] EXCEPT !.pc = "claimed", !.proc = p]
<1>1. row.attempt \in 0 .. MaxAttempts /\ row.attempt < MaxAttempts
  BY DEF Claim, TypeInv, TypeOK, Rows
<1>2. a \in Attempts
  BY <1>1, ConstantsAssumption DEF Attempts
<1>3. Put(a, r)
  BY DEF Claim, Put
<1> HIDE DEF a
<1>4. r.pc = "claimed" /\ r.told = run[a].told
  BY <1>2 DEF TypeInv, TypeOK, Routines
<1>5. run'[a] = r /\ Others(a)
  BY <1>2, <1>3, Replaced
<1> QED
  BY <1>4, <1>5 DEF a, Moves

RunShape == \A a \in Attempts : run'[a] = run[a] \/ Steps(a)

LEMMA NextRunShape ==
  ASSUME TypeInv, [Next]_vars
  PROVE  RunShape
<1>1. ASSUME NEW a \in Attempts, Routine(a)
      PROVE  RunShape
  BY <1>1, RoutineMoves DEF RunShape, Others
<1>2. ASSUME NEW p \in Procs, Claim(p)
      PROVE  RunShape
  BY <1>2, ClaimMoves DEF RunShape, Others, Steps
<1>3. ASSUME NEW p \in Procs, Crash(p)
      PROVE  RunShape
  BY <1>3, DoneFields DEF Crash, Moves, Steps, RunShape
<1>4. ASSUME NEW p \in Procs,
             \/ Sweep(p) \/ StopRequest(p) \/ StopFollowUp(p)
             \/ Drain(p) \/ DrainAbort(p) \/ Restart(p)
      PROVE  RunShape
  BY <1>4 DEF Sweep, StopRequest, StopFollowUp, Drain, DrainAbort, Restart, RunShape
<1>5. CASE LeaseExpires \/ DeadlinePasses \/ UNCHANGED vars
  BY <1>5 DEF LeaseExpires, DeadlinePasses, vars, RunShape
<1> QED
  BY <1>1, <1>2, <1>3, <1>4, <1>5 DEF Next, Process

-----------------------------------------------------------------------------
(* What a step does to the shared state                                    *)

\* The refund of refundIfFree either happens or it does not.
Returned ==
  \/ row'.refunded = row.refunded /\ messages' = messages
  \/ /\ row.cost = 0 /\ ~row.refunded /\ row'.refunded
     /\ messages' = IF messages > 0 THEN messages - 1 ELSE 0

SameTurn ==
  /\ row'.status = row.status /\ row'.attempt = row.attempt
  /\ row'.cost = row.cost

\* Lease, "stop" and release leave what the turn promises alone.
Quiet ==
  /\ SameTurn
  /\ row'.token \in {0, row.token}
  /\ row'.refunded = row.refunded /\ messages' = messages
  /\ UNCHANGED <<journal, answer>>

Claims ==
  /\ row.status = "RUNNING" /\ row'.status = "RUNNING"
  /\ row.attempt < MaxAttempts
  /\ row'.attempt = row.attempt + 1 /\ row'.token = row.attempt + 1
  /\ row'.cost = row.cost /\ row'.refunded = row.refunded
  /\ run'[row.attempt + 1].pc = "claimed"
  /\ UNCHANGED <<messages, journal, answer>>

Books ==
  /\ row'.status = row.status /\ row'.attempt = row.attempt
  /\ row'.token = row.token
  /\ row'.cost = row.cost + 1 /\ ~row'.refunded
  /\ messages' = IF row.refunded THEN messages + 1 ELSE messages
  /\ UNCHANGED <<journal, answer>>

GivesBack ==
  /\ row.status = "FAILED"
  /\ SameTurn /\ row'.token = row.token
  /\ Returned
  /\ UNCHANGED <<journal, answer>>

Closes(status) ==
  /\ row.status = "RUNNING" /\ row'.status = status
  /\ row'.attempt = row.attempt /\ row'.token = row.token
  /\ row'.cost = row.cost
  /\ Returned
  /\ UNCHANGED journal

Fails == Closes("FAILED") /\ UNCHANGED answer

Answers ==
  \E a \in Attempts :
    /\ Held(a)
    /\ Closes("DONE")
    /\ answer' = [by |-> a, card |-> journal[CardKey].op]

Writes ==
  \E a \in Attempts :
    /\ Held(a)
    /\ At(a, "commit")
    /\ journal[run[a].key] = NoEffect
    /\ journal' = [journal EXCEPT ![run[a].key] = [op |-> run[a].op, by |-> a]]
    /\ run'[a].pc # "commit"
    /\ UNCHANGED <<row, messages, answer>>

Shape ==
  Quiet \/ Claims \/ Books \/ GivesBack \/ Fails \/ Answers \/ Writes

LEMMA RefundFields ==
  ASSUME NEW r \in Rows, Refund(r)
  PROVE  /\ row'.status = r.status /\ row'.token = r.token
         /\ row'.attempt = r.attempt /\ row'.cost = r.cost
         /\ \/ row'.refunded = r.refunded /\ messages' = messages
            \/ /\ r.cost = 0 /\ ~r.refunded /\ row'.refunded
               /\ messages' = IF messages > 0 THEN messages - 1 ELSE 0
<1>1. CASE Refundable(r)
  <2>1. row' = [r EXCEPT !.refunded = TRUE]
    BY <1>1 DEF Refund
  <2>2. /\ row'.status = r.status /\ row'.token = r.token
        /\ row'.attempt = r.attempt /\ row'.cost = r.cost /\ row'.refunded
    BY <2>1 DEF Rows
  <2>3. messages' = IF messages > 0 THEN messages - 1 ELSE 0
    BY <1>1 DEF Refund
  <2> QED
    BY <1>1, <2>2, <2>3 DEF Refundable
<1>2. CASE ~Refundable(r)
  BY <1>2 DEF Refund
<1> QED
  BY <1>1, <1>2

LEMMA QuietFields ==
  ASSUME row \in Rows,
         \/ row' \in {row, Released, [row EXCEPT !.cancel = TRUE]}
         \/ \E l \in {"live", "expired"} : row' = [row EXCEPT !.lease = l],
         UNCHANGED <<messages, journal, answer>>
  PROVE  Quiet
<1>1. /\ Released.status = row.status /\ Released.attempt = row.attempt
      /\ Released.token = 0 /\ Released.cost = row.cost
      /\ Released.refunded = row.refunded
  BY DEF Released, Rows
<1>2. CASE row' = row
  BY <1>2 DEF Quiet, SameTurn
<1>3. CASE row' = Released
  BY <1>1, <1>3 DEF Quiet, SameTurn
<1>4. CASE row' = [row EXCEPT !.cancel = TRUE]
  <2>1. SameTurn /\ row'.token = row.token /\ row'.refunded = row.refunded
    BY <1>4 DEF SameTurn, Rows
  <2> QED
    BY <2>1 DEF Quiet
<1>5. ASSUME NEW l \in {"live", "expired"}, row' = [row EXCEPT !.lease = l]
      PROVE  Quiet
  <2>1. SameTurn /\ row'.token = row.token /\ row'.refunded = row.refunded
    BY <1>5 DEF SameTurn, Rows
  <2> QED
    BY <2>1 DEF Quiet
<1> QED
  BY <1>2, <1>3, <1>4, <1>5

LEMMA BookFields ==
  ASSUME row \in Rows, NEW c, NEW outcome, TryBook(c, outcome),
         UNCHANGED <<journal, answer>>
  PROVE  Quiet \/ Books
<1>1. CASE UNCHANGED <<row, messages>>
  BY <1>1, QuietFields
<1>2. CASE /\ row' = [row EXCEPT !.cost = @ + 1, !.refunded = FALSE]
           /\ messages' = IF row.refunded THEN messages + 1 ELSE messages
  <2>1. /\ row'.status = row.status /\ row'.attempt = row.attempt
        /\ row'.token = row.token /\ row'.cost = row.cost + 1 /\ ~row'.refunded
    BY <1>2 DEF Rows
  <2> QED
    BY <1>2, <2>1 DEF Books
<1> QED
  BY <1>1, <1>2 DEF TryBook, Book

\* Steps of a routine that are between it and its process.
LEMMA PrivateSteps ==
  ASSUME TypeInv, NEW a \in Attempts,
         \/ Start(a) \/ StartFails(a) \/ Prelude(a) \/ FirstCheck(a) \/ Round(a)
         \/ ModelReturns(a) \/ ModelFails(a) \/ Decide(a)
         \/ \E op \in Ops : CallTool(a, op)
         \/ CardEndsTurn(a) \/ EndTools(a) \/ AlreadyClosed(a)
         \/ RenewGivesUp(a) \/ DeadlineTimer(a)
  PROVE  Quiet
<1>1. UNCHANGED <<row, messages, journal, answer>>
  BY DEF Start, StartFails, Prelude, FirstCheck, Round, ModelReturns, ModelFails,
         Decide, CallTool, CardEndsTurn, EndTools, AlreadyClosed, RenewGivesUp,
         DeadlineTimer
<1> QED
  BY <1>1, QuietFields DEF TypeInv, TypeOK

RefundAfterClose == \A a \in Attempts : At(a, "refund") => row.status = "FAILED"

LEMMA RoutineShape ==
  ASSUME TypeInv, RefundAfterClose, NEW a \in Attempts, Routine(a)
  PROVE  Shape
<1>1. row \in Rows /\ Closed("DONE") \in Rows
  BY RowType DEF TypeInv, TypeOK
<1>2. CASE TakeClaim(a) \/ GiveUp(a)
  <2>1. row' \in {row, Released} /\ UNCHANGED <<messages, journal, answer>>
    BY <1>2 DEF TakeClaim, GiveUp
  <2> QED
    BY <1>1, <2>1, QuietFields DEF Shape
<1>3. CASE Renew(a)
  <2>1. row' \in {row, [row EXCEPT !.lease = "live"]}
    BY <1>3 DEF Renew
  <2>2. UNCHANGED <<messages, journal, answer>>
    BY <1>3 DEF Renew
  <2> QED
    BY <1>1, <2>1, <2>2, QuietFields DEF Shape
<1>4. CASE Record(a) \/ Settle(a)
  <2>1. /\ \E c, outcome : TryBook(c, outcome)
        /\ UNCHANGED <<journal, answer>>
    BY <1>4 DEF Record, Settle
  <2> QED
    BY <1>1, <2>1, BookFields DEF Shape
<1>5. CASE Commit(a)
  <2>1. UNCHANGED <<row, messages, answer>> /\ At(a, "commit")
    BY <1>5 DEF Commit
  <2>2. CASE UNCHANGED journal
    BY <1>1, <2>1, <2>2, QuietFields DEF Shape
  <2>3. CASE journal' # journal
    <3>1. run'[a].pc # "commit"
      BY <1>5, CommitMoves DEF Moves, Learns
    <3>2. /\ Held(a) /\ journal[run[a].key] = NoEffect
          /\ journal' = [journal EXCEPT ![run[a].key] = [op |-> run[a].op, by |-> a]]
      BY <1>5, <2>3 DEF Commit
    <3> QED
      BY <2>1, <3>1, <3>2 DEF Shape, Writes
  <2> QED
    BY <2>2, <2>3
<1>6. CASE Answer(a)
  <2>1. UNCHANGED journal /\ Held(a)
    BY <1>6 DEF Answer
  <2>2. CASE UNCHANGED <<row, messages, answer>>
    BY <1>1, <2>1, <2>2, QuietFields DEF Shape
  <2>3. CASE /\ \/ Refund(Closed("DONE"))
                \/ row' = Closed("DONE") /\ UNCHANGED messages
             /\ answer' = [by |-> a, card |-> journal[CardKey].op]
    <3>1. Closes("DONE")
      BY <1>1, <2>1, <2>3, ClosedFields, RefundFields DEF Closes, Returned, Held
    <3> QED
      BY <2>1, <2>3, <3>1 DEF Answers, Shape
  <2> QED
    BY <1>6, <2>2, <2>3 DEF Answer
<1>7. CASE Fail(a)
  <2>1. UNCHANGED <<messages, journal, answer>> /\ Held(a)
    BY <1>7 DEF Fail
  <2>2. row' \in {row, Closed("FAILED")}
    BY <1>7 DEF Fail
  <2>3. CASE row' = row
    BY <1>1, <2>1, <2>3, QuietFields DEF Shape
  <2>4. CASE row' = Closed("FAILED")
    BY <1>1, <2>1, <2>4, ClosedFields DEF Closes, Returned, Held, Fails, Shape
  <2> QED
    BY <2>2, <2>3, <2>4
<1>8. CASE FailRefund(a)
  <2>1. UNCHANGED <<journal, answer>> /\ row.status = "FAILED"
    BY <1>8 DEF FailRefund, RefundAfterClose
  <2>2. CASE UNCHANGED <<row, messages>>
    BY <1>1, <2>1, <2>2, QuietFields DEF Shape
  <2>3. CASE Refund(row)
    BY <1>1, <2>1, <2>3, RefundFields DEF GivesBack, SameTurn, Returned, Shape
  <2> QED
    BY <1>8, <2>2, <2>3 DEF FailRefund
<1> QED
  BY <1>2, <1>3, <1>4, <1>5, <1>6, <1>7, <1>8, PrivateSteps DEF Routine, Shape

LEMMA NextShape ==
  ASSUME TypeInv, RefundAfterClose, [Next]_vars
  PROVE  Shape
<1>1. row \in Rows /\ Closed("FAILED") \in Rows
  BY RowType DEF TypeInv, TypeOK
<1>2. ASSUME NEW p \in Procs, Claim(p)
      PROVE  Shape
  <2> DEFINE a == row.attempt + 1
  <2>1. row' = [row EXCEPT !.token = a, !.lease = "live", !.attempt = a]
    BY <1>2 DEF Claim
  <2>2. run'[a].pc = "claimed"
    BY <1>2, ClaimMoves
  <2> HIDE DEF a
  <2>3. /\ row'.status = row.status /\ row'.token = a /\ row'.attempt = a
        /\ row'.cost = row.cost /\ row'.refunded = row.refunded
    BY <1>1, <2>1 DEF Rows
  <2> QED
    BY <1>2, <2>2, <2>3 DEF a, Claim, Claims, Shape
<1>3. ASSUME row.status = "RUNNING", Refund(Closed("FAILED")),
             UNCHANGED <<journal, answer>>
      PROVE  Shape
  BY <1>1, <1>3, ClosedFields, RefundFields DEF Fails, Closes, Returned, Shape
<1>4. ASSUME NEW p \in Procs, Sweep(p)
      PROVE  Shape
  BY <1>3, <1>4 DEF Sweep, CloseTurn
<1>5. ASSUME NEW p \in Procs, StopRequest(p)
      PROVE  Shape
  <2>1. row' = [row EXCEPT !.cancel = TRUE] /\ UNCHANGED <<messages, journal, answer>>
    BY <1>5 DEF StopRequest
  <2> QED
    BY <1>1, <2>1, QuietFields DEF Shape
<1>6. ASSUME NEW p \in Procs, StopFollowUp(p)
      PROVE  Shape
  <2>1. UNCHANGED <<journal, answer>>
    BY <1>6 DEF StopFollowUp
  <2>2. CASE UNCHANGED <<row, messages>>
    BY <1>1, <2>1, <2>2, QuietFields DEF Shape
  <2>3. CASE row.status = "RUNNING" /\ Refund(Closed("FAILED"))
    BY <1>3, <2>1, <2>3
  <2> QED
    BY <1>6, <2>2, <2>3 DEF StopFollowUp, CloseTurn
<1>7. ASSUME NEW p \in Procs, Drain(p) \/ DrainAbort(p) \/ Crash(p) \/ Restart(p)
      PROVE  Shape
  <2>1. UNCHANGED <<row, messages, journal, answer>>
    BY <1>7 DEF Drain, DrainAbort, Crash, Restart
  <2> QED
    BY <1>1, <2>1, QuietFields DEF Shape
<1>8. CASE LeaseExpires
  <2>1. row' = [row EXCEPT !.lease = "expired"] /\ UNCHANGED <<messages, journal, answer>>
    BY <1>8 DEF LeaseExpires
  <2> QED
    BY <1>1, <2>1, QuietFields DEF Shape
<1>9. CASE DeadlinePasses \/ UNCHANGED vars
  <2>1. UNCHANGED <<row, messages, journal, answer>>
    BY <1>9 DEF DeadlinePasses, vars
  <2> QED
    BY <1>1, <2>1, QuietFields DEF Shape
<1> QED
  BY <1>2, <1>4, <1>5, <1>6, <1>7, <1>8, <1>9, RoutineShape DEF Next, Process

-----------------------------------------------------------------------------
(* The inductive invariant                                                 *)

\* The lease token of the row is that of the last claim, or released.
TokenIsLast == row.token \in {0, row.attempt}

\* TypeInv gives the domains; TokenIsLast makes the fence mean "the last
\* attempt"; RefundAfterClose is what finishFailed's separate refund relies on.
Inv ==
  /\ TypeInv
  /\ TokenIsLast
  /\ RefundAfterClose
  /\ QuotaMatchesRefund
  /\ DoneHasItsAnswer
  /\ EffectsInOrder
  /\ ToldMatchesJournal
  /\ CommitKeyIsFree

LEMMA HolderIsLast ==
  ASSUME Inv, NEW a \in Attempts, Held(a)
  PROVE  a = row.attempt /\ row.status = "RUNNING"
  BY DEF Inv, TokenIsLast, Held, Attempts

LEMMA KeyedIsPresent ==
  ASSUME TypeInv, NEW k \in Keys, journal[k].op \in Ops
  PROVE  Present(k)
  BY ConstantsAssumption DEF Present, NoEffect, Ops

LEMMA PresentIsKeyed ==
  ASSUME NEW k \in Keys, NEW op \in Ops, NEW a \in Attempts,
         journal[k] = [op |-> op, by |-> a]
  PROVE  Present(k)
  BY ConstantsAssumption DEF Present, NoEffect, Ops

LEMMA InitInv == Init => Inv
<1> SUFFICES ASSUME Init PROVE Inv
  OBVIOUS
<1>1. TypeInv
  BY InitTypeInv
<1>2. TokenIsLast
  BY DEF Init, TokenIsLast
<1>3. \A a \in Attempts : run[a].pc = "idle" /\ run[a].told = <<>>
  BY DEF Init, Blank
<1>4. RefundAfterClose /\ CommitKeyIsFree
  BY <1>3 DEF RefundAfterClose, CommitKeyIsFree, At
<1>5. QuotaMatchesRefund /\ DoneHasItsAnswer
  BY DEF Init, QuotaMatchesRefund, DoneHasItsAnswer
<1>6. EffectsInOrder
  BY DEF Init, EffectsInOrder, Present
<1>7. ToldMatchesJournal
  BY <1>3 DEF ToldMatchesJournal
<1> QED
  BY <1>1, <1>2, <1>4, <1>5, <1>6, <1>7 DEF Inv

LEMMA TokenIsLast_Next ==
  ASSUME Inv, Shape
  PROVE  TokenIsLast'
<1>1. row.attempt \in 0 .. MaxAttempts /\ TokenIsLast
  BY DEF Inv, TypeInv, TypeOK, Rows
<1> QED
  BY <1>1 DEF TokenIsLast, Shape, Quiet, SameTurn, Claims, Books, GivesBack, Fails,
              Answers, Closes, Writes

LEMMA RefundAfterClose_Next ==
  ASSUME Inv, Shape, RunShape
  PROVE  RefundAfterClose'
<1>1. row.status = "FAILED" => row'.status = "FAILED"
  BY DEF Shape, Quiet, SameTurn, Claims, Books, GivesBack, Fails, Answers, Closes,
         Writes, Held
<1>2. ASSUME NEW a \in Attempts, run'[a].pc = "refund"
      PROVE  row'.status = "FAILED"
  <2>1. run'[a] = run[a] \/ row'.status = "FAILED"
    BY <1>2 DEF RunShape, Steps, Moves, StartsEffect, Learns, Refunds
  <2> QED
    BY <1>1, <1>2, <2>1 DEF Inv, RefundAfterClose, At
<1> QED
  BY <1>2 DEF RefundAfterClose, At

LEMMA QuotaMatchesRefund_Next ==
  ASSUME Inv, Shape
  PROVE  QuotaMatchesRefund'
<1>1. /\ QuotaMatchesRefund
      /\ row.status \in {"RUNNING", "DONE", "FAILED"}
      /\ row.refunded \in BOOLEAN /\ row.cost \in Nat
  BY DEF Inv, TypeInv, TypeOK, Rows
<1>2. CASE Quiet \/ Claims \/ Writes
  BY <1>1, <1>2 DEF QuotaMatchesRefund, Quiet, SameTurn, Claims, Writes
<1>3. CASE Books
  BY <1>1, <1>3 DEF QuotaMatchesRefund, Books
<1>4. CASE GivesBack
  BY <1>1, <1>4 DEF QuotaMatchesRefund, GivesBack, SameTurn, Returned
<1>5. ASSUME NEW status \in {"DONE", "FAILED"}, Closes(status)
      PROVE  QuotaMatchesRefund'
  BY <1>1, <1>5 DEF QuotaMatchesRefund, Closes, Returned
<1> QED
  BY <1>2, <1>3, <1>4, <1>5 DEF Shape, Fails, Answers

LEMMA DoneHasItsAnswer_Next ==
  ASSUME Inv, Shape
  PROVE  DoneHasItsAnswer'
<1>1. DoneHasItsAnswer
  BY DEF Inv
<1>2. CASE Quiet \/ Claims \/ Books \/ GivesBack \/ Fails
  BY <1>1, <1>2 DEF DoneHasItsAnswer, Quiet, SameTurn, Claims, Books, GivesBack,
                    Fails, Closes
<1>3. CASE Answers
  <2>1. PICK a \in Attempts :
          Held(a) /\ Closes("DONE")
          /\ answer' = [by |-> a, card |-> journal[CardKey].op]
    BY <1>3 DEF Answers
  <2>2. a = row.attempt /\ a # 0
    BY <2>1, HolderIsLast DEF Attempts
  <2>3. answer'.by = a /\ answer'.card = journal[CardKey].op /\ answer' # NoAnswer
    BY <2>1, <2>2 DEF NoAnswer
  <2> QED
    BY <2>1, <2>2, <2>3 DEF DoneHasItsAnswer, Closes
<1>4. CASE Writes
  <2>1. row.status # "DONE"
    BY <1>4 DEF Writes, Held
  <2> QED
    BY <1>1, <1>4, <2>1 DEF Writes, DoneHasItsAnswer
<1> QED
  BY <1>2, <1>3, <1>4 DEF Shape

\* Where the writing attempt stands: its key is free, and is the card's key or
\* the next one after the effects it was told of.
LEMMA WriterKey ==
  ASSUME Inv, NEW a \in Attempts, At(a, "commit")
  PROVE  /\ run[a].key \in Keys /\ run[a].op \in Ops
         /\ run[a].key # CardKey =>
              /\ run[a].key = Len(run[a].told) + 1
              /\ \A j \in 1 .. run[a].key - 1 : Present(j)
<1>1. TypeInv
  BY DEF Inv
<1>2. /\ run[a] \in Routines
      /\ run[a].op \in Ops
      /\ run[a].key = IF run[a].op \in CardOps THEN CardKey ELSE Len(run[a].told) + 1
  BY <1>1, Claimed DEF At, Sound
<1>3. run[a].key \in Keys /\ run[a].told \in Seq(KeyedOps)
  BY <1>2 DEF Routines
<1>4. ASSUME NEW j \in 1 .. Len(run[a].told)
      PROVE  Present(j)
  <2>1. j \in Keys /\ journal[j].op = run[a].told[j]
    BY DEF Inv, ToldMatchesJournal
  <2>2. run[a].told[j] \in KeyedOps
    BY <1>3
  <2> QED
    BY <1>1, <2>1, <2>2, KeyedIsPresent DEF Ops
<1>5. ASSUME run[a].key # CardKey
      PROVE  /\ run[a].key = Len(run[a].told) + 1
             /\ \A j \in 1 .. run[a].key - 1 : Present(j)
  <2>1. run[a].key = Len(run[a].told) + 1
    BY <1>2, <1>5
  <2>2. Len(run[a].told) \in Nat
    BY <1>3
  <2>3. run[a].key - 1 = Len(run[a].told)
    BY <2>1, <2>2
  <2> QED
    BY <1>4, <2>1, <2>3
<1> QED
  BY <1>2, <1>3, <1>5

LEMMA EffectsInOrder_Next ==
  ASSUME Inv, Shape
  PROVE  EffectsInOrder'
<1>1. /\ EffectsInOrder /\ TypeInv
      /\ row.attempt \in 0 .. MaxAttempts
      /\ journal \in [Keys -> [op : Ops \cup {NoOp}, by : 0 .. MaxAttempts]]
  BY DEF Inv, TypeInv, TypeOK, Rows
<1>2. CASE ~Writes
  <2>1. journal' = journal /\ row'.attempt \in {row.attempt, row.attempt + 1}
    BY <1>2 DEF Shape, Quiet, SameTurn, Claims, Books, GivesBack, Fails, Answers, Closes
  <2> QED
    BY <1>1, <2>1 DEF EffectsInOrder, Present, Keys, CardKey
<1>3. CASE Writes
  <2>1. PICK a \in Attempts :
          /\ Held(a) /\ At(a, "commit") /\ journal[run[a].key] = NoEffect
          /\ journal' = [journal EXCEPT ![run[a].key] = [op |-> run[a].op, by |-> a]]
          /\ row' = row
    BY <1>3 DEF Writes
  <2> DEFINE key == run[a].key
             op == run[a].op
  <2>2. a = row.attempt /\ a \in 1 .. row.attempt
    BY <2>1, HolderIsLast DEF Attempts
  <2>3. key \in Keys /\ op \in Ops
        /\ (key # CardKey => \A j \in 1 .. key - 1 : Present(j))
    BY <2>1, WriterKey
  <2>4. journal'[key] = [op |-> op, by |-> a] /\ journal'[key].by = a
    BY <1>1, <2>1, <2>3
  <2>5. \A k \in Keys : k # key => journal'[k] = journal[k]
    BY <1>1, <2>1, <2>3
  <2>6. ~Present(key) /\ journal'[key] # NoEffect
    BY <2>1, <2>3, <2>4, ConstantsAssumption DEF Present, NoEffect, Ops
  <2> HIDE DEF key, op
  <2>7. \A k \in Keys : k # key => (Present(k)' <=> Present(k))
    BY <2>5 DEF Present
  <2> SUFFICES ASSUME NEW k \in Keys \ {CardKey}, Present(k)', NEW j \in 1 .. k - 1
               PROVE  Present(j)' /\ journal'[j].by <= journal'[k].by
    <3>1. ASSUME NEW k \in Keys \ {CardKey}, Present(k)'
          PROVE  journal'[k].by \in 1 .. row'.attempt
      BY <1>1, <2>1, <2>2, <2>4, <2>5, <2>7, <3>1 DEF EffectsInOrder
    <3> QED
      BY <3>1 DEF EffectsInOrder
  <2>8. j \in Keys \ {CardKey} /\ k \in Nat
    BY ConstantsAssumption DEF Keys, CardKey
  <2>9. CASE k = key
    <3>1. Present(j) /\ j # key
      BY <2>3, <2>8, <2>9
    <3>2. journal[j].by \in 1 .. row.attempt
      BY <1>1, <2>8, <3>1 DEF EffectsInOrder
    <3> QED
      BY <2>2, <2>4, <2>5, <2>7, <2>8, <2>9, <3>1, <3>2
  <2>10. CASE k # key
    <3>1. Present(k) /\ journal'[k] = journal[k]
      BY <2>5, <2>7, <2>10
    <3>2. Present(j) /\ journal[j].by <= journal[k].by
      BY <1>1, <3>1 DEF EffectsInOrder
    <3>3. j # key
      BY <2>6, <3>2
    <3> QED
      BY <2>5, <2>7, <2>8, <3>1, <3>2, <3>3
  <2> QED
    BY <2>9, <2>10
<1> QED
  BY <1>2, <1>3

\* Effects are never rewritten.
LEMMA JournalGrows ==
  ASSUME Inv, Shape, NEW k \in Keys, Present(k)
  PROVE  journal'[k] = journal[k]
<1>1. CASE ~Writes
  BY <1>1 DEF Shape, Quiet, Claims, Books, GivesBack, Fails, Answers, Closes
<1>2. CASE Writes
  BY <1>2 DEF Writes, Present, Inv, TypeInv, TypeOK
<1> QED
  BY <1>1, <1>2

LEMMA ToldMatchesJournal_Next ==
  ASSUME Inv, Shape, RunShape
  PROVE  ToldMatchesJournal'
<1> SUFFICES ASSUME NEW a \in Attempts, NEW n \in 1 .. Len(run'[a].told)
             PROVE  n \in Keys /\ journal'[n].op = run'[a].told[n]
  BY DEF ToldMatchesJournal
<1>1. TypeInv /\ run[a].told \in Seq(KeyedOps)
  BY DEF Inv, TypeInv, TypeOK, Routines
<1>2. ASSUME NEW m \in 1 .. Len(run[a].told)
      PROVE  m \in Keys /\ journal'[m].op = run[a].told[m]
  <2>1. m \in Keys /\ journal[m].op = run[a].told[m]
    BY DEF Inv, ToldMatchesJournal
  <2>2. Present(m)
    BY <1>1, <2>1, KeyedIsPresent DEF Ops
  <2> QED
    BY <2>1, <2>2, JournalGrows
<1>3. CASE run'[a].told = run[a].told
  BY <1>2, <1>3
<1>4. CASE run'[a].told = <<>>
  BY <1>4
<1>5. CASE Learns(a)
  <2>1. PICK op \in KeyedOps :
          /\ run'[a].told = Append(run[a].told, op)
          /\ journal'[Len(run[a].told) + 1].op = op
    BY <1>5 DEF Learns
  <2>2. CASE n = Len(run[a].told) + 1
    BY <1>1, <1>5, <2>1, <2>2 DEF Learns
  <2>3. CASE n \in 1 .. Len(run[a].told)
    BY <1>1, <1>2, <2>1, <2>3
  <2> QED
    BY <1>1, <2>1, <2>2, <2>3
<1> QED
  BY <1>3, <1>4, <1>5 DEF RunShape, Steps, Moves, StartsEffect, Refunds

LEMMA CommitKeyIsFree_Next ==
  ASSUME Inv, Shape, RunShape
  PROVE  CommitKeyIsFree'
<1> SUFFICES ASSUME NEW a \in Attempts, run'[a].pc = "commit",
                    row'.status = "RUNNING", row'.token = a
             PROVE  journal'[run'[a].key] = NoEffect
  BY DEF CommitKeyIsFree, At, Held, Present
<1>1. Held(a)
  <2>1. CASE Claims
    <3>1. a = row.attempt + 1
      BY <2>1 DEF Claims
    <3> QED
      BY <2>1, <3>1 DEF Claims
  <2>2. CASE ~Claims
    <3>1. row.status = "RUNNING" /\ row'.token \in {0, row.token}
      BY <2>2 DEF Shape, Quiet, SameTurn, Books, GivesBack, Fails, Answers, Closes,
                  Writes
    <3>2. a # 0
      BY DEF Attempts
    <3> QED
      BY <3>1, <3>2 DEF Held
  <2> QED
    BY <2>1, <2>2
<1>2. journal[run'[a].key] = NoEffect
  <2>1. CASE run'[a] = run[a]
    BY <1>1, <2>1 DEF Inv, CommitKeyIsFree, At, Present
  <2>2. CASE Steps(a)
    BY <2>2 DEF Steps, Moves, StartsEffect, Learns, Refunds
  <2> QED
    BY <2>1, <2>2 DEF RunShape
<1>3. ~Writes
  <2>1. ASSUME NEW b \in Attempts, Held(b), run'[b].pc # "commit"
        PROVE  FALSE
    BY <1>1, <2>1, HolderIsLast
  <2> QED
    BY <2>1 DEF Writes
<1>4. journal' = journal
  BY <1>3 DEF Shape, Quiet, Claims, Books, GivesBack, Fails, Answers, Closes
<1> QED
  BY <1>2, <1>4

LEMMA InvNext == Inv /\ [Next]_vars => Inv'
<1> SUFFICES ASSUME Inv, [Next]_vars PROVE Inv'
  OBVIOUS
<1>1. Shape /\ RunShape /\ TypeInv'
  BY NextShape, NextRunShape, TypeInv_Next DEF Inv
<1> QED
  BY <1>1, TokenIsLast_Next, RefundAfterClose_Next, QuotaMatchesRefund_Next,
     DoneHasItsAnswer_Next, EffectsInOrder_Next, ToldMatchesJournal_Next,
     CommitKeyIsFree_Next DEF Inv

LEMMA Invariance == Spec => []Inv
  BY InitInv, InvNext, PTL DEF Spec

-----------------------------------------------------------------------------
(* What the system guarantees                                              *)

\* The quota counter agrees with the refund flag, and a turn with a booked cost
\* stays charged, however the four refunding transactions interleave.
THEOREM QuotaCorrect == Spec => []QuotaMatchesRefund
  BY Invariance, PTL DEF Inv

\* A turn is DONE exactly with its one answer, written by the last attempt and
\* carrying the saved card.
THEOREM AnswerCorrect == Spec => []DoneHasItsAnswer
  BY Invariance, PTL DEF Inv

\* Keyed effects have no gaps and come in the order of the attempts, a recovered
\* attempt is told only what the journal holds, and the holder of the lease never
\* collides with an effect already committed.
THEOREM JournalCorrect == Spec => []JournalHolds
  BY Invariance, PTL DEF Inv, JournalHolds

LEMMA ClosedStep ==
  ASSUME Inv, [Next]_vars, row.status # "RUNNING"
  PROVE  /\ row'.status = row.status
         /\ UNCHANGED <<answer, journal>>
         /\ row'.attempt = row.attempt
<1>1. Shape
  BY NextShape DEF Inv
<1> QED
  BY <1>1 DEF Shape, Quiet, SameTurn, Claims, Books, GivesBack, Fails, Answers,
              Closes, Writes, Held

\* A closed turn is never closed again, answered, claimed or written to.
THEOREM ClosedForGood == Spec => ClosedIsFinal
<1>1. Inv /\ [Next]_vars =>
        [row.status # "RUNNING" =>
           /\ row'.status = row.status
           /\ UNCHANGED <<answer, journal>>
           /\ row'.attempt = row.attempt]_vars
  BY ClosedStep
<1> QED
  BY <1>1, Invariance, PTL DEF Spec, ClosedIsFinal

LEMMA WriteStep ==
  ASSUME Inv, [Next]_vars, NEW k \in Keys, journal'[k] # journal[k]
  PROVE  /\ ~Present(k)
         /\ row.status = "RUNNING"
         /\ journal'[k].by = row.attempt
<1>1. Shape
  BY NextShape DEF Inv
<1>2. Writes
  BY <1>1 DEF Shape, Quiet, Claims, Books, GivesBack, Fails, Answers, Closes
<1>3. PICK a \in Attempts :
        /\ Held(a) /\ journal[run[a].key] = NoEffect
        /\ journal' = [journal EXCEPT ![run[a].key] = [op |-> run[a].op, by |-> a]]
  BY <1>2 DEF Writes
<1>4. k = run[a].key /\ journal'[k] = [op |-> run[a].op, by |-> a]
  BY <1>3 DEF Inv, TypeInv, TypeOK
<1>5. journal'[k].by = a
  BY <1>4
<1> QED
  BY <1>3, <1>4, <1>5, HolderIsLast DEF Present

\* Every effect is written once, while the turn runs, by the attempt that claimed
\* it last.
THEOREM WritesAreFenced == Spec => FencedWrites
<1>1. Inv /\ [Next]_vars =>
        [\A k \in Keys : journal'[k] # journal[k] =>
           /\ ~Present(k)
           /\ row.status = "RUNNING"
           /\ journal'[k].by = row.attempt]_vars
  BY WriteStep
<1> QED
  BY <1>1, Invariance, PTL DEF Spec, FencedWrites

-----------------------------------------------------------------------------
(* The contract                                                            *)

Saved == {<<k, journal[k].op>> : k \in {j \in Keys : Present(j)}}

LEMMA InitContract == Init => Contract!Init
<1> SUFFICES ASSUME Init PROVE Contract!Init
  OBVIOUS
<1>1. \A k \in Keys : ~Present(k)
  BY DEF Init, Present
<1>2. Saved = {}
  BY <1>1 DEF Saved
<1>3. row.status = "RUNNING" /\ row.cost = 0 /\ messages # 0 /\ answer = NoAnswer
  BY DEF Init
<1> QED
  BY <1>2, <1>3 DEF Contract!Init, Saved

LEMMA SavedUnchanged ==
  ASSUME UNCHANGED journal
  PROVE  Saved' = Saved
  BY DEF Saved, Present

LEMMA NextContract ==
  ASSUME Inv, [Next]_vars
  PROVE  [Contract!Next]_(Contract!cvars)
<1>1. Shape
  BY NextShape DEF Inv
<1>2. /\ QuotaMatchesRefund /\ DoneHasItsAnswer
      /\ row.cost \in Nat /\ row.refunded \in BOOLEAN /\ messages \in Nat
  BY DEF Inv, TypeInv, TypeOK, Rows
<1>3. CASE Quiet \/ Claims
  <2>1. UNCHANGED <<row.status, row.cost, messages, answer, journal>>
    BY <1>3 DEF Quiet, SameTurn, Claims
  <2> QED
    BY <2>1, SavedUnchanged DEF Contract!cvars, Saved
<1>4. CASE Books
  <2>1. UNCHANGED <<row.status, answer, journal>> /\ row'.cost = row.cost + 1
    BY <1>4 DEF Books
  <2>2. messages' # 0
    BY <1>2, <1>4 DEF Books, QuotaMatchesRefund
  <2> QED
    BY <2>1, <2>2, SavedUnchanged DEF Contract!Next, Contract!Spend, Saved
<1>5. CASE GivesBack
  <2>1. /\ UNCHANGED <<row.status, row.cost, answer, journal>>
        /\ row.status = "FAILED"
    BY <1>5 DEF GivesBack, SameTurn
  <2>2. messages' = messages \/ (row.cost = 0 /\ messages' = 0)
    BY <1>2, <1>5 DEF GivesBack, Returned, QuotaMatchesRefund
  <2>3. CASE messages' = messages
    BY <2>1, <2>3, SavedUnchanged DEF Contract!cvars, Saved
  <2>4. CASE row.cost = 0 /\ messages' = 0
    BY <2>1, <2>4, SavedUnchanged DEF Contract!Next, Contract!GiveBack, Saved
  <2> QED
    BY <2>2, <2>3, <2>4
<1>6. ASSUME NEW status \in {"DONE", "FAILED"}, Closes(status)
      PROVE  /\ row.status = "RUNNING" /\ row'.status = status
             /\ UNCHANGED <<row.cost, journal>>
             /\ (messages' # 0) \in {messages # 0, row.cost # 0}
  <2>1. messages' = messages \/ (row.cost = 0 /\ messages' = 0)
    BY <1>2, <1>6 DEF Closes, Returned, QuotaMatchesRefund
  <2>2. (messages' # 0) \in {messages # 0, row.cost # 0}
    <3>1. CASE messages' = messages
      BY <3>1
    <3>2. CASE row.cost = 0 /\ messages' = 0
      BY <3>2
    <3> QED
      BY <2>1, <3>1, <3>2
  <2> QED
    BY <1>6, <2>2 DEF Closes
<1>7. CASE Fails
  <2>1. UNCHANGED answer /\ Closes("FAILED")
    BY <1>7 DEF Fails
  <2> QED
    BY <1>6, <2>1, SavedUnchanged
       DEF Contract!Next, Contract!Finish, Contract!MayGiveBack, Saved
<1>8. CASE Answers
  <2>1. Closes("DONE") /\ answer' # NoAnswer
    BY <1>8 DEF Answers, NoAnswer, Attempts
  <2> QED
    BY <1>6, <2>1, SavedUnchanged
       DEF Contract!Next, Contract!Finish, Contract!MayGiveBack, Saved
<1>9. CASE Writes
  <2>1. PICK a \in Attempts :
          /\ Held(a) /\ At(a, "commit") /\ journal[run[a].key] = NoEffect
          /\ journal' = [journal EXCEPT ![run[a].key] = [op |-> run[a].op, by |-> a]]
          /\ UNCHANGED <<row, messages, answer>>
    BY <1>9 DEF Writes
  <2> DEFINE key == run[a].key
             op == run[a].op
             e == <<key, op>>
  <2>2. key \in Keys /\ op \in Ops
    BY <2>1, WriterKey
  <2>3. row.status = "RUNNING"
    BY <2>1 DEF Held
  <2>4. /\ journal'[key] = [op |-> op, by |-> a]
        /\ journal'[key].op = op
        /\ journal'[key] # NoEffect
    BY <2>1, <2>2, ConstantsAssumption DEF NoEffect, Ops, Inv, TypeInv, TypeOK
  <2>5. \A k \in Keys : k # key => journal'[k] = journal[k]
    BY <2>1, <2>2 DEF Inv, TypeInv, TypeOK
  <2>6. e \in (Keys \X Ops) \ Saved
    BY <2>1, <2>2 DEF Saved, Present
  <2>7. Saved' = Saved \cup {e}
    BY <2>1, <2>2, <2>4, <2>5 DEF Saved, Present
  <2> QED
    BY <2>1, <2>3, <2>6, <2>7 DEF Contract!Next, Contract!AddEffect, Saved
<1> QED
  BY <1>1, <1>3, <1>4, <1>5, <1>7, <1>8, <1>9 DEF Shape

\* The racing, crashing workers, the sweeper and "stop" together implement the
\* contract of one turn.
THEOREM ContractKept == Spec => KeepsContract
  BY InitContract, NextContract, Invariance, PTL DEF Spec, KeepsContract, Contract!Spec

-----------------------------------------------------------------------------
(* The ledger: what a routine owes it                                      *)

\* A routine that has not begun, or is leaving, has no booking to repeat.
Resting == {"idle", "claimed", "reserved", "refund", "ended"}

NothingOwed == \A a \in Attempts : run[a].pc \in Resting => run[a].retry = {}

\* Attempts that nobody claimed yet have not begun.
LaterAreIdle ==
  \A a \in Attempts : a > row.attempt => At(a, "idle") /\ run[a].proc = Nobody

\* What an attempt still has to book are calls of its own, which cost something
\* only if they were paid for.
OwnCalls ==
  \A a \in Attempts : \A c \in run[a].retry : c.by = a /\ (c.paid => c \in paidFor)

OnlyPaid == \A c \in paidFor : c.paid

CallInHand ==
  \A a \in Attempts : At(a, "record") /\ run[a].paid => LastCall(a) \in paidFor

\* The number of a call that was booked, or is to be booked again, is used up.
Before(a, c) ==
  IF run[a].pc \in {"model", "record"} THEN c.idx < run[a].calls
  ELSE c.idx <= run[a].calls

Numbered ==
  \A a \in Attempts : ~At(a, "ended") =>
    \A c \in booked \cup run[a].retry : c.by = a => Before(a, c)

\* One key, one call.
Keyed ==
  \A a \in Attempts : \A b, c \in booked \cup run[a].retry :
    CallKey(b) = CallKey(c) => b = c

MoneyInv ==
  /\ NothingOwed /\ LaterAreIdle /\ OwnCalls /\ OnlyPaid /\ CallInHand
  /\ Numbered /\ Keyed
  /\ IsFiniteSet(booked)
  /\ NoPaidCallVanishes

\* The routine goes on without touching its calls.
GoesOn(r, s) ==
  /\ r.pc \notin {"record", "ended", "idle"}
  /\ s.pc \notin {"model", "record", "ended", "idle"}
  /\ s.retry = r.retry /\ s.calls = r.calls
  /\ s.pc \in Resting => r.retry = {} \/ r.pc \in Resting

\* It ends, owing nothing.
Ends(r, s) ==
  /\ r.pc \notin {"record", "idle"}
  /\ r.retry = {} \/ r.pc \in Resting
  /\ s.pc = "ended" /\ s.retry = {}

Passes(a) == Others(a) /\ (GoesOn(run[a], run'[a]) \/ Ends(run[a], run'[a]))

SameBooks ==
  /\ UNCHANGED <<booked, paidFor, gone>>
  /\ row'.cost = row.cost /\ row'.attempt = row.attempt

GoesTo(a, pc) ==
  /\ run'[a].pc = pc /\ run'[a].retry = run[a].retry /\ run'[a].calls = run[a].calls
  /\ Others(a)

LEMMA ThrowGoes ==
  ASSUME TypeInv, NEW a \in Attempts, NEW reason, Throw(a, reason)
  PROVE  GoesTo(a, "settle")
<1> DEFINE r == [run[a] EXCEPT !.pc = "settle", !.goal = GoalFor(reason),
                               !.key = 0, !.op = NoOp]
<1>1. Put(a, r)
  BY DEF Throw, Put
<1>2. r.pc = "settle" /\ r.retry = run[a].retry /\ r.calls = run[a].calls
  BY DEF TypeInv, TypeOK, Routines
<1> QED
  BY <1>1, <1>2, Replaced DEF GoesTo

LEMMA GotoGoes ==
  ASSUME TypeInv, NEW a \in Attempts, NEW pc, Goto(a, pc)
  PROVE  GoesTo(a, pc)
<1> DEFINE r == [run[a] EXCEPT !.pc = pc]
<1>1. Put(a, r)
  BY DEF Goto, Put
<1>2. r.pc = pc /\ r.retry = run[a].retry /\ r.calls = run[a].calls
  BY DEF TypeInv, TypeOK, Routines
<1> QED
  BY <1>1, <1>2, Replaced DEF GoesTo

LEMMA RecognizeGoes ==
  ASSUME TypeInv, NEW a \in Attempts, NEW key, NEW op, Recognize(a, key, op)
  PROVE  GoesTo(a, "tools")
<1> DEFINE same == journal[key].op = op
           told == IF same /\ op \in KeyedOps THEN Append(run[a].told, op)
                   ELSE run[a].told
           card == IF op \in KeyedOps THEN run[a].card
                   ELSE IF same THEN "ends" ELSE "kept"
           r == [run[a] EXCEPT !.pc = "tools", !.key = 0, !.op = NoOp,
                               !.told = told, !.card = card]
<1>1. Put(a, r)
  BY DEF Recognize, Put
<1> HIDE DEF told, card
<1>2. r.pc = "tools" /\ r.retry = run[a].retry /\ r.calls = run[a].calls
  BY DEF TypeInv, TypeOK, Routines
<1> QED
  BY <1>1, <1>2, Replaced DEF GoesTo

LEMMA ToldGoes ==
  ASSUME TypeInv, NEW a \in Attempts, Told(a) \/ Refused(a)
  PROVE  GoesTo(a, "tools")
<1> DEFINE told == IF run[a].op \in KeyedOps THEN Append(run[a].told, run[a].op)
                   ELSE run[a].told
           card == IF run[a].op \in CardOps THEN "ends" ELSE run[a].card
           r == [run[a] EXCEPT !.pc = "tools", !.key = 0, !.op = NoOp,
                               !.told = told, !.card = card]
           s == [run[a] EXCEPT !.pc = "tools", !.key = 0, !.op = NoOp]
<1>1. Put(a, r) \/ Put(a, s)
  BY DEF Told, Refused, Put
<1> HIDE DEF told, card
<1>2. /\ r.pc = "tools" /\ r.retry = run[a].retry /\ r.calls = run[a].calls
      /\ s.pc = "tools" /\ s.retry = run[a].retry /\ s.calls = run[a].calls
  BY DEF TypeInv, TypeOK, Routines
<1> QED
  BY <1>1, <1>2, Replaced DEF GoesTo

\* A routine that ends owing nothing passes.
LEMMA EndPasses ==
  ASSUME TypeInv, NEW a \in Attempts, NEW p, Put(a, Done(p)),
         run[a].pc \notin {"record", "idle"}, run[a].retry = {} \/ run[a].pc \in Resting
  PROVE  Passes(a)
<1>1. Done(p).pc = "ended" /\ Done(p).retry = {}
  BY DEF Done, Blank
<1> QED
  BY <1>1, Replaced DEF Passes, Ends

\* The row steps that leave the books alone.
LEMMA RowKeepsBooks ==
  ASSUME row \in Rows
  PROVE  /\ \A s : Closed(s).cost = row.cost /\ Closed(s).attempt = row.attempt
         /\ Released.cost = row.cost /\ Released.attempt = row.attempt
         /\ \A l : /\ [row EXCEPT !.lease = l].cost = row.cost
                   /\ [row EXCEPT !.lease = l].attempt = row.attempt
         /\ [row EXCEPT !.cancel = TRUE].cost = row.cost
         /\ [row EXCEPT !.cancel = TRUE].attempt = row.attempt
  BY DEF Closed, Released, Rows

\* Every step of a routine but its model calls and their booking.
LEMMA RoutinePasses ==
  ASSUME TypeInv, NEW a \in Attempts,
         \/ TakeClaim(a) \/ Start(a) \/ StartFails(a) \/ Prelude(a) \/ FirstCheck(a)
         \/ (Round(a) /\ Throw(a, Ctl(a)))
         \/ ModelFails(a) \/ Decide(a) \/ \E op \in Ops : CallTool(a, op)
         \/ Commit(a) \/ CardEndsTurn(a) \/ EndTools(a)
         \/ Answer(a) \/ Fail(a) \/ FailRefund(a) \/ AlreadyClosed(a) \/ GiveUp(a)
         \/ Renew(a) \/ RenewGivesUp(a) \/ DeadlineTimer(a)
  PROVE  (UNCHANGED run \/ Passes(a)) /\ SameBooks
<1>1. row \in Rows /\ Closed("DONE") \in Rows
  BY RowType DEF TypeInv, TypeOK
<1>2. ASSUME NEW pc, GoesTo(a, pc),
             pc \notin {"model", "record", "ended", "idle"},
             run[a].pc \notin {"record", "ended", "idle"},
             pc \in Resting => run[a].retry = {} \/ run[a].pc \in Resting
      PROVE  Passes(a)
  BY <1>2 DEF GoesTo, Passes, GoesOn
<1>3. ASSUME row' = row, UNCHANGED <<booked, paidFor, gone>>
      PROVE  SameBooks
  BY <1>3 DEF SameBooks
<1>4. CASE TakeClaim(a)
  <2>1. run[a].pc = "claimed" /\ UNCHANGED <<booked, paidFor, gone>>
        /\ row' \in {row, Released}
    BY <1>4 DEF TakeClaim, At
  <2>2. Goto(a, "reserved") \/ Put(a, Done(run[a].proc))
    BY <1>4 DEF TakeClaim, Put
  <2>3. Passes(a)
    BY <1>2, <2>1, <2>2, GotoGoes, EndPasses DEF Resting
  <2>4. SameBooks
    BY <1>1, <2>1, RowKeepsBooks DEF SameBooks
  <2> QED
    BY <2>3, <2>4
<1>5. CASE Start(a)
  <2> DEFINE p == run[a].proc
             c == IF proc[p].running = 0 THEN a ELSE proc[p].running
             reason == IF proc[p].running = 0 THEN "none" ELSE abort[c]
             pc == IF reason = "none" THEN "prelude" ELSE "settle"
             goal == IF reason = "none" THEN "none" ELSE GoalFor(reason)
             r == [run[a] EXCEPT !.ctl = c, !.pc = pc, !.goal = goal]
  <2>1. /\ Put(a, r) /\ pc \in {"prelude", "settle"} /\ run[a].pc = "reserved"
        /\ row' = row /\ UNCHANGED <<booked, paidFor, gone>>
    BY <1>5 DEF Start, Put, At
  <2> HIDE DEF c, pc, goal
  <2>2. r.pc = pc /\ r.retry = run[a].retry /\ r.calls = run[a].calls
    BY DEF TypeInv, TypeOK, Routines
  <2>3. GoesTo(a, pc)
    BY <2>1, <2>2, Replaced DEF GoesTo
  <2>4. Passes(a)
    BY <1>2, <2>1, <2>3 DEF Resting
  <2> QED
    BY <1>3, <2>1, <2>4
<1>6. CASE StartFails(a) \/ FailRefund(a) \/ AlreadyClosed(a) \/ GiveUp(a)
  <2>1. /\ Put(a, Done(run[a].proc)) /\ UNCHANGED <<booked, paidFor, gone>>
        /\ run[a].pc \notin {"record", "idle"}
        /\ run[a].retry = {} \/ run[a].pc \in Resting
    BY <1>6 DEF StartFails, FailRefund, AlreadyClosed, GiveUp, End, Put, At, Settled,
                Resting
  <2>2. Passes(a)
    BY <2>1, EndPasses
  <2>3. row' \in {row, Released} \/ Refund(row)
    BY <1>6 DEF StartFails, FailRefund, AlreadyClosed, GiveUp
  <2>4. SameBooks
    BY <1>1, <2>1, <2>3, RowKeepsBooks, RefundFields DEF SameBooks
  <2> QED
    BY <2>2, <2>4
<1>7. CASE Prelude(a) \/ Decide(a) \/ CardEndsTurn(a)
  <2> DEFINE r(goal) == [run[a] EXCEPT !.pc = "settle", !.goal = goal]
  <2>1. \/ Put(a, r("replay")) \/ Put(a, r("answer"))
        \/ Goto(a, "check") \/ Goto(a, "tools") \/ Throw(a, Ctl(a))
    BY <1>7 DEF Prelude, Decide, CardEndsTurn, Put
  <2>2. ASSUME NEW goal
        PROVE  /\ r(goal).pc = "settle" /\ r(goal).retry = run[a].retry
               /\ r(goal).calls = run[a].calls
    BY DEF TypeInv, TypeOK, Routines
  <2> HIDE DEF r
  <2>3. GoesTo(a, "settle") \/ GoesTo(a, "check") \/ GoesTo(a, "tools")
    BY <2>1, <2>2, Replaced, GotoGoes, ThrowGoes DEF GoesTo
  <2>4. /\ run[a].pc \notin {"record", "ended", "idle"}
        /\ row' = row /\ UNCHANGED <<booked, paidFor, gone>>
    BY <1>7 DEF Prelude, Decide, CardEndsTurn, At
  <2> QED
    BY <1>2, <1>3, <2>3, <2>4 DEF Resting
<1>8. CASE FirstCheck(a) \/ (Round(a) /\ Throw(a, Ctl(a))) \/ ModelFails(a)
  <2>1. \/ Goto(a, "round") \/ Throw(a, ReasonAfter(a)) \/ Throw(a, Ctl(a))
    BY <1>8 DEF FirstCheck, ModelFails
  <2>2. GoesTo(a, "round") \/ GoesTo(a, "settle")
    BY <2>1, GotoGoes, ThrowGoes
  <2>3. /\ run[a].pc \notin {"record", "ended", "idle"}
        /\ row' = row /\ UNCHANGED <<booked, paidFor, gone>>
    BY <1>8 DEF FirstCheck, Round, ModelFails, At
  <2> QED
    BY <1>2, <1>3, <2>2, <2>3 DEF Resting
<1>9. ASSUME NEW op \in Ops, CallTool(a, op)
      PROVE  (UNCHANGED run \/ Passes(a)) /\ SameBooks
  <2> DEFINE key == KeyFor(a, op)
             r == [run[a] EXCEPT !.pc = "commit", !.key = key, !.op = op]
  <2>1. UNCHANGED run \/ Recognize(a, key, op) \/ Put(a, r)
    BY <1>9 DEF CallTool, Put
  <2>2. /\ run[a].pc = "tools"
        /\ row' = row /\ UNCHANGED <<booked, paidFor, gone>>
    BY <1>9 DEF CallTool, At
  <2> HIDE DEF key
  <2>3. r.pc = "commit" /\ r.retry = run[a].retry /\ r.calls = run[a].calls
    BY DEF TypeInv, TypeOK, Routines
  <2>4. UNCHANGED run \/ GoesTo(a, "tools") \/ GoesTo(a, "commit")
    BY <2>1, <2>3, Replaced, RecognizeGoes DEF GoesTo
  <2> QED
    BY <1>2, <1>3, <2>2, <2>4 DEF Resting
<1>10. CASE Commit(a)
  <2>1. Refused(a) \/ Told(a) \/ Recognize(a, run[a].key, run[a].op)
    BY <1>10 DEF Commit
  <2>2. GoesTo(a, "tools")
    BY <2>1, ToldGoes, RecognizeGoes
  <2>3. /\ run[a].pc = "commit"
        /\ row' = row /\ UNCHANGED <<booked, paidFor, gone>>
    BY <1>10 DEF Commit, At
  <2> QED
    BY <1>2, <1>3, <2>2, <2>3 DEF Resting
<1>11. CASE EndTools(a)
  <2> DEFINE card == IF run[a].card = "ends" THEN "kept" ELSE run[a].card
             r == [run[a] EXCEPT !.pc = "round", !.card = card]
  <2>1. Put(a, r)
    BY <1>11 DEF EndTools, Put
  <2> HIDE DEF card
  <2>2. r.pc = "round" /\ r.retry = run[a].retry /\ r.calls = run[a].calls
    BY DEF TypeInv, TypeOK, Routines
  <2>3. GoesTo(a, "round")
    BY <2>1, <2>2, Replaced DEF GoesTo
  <2>4. /\ run[a].pc = "tools"
        /\ row' = row /\ UNCHANGED <<booked, paidFor, gone>>
    BY <1>11 DEF EndTools, At
  <2> QED
    BY <1>2, <1>3, <2>3, <2>4 DEF Resting
<1>12. CASE Answer(a)
  <2>1. /\ run[a].pc = "settle" /\ run[a].retry = {}
        /\ UNCHANGED <<booked, paidFor, gone>>
    BY <1>12 DEF Answer, Settled, At
  <2>2. Throw(a, Ctl(a)) \/ Put(a, Done(run[a].proc))
    BY <1>12 DEF Answer, End, Put
  <2>3. Passes(a)
    BY <1>2, <2>1, <2>2, ThrowGoes, EndPasses DEF Resting
  <2>4. row' \in {row, Closed("DONE")} \/ Refund(Closed("DONE"))
    BY <1>12 DEF Answer
  <2>5. SameBooks
    BY <1>1, <2>1, <2>4, RowKeepsBooks, RefundFields DEF SameBooks
  <2> QED
    BY <2>3, <2>5
<1>13. CASE Fail(a)
  <2>1. /\ run[a].pc = "settle" /\ run[a].retry = {}
        /\ UNCHANGED <<booked, paidFor, gone>>
        /\ row' \in {row, Closed("FAILED")}
    BY <1>13 DEF Fail, Settled, At
  <2>2. Goto(a, "refund") \/ Put(a, Done(run[a].proc))
    BY <1>13 DEF Fail, End, Put
  <2>3. Passes(a)
    BY <1>2, <2>1, <2>2, GotoGoes, EndPasses DEF Resting
  <2>4. SameBooks
    BY <1>1, <2>1, RowKeepsBooks DEF SameBooks
  <2> QED
    BY <2>3, <2>4
<1>14. CASE Renew(a) \/ RenewGivesUp(a) \/ DeadlineTimer(a)
  <2>1. /\ UNCHANGED run /\ UNCHANGED <<booked, paidFor, gone>>
        /\ row' \in {row, [row EXCEPT !.lease = "live"]}
    BY <1>14 DEF Renew, RenewGivesUp, DeadlineTimer
  <2> QED
    BY <1>1, <2>1, RowKeepsBooks DEF SameBooks
<1>15. CASE \E op \in Ops : CallTool(a, op)
  BY <1>9, <1>15
<1> HIDE DEF SameBooks, Passes
<1> QED
  BY <1>4, <1>5, <1>6, <1>7, <1>8, <1>10, <1>11, <1>12, <1>13, <1>14, <1>15

\* The paid rows of the ledger, which the cost of the turn counts.
PaidRows == {c \in booked : c.paid}

LEMMA CallFields ==
  ASSUME TypeInv, NEW a \in Attempts
  PROVE  /\ LastCall(a).by = a /\ LastCall(a).idx = run[a].calls
         /\ LastCall(a).paid = run[a].paid
         /\ run[a].calls \in Nat
         /\ run[a].retry \subseteq Calls
         /\ booked \subseteq Calls
  BY DEF LastCall, TypeInv, TypeOK, Routines

\* What is in memory depends on the routine alone.
LEMMA PassKeepsMemory ==
  ASSUME MoneyInv, NEW a \in Attempts, Passes(a)
  PROVE  \A b \in Attempts : InMemory(b) \subseteq InMemory(b)'
<1>1. InMemory(a) \subseteq InMemory(a)'
  BY DEF MoneyInv, NothingOwed, Passes, GoesOn, Ends, InMemory, At, Resting
<1>2. ASSUME NEW b \in Attempts, b # a
      PROVE  InMemory(b) = InMemory(b)'
  BY <1>2 DEF Passes, Others, InMemory, At, LastCall
<1> QED
  BY <1>1, <1>2

\* The routines change no call and the books stay as they were.
LEMMA PassKeepsMoney ==
  ASSUME TypeInv, MoneyInv, NEW a \in Attempts, Passes(a), SameBooks
  PROVE  MoneyInv'
<1>1. ASSUME NEW b \in Attempts, b # a
      PROVE  run'[b] = run[b]
  BY <1>1 DEF Passes, Others
<1>2. NothingOwed'
  <2>1. run'[a].pc \in Resting => run'[a].retry = {}
    BY DEF MoneyInv, NothingOwed, Passes, GoesOn, Ends
  <2> QED
    BY <1>1, <2>1 DEF MoneyInv, NothingOwed
<1>3. LaterAreIdle'
  <2>1. ~(a > row.attempt)
    BY DEF MoneyInv, LaterAreIdle, Passes, GoesOn, Ends, At
  <2> QED
    BY <1>1, <2>1 DEF MoneyInv, LaterAreIdle, SameBooks, At
<1>4. run'[a].retry \subseteq run[a].retry
  BY DEF Passes, GoesOn, Ends
<1>5. OwnCalls'
  BY <1>1, <1>4 DEF MoneyInv, OwnCalls, SameBooks
<1>6. CallInHand'
  <2>1. run'[a].pc # "record"
    BY DEF Passes, GoesOn, Ends
  <2> QED
    BY <1>1, <2>1 DEF MoneyInv, CallInHand, At, LastCall, SameBooks
<1>7. Numbered'
  <2>1. ASSUME NEW b \in Attempts, b # a, ~At(b, "ended")',
               NEW c \in booked' \cup run'[b].retry, c.by = b
        PROVE  Before(b, c)'
    BY <1>1, <2>1 DEF MoneyInv, Numbered, At, Before, SameBooks
  <2>2. ASSUME ~At(a, "ended")', NEW c \in booked' \cup run'[a].retry, c.by = a
        PROVE  Before(a, c)'
    <3>1. GoesOn(run[a], run'[a])
      BY <2>2 DEF Passes, Ends, At
    <3>2. c \in booked \cup run[a].retry /\ ~At(a, "ended")
      BY <2>2, <3>1, <1>4 DEF GoesOn, SameBooks, At
    <3>3. Before(a, c)
      BY <2>2, <3>2 DEF MoneyInv, Numbered
    <3>4. c.idx \in Nat /\ run[a].calls \in Nat
      BY <3>2, CallFields DEF Calls
    <3> QED
      BY <3>1, <3>3, <3>4 DEF GoesOn, Before
  <2> QED
    BY <2>1, <2>2 DEF Numbered
<1>8. Keyed'
  <2>1. \A b \in Attempts : run'[b].retry \subseteq run[b].retry
    BY <1>1, <1>4
  <2> QED
    BY <2>1 DEF MoneyInv, Keyed, SameBooks, CallKey
<1>9. NoPaidCallVanishes'
  <2>1. \A b \in Attempts : InMemory(b) \subseteq InMemory(b)'
    BY PassKeepsMemory
  <2>2. UNION {InMemory(b) : b \in Attempts} \subseteq UNION {InMemory(b)' : b \in Attempts}
    BY <2>1
  <2> QED
    BY <2>2 DEF MoneyInv, NoPaidCallVanishes, SameBooks
<1> QED
  BY <1>2, <1>3, <1>5, <1>6, <1>7, <1>8, <1>9 DEF MoneyInv, SameBooks, OnlyPaid

\* No routine moves and the books stay as they were.
LEMMA StillKeepsMoney ==
  ASSUME MoneyInv, UNCHANGED run, SameBooks
  PROVE  MoneyInv'
<1>1. /\ NothingOwed' /\ OwnCalls' /\ CallInHand'
  BY DEF MoneyInv, NothingOwed, OwnCalls, CallInHand, SameBooks, At, LastCall
<1>2. Numbered' /\ Keyed' /\ LaterAreIdle'
  BY DEF MoneyInv, LaterAreIdle, Numbered, Keyed, SameBooks, At, Before, CallKey
<1>3. NoPaidCallVanishes'
  BY DEF MoneyInv, NoPaidCallVanishes, SameBooks, InMemory, At, LastCall
<1> QED
  BY <1>1, <1>2, <1>3 DEF MoneyInv, SameBooks, OnlyPaid

-----------------------------------------------------------------------------
(* The ledger: model calls and their booking                               *)

\* The next call: its number is used by no booking, past or to come.
LEMMA RoundKeepsMoney ==
  ASSUME TypeInv, MoneyInv, NEW a \in Attempts, At(a, "round"), SameBooks, Others(a),
         run'[a].pc = "model", run'[a].calls = run[a].calls + 1,
         run'[a].retry = run[a].retry
  PROVE  MoneyInv'
<1>1. ASSUME NEW b \in Attempts, b # a
      PROVE  run'[b] = run[b]
  BY <1>1 DEF Others
<1>2. NothingOwed' /\ OwnCalls'
  BY <1>1 DEF MoneyInv, NothingOwed, OwnCalls, SameBooks, Resting
<1>3. LaterAreIdle'
  BY <1>1 DEF MoneyInv, LaterAreIdle, SameBooks, At
<1>4. CallInHand'
  BY <1>1 DEF MoneyInv, CallInHand, At, LastCall, SameBooks
<1>5. Numbered'
  <2>1. ASSUME NEW b \in Attempts, b # a, ~At(b, "ended")',
               NEW c \in booked' \cup run'[b].retry, c.by = b
        PROVE  Before(b, c)'
    BY <1>1, <2>1 DEF MoneyInv, Numbered, At, Before, SameBooks
  <2>2. ASSUME NEW c \in booked' \cup run'[a].retry, c.by = a
        PROVE  Before(a, c)'
    <3>1. c \in booked \cup run[a].retry
      BY <2>2 DEF SameBooks
    <3>2. Before(a, c)
      BY <2>2, <3>1 DEF MoneyInv, Numbered, At
    <3>3. c.idx \in Nat /\ run[a].calls \in Nat
      BY <3>1, CallFields DEF Calls
    <3> QED
      BY <3>2, <3>3 DEF Before, At
  <2> QED
    BY <2>1, <2>2 DEF Numbered
<1>6. Keyed'
  BY <1>1 DEF MoneyInv, Keyed, SameBooks, CallKey
<1>7. NoPaidCallVanishes'
  <2>1. \A b \in Attempts : InMemory(b) \subseteq InMemory(b)'
    BY <1>1 DEF InMemory, At, LastCall
  <2>2. UNION {InMemory(b) : b \in Attempts} \subseteq UNION {InMemory(b)' : b \in Attempts}
    BY <2>1
  <2> QED
    BY <2>2 DEF MoneyInv, NoPaidCallVanishes, SameBooks
<1> QED
  BY <1>2, <1>3, <1>4, <1>5, <1>6, <1>7 DEF MoneyInv, SameBooks, OnlyPaid

\* The model has answered: what the call cost is in hand.
LEMMA ReturnKeepsMoney ==
  ASSUME TypeInv, MoneyInv, NEW a \in Attempts, ModelReturns(a)
  PROVE  MoneyInv'
<1>1. PICK paid \in Costs :
        /\ run' = [run EXCEPT ![a].pc = "record", ![a].paid = paid,
                              ![a].spent = @ \/ paid]
        /\ paidFor' = IF paid
                      THEN paidFor \cup {[by |-> a, idx |-> run[a].calls, paid |-> TRUE]}
                      ELSE paidFor
  BY DEF ModelReturns
<1>2. At(a, "model") /\ UNCHANGED <<row, booked, gone>>
  BY DEF ModelReturns
<1>3. paid \in BOOLEAN
  BY ConstantsAssumption
<1>4. run[a] \in Routines
  BY DEF TypeInv, TypeOK
<1> DEFINE spent == run[a].spent \/ paid
           r == [run[a] EXCEPT !.pc = "record", !.paid = paid, !.spent = spent]
<1>5. Put(a, r)
  BY <1>1 DEF Put
<1> HIDE DEF spent
<1>6. /\ r.pc = "record" /\ r.calls = run[a].calls /\ r.retry = run[a].retry
      /\ r.paid = paid
  BY <1>4 DEF Routines
<1>7. /\ run'[a].pc = "record" /\ run'[a].calls = run[a].calls
      /\ run'[a].retry = run[a].retry /\ run'[a].paid = paid
      /\ Others(a)
  BY <1>5, <1>6, Replaced
<1>8. ASSUME NEW b \in Attempts, b # a
      PROVE  run'[b] = run[b]
  BY <1>7, <1>8 DEF Others
<1>9. paidFor \subseteq paidFor'
  BY <1>1
<1>10. NothingOwed' /\ OwnCalls'
  BY <1>7, <1>8, <1>9 DEF MoneyInv, NothingOwed, OwnCalls, Resting
<1>11. LaterAreIdle'
  BY <1>2, <1>7, <1>8 DEF MoneyInv, LaterAreIdle, At
<1>12. CallInHand'
  <2>1. ASSUME paid
        PROVE  LastCall(a)' \in paidFor'
    <3>1. paid = TRUE
      BY <1>3, <2>1
    <3>2. LastCall(a)' = [by |-> a, idx |-> run[a].calls, paid |-> TRUE]
      BY <1>7, <3>1 DEF LastCall
    <3> QED
      BY <1>1, <2>1, <3>2
  <2> QED
    BY <2>1, <1>7, <1>8, <1>9 DEF MoneyInv, CallInHand, At, LastCall
<1>13. Numbered'
  BY <1>2, <1>7, <1>8 DEF MoneyInv, Numbered, At, Before
<1>14. Keyed'
  BY <1>2, <1>7, <1>8 DEF MoneyInv, Keyed, CallKey
<1>15. NoPaidCallVanishes'
  <2>1. \A b \in Attempts : InMemory(b) \subseteq InMemory(b)'
    BY <1>2, <1>7, <1>8 DEF InMemory, At, LastCall
  <2>2. UNION {InMemory(b) : b \in Attempts} \subseteq UNION {InMemory(b)' : b \in Attempts}
    BY <2>1
  <2>3. paidFor' \subseteq paidFor \cup InMemory(a)'
    BY <1>1, <1>3, <1>7 DEF InMemory, At, LastCall
  <2>4. row'.cost = Cardinality({c \in booked' : c.paid})
        /\ {c \in booked' : c.paid} \subseteq paidFor'
    BY <1>2, <1>9 DEF MoneyInv, NoPaidCallVanishes
  <2> QED
    BY <1>2, <2>2, <2>3, <2>4 DEF MoneyInv, NoPaidCallVanishes
<1>16. OnlyPaid'
  BY <1>1 DEF MoneyInv, OnlyPaid
<1> QED
  BY <1>2, <1>10, <1>11, <1>12, <1>13, <1>14, <1>15, <1>16 DEF MoneyInv

KnownKey(c) == \E b \in booked : CallKey(b) = CallKey(c)

SameLedger ==
  UNCHANGED booked /\ row'.cost = row.cost /\ row'.attempt = row.attempt

\* A row is added for a key the ledger does not know.
Enters(c) ==
  /\ ~KnownKey(c)
  /\ booked' = booked \cup {c}
  /\ row'.cost = (IF c.paid THEN row.cost + 1 ELSE row.cost)
  /\ row'.attempt = row.attempt

LEMMA BookSteps ==
  ASSUME TypeInv, NEW c, NEW outcome, TryBook(c, outcome)
  PROVE  \/ SameLedger /\ (outcome = "rejected" \/ KnownKey(c))
         \/ Enters(c) /\ outcome # "rejected"
<1>1. row \in Rows
  BY DEF TypeInv, TypeOK
<1>2. CASE outcome = "rejected"
  BY <1>2 DEF TryBook, SameLedger
<1>3. CASE outcome # "rejected" /\ KnownKey(c)
  BY <1>3 DEF TryBook, Book, KnownKey, SameLedger
<1>4. CASE outcome # "rejected" /\ ~KnownKey(c)
  <2>1. /\ booked' = booked \cup {c}
        /\ IF ~c.paid THEN row' = row
           ELSE row' = [row EXCEPT !.cost = @ + 1, !.refunded = FALSE]
    BY <1>4 DEF TryBook, Book, KnownKey
  <2>2. /\ [row EXCEPT !.cost = @ + 1, !.refunded = FALSE].cost = row.cost + 1
        /\ [row EXCEPT !.cost = @ + 1, !.refunded = FALSE].attempt = row.attempt
    BY <1>1 DEF Rows
  <2> QED
    BY <1>4, <2>1, <2>2 DEF Enters
<1> QED
  BY <1>2, <1>3, <1>4

\* The cost of the turn counts the new row exactly if the call was paid for.
LEMMA CostCounts ==
  ASSUME TypeInv, MoneyInv, NEW c, SameLedger \/ Enters(c)
  PROVE  /\ IsFiniteSet(booked')
         /\ row'.cost = Cardinality({b \in booked' : b.paid})
<1>1. IsFiniteSet(booked) /\ row.cost = Cardinality(PaidRows)
  BY DEF MoneyInv, NoPaidCallVanishes, PaidRows
<1>2. IsFiniteSet(PaidRows)
  BY <1>1, FS_Subset DEF PaidRows
<1>3. CASE SameLedger
  BY <1>1, <1>3 DEF SameLedger, PaidRows
<1>4. CASE Enters(c)
  <2>1. c \notin booked
    BY <1>4 DEF Enters, KnownKey
  <2>2. booked' = booked \cup {c}
    BY <1>4 DEF Enters
  <2>3. IsFiniteSet(booked')
    BY <1>1, <2>2, FS_AddElement
  <2>4. CASE c.paid
    <3>1. {b \in booked' : b.paid} = PaidRows \cup {c}
      BY <2>2, <2>4 DEF PaidRows
    <3>2. Cardinality(PaidRows \cup {c}) = Cardinality(PaidRows) + 1
      BY <1>2, <2>1, FS_AddElement DEF PaidRows
    <3> QED
      BY <1>1, <1>4, <2>3, <2>4, <3>1, <3>2 DEF Enters
  <2>5. CASE ~c.paid
    <3>1. {b \in booked' : b.paid} = PaidRows
      BY <2>2, <2>5 DEF PaidRows
    <3> QED
      BY <1>1, <1>4, <2>3, <2>5, <3>1 DEF Enters
  <2> QED
    BY <2>4, <2>5
<1> QED
  BY <1>3, <1>4

\* The call in hand is booked, or kept to be tried once more.
LEMMA RecordKeepsMoney ==
  ASSUME TypeInv, MoneyInv, NEW a \in Attempts, Record(a)
  PROVE  MoneyInv'
<1> DEFINE c == LastCall(a)
<1>1. PICK outcome \in Outcomes :
        /\ TryBook(c, outcome)
        /\ run' = [run EXCEPT ![a].pc = "decide",
                     ![a].retry = IF outcome = "ok" THEN @ ELSE @ \cup {c}]
  BY DEF Record
<1>2. At(a, "record") /\ UNCHANGED <<paidFor, gone>>
  BY DEF Record
<1> DEFINE retry == IF outcome = "ok" THEN run[a].retry ELSE run[a].retry \cup {c}
           r == [run[a] EXCEPT !.pc = "decide", !.retry = retry]
<1>3. Put(a, r)
  BY <1>1 DEF Put
<1>4. retry \subseteq run[a].retry \cup {c} /\ run[a].retry \subseteq retry
      /\ (outcome # "ok" => c \in retry)
  OBVIOUS
<1>5. /\ c.by = a /\ c.idx = run[a].calls /\ c.paid = run[a].paid
      /\ run[a].calls \in Nat
  BY CallFields
<1>6. c.paid => c \in paidFor
  BY <1>2, <1>5 DEF MoneyInv, CallInHand
<1> HIDE DEF retry, c
<1>7. r.pc = "decide" /\ r.retry = retry /\ r.calls = run[a].calls
  BY DEF TypeInv, TypeOK, Routines
<1>8. /\ run'[a].pc = "decide" /\ run'[a].retry = retry
      /\ run'[a].calls = run[a].calls /\ Others(a)
  BY <1>3, <1>7, Replaced
<1>9. ASSUME NEW b \in Attempts, b # a
      PROVE  run'[b] = run[b]
  BY <1>8, <1>9 DEF Others
<1>10. ASSUME NEW d \in booked \cup run[a].retry, d.by = a
       PROVE  d.idx < run[a].calls /\ CallKey(d) # CallKey(c)
  <2>1. d.idx < run[a].calls
    BY <1>2, <1>10 DEF MoneyInv, Numbered, At, Before
  <2>2. d.idx \in Nat
    BY <1>10, CallFields DEF Calls
  <2> QED
    BY <1>5, <2>1, <2>2 DEF CallKey
<1>11. \A d \in booked : CallKey(d) # CallKey(c)
  BY <1>5, <1>10 DEF CallKey
<1>12. \/ SameLedger /\ outcome = "rejected"
       \/ Enters(c) /\ outcome # "rejected"
  BY <1>1, <1>11, BookSteps DEF KnownKey
<1>13. booked' \subseteq booked \cup {c} /\ booked \subseteq booked'
       /\ row'.attempt = row.attempt
  BY <1>12 DEF SameLedger, Enters
<1>14. NothingOwed'
  BY <1>8, <1>9 DEF MoneyInv, NothingOwed, Resting
<1>15. LaterAreIdle'
  BY <1>2, <1>8, <1>9, <1>13 DEF MoneyInv, LaterAreIdle, At
<1>16. OwnCalls'
  <2>1. \A d \in retry : d.by = a /\ (d.paid => d \in paidFor')
    BY <1>2, <1>4, <1>5, <1>6 DEF MoneyInv, OwnCalls
  <2> QED
    BY <2>1, <1>2, <1>8, <1>9 DEF MoneyInv, OwnCalls
<1>17. CallInHand'
  BY <1>2, <1>8, <1>9 DEF MoneyInv, CallInHand, At, LastCall
<1>18. Numbered'
  <2>1. ASSUME NEW b \in Attempts, b # a, ~At(b, "ended")',
               NEW d \in booked' \cup run'[b].retry, d.by = b
        PROVE  Before(b, d)'
    <3>1. d \in booked \cup run[b].retry
      BY <1>5, <1>9, <1>13, <2>1
    <3> QED
      BY <1>9, <2>1, <3>1 DEF MoneyInv, Numbered, At, Before
  <2>2. ASSUME NEW d \in booked' \cup run'[a].retry, d.by = a
        PROVE  Before(a, d)'
    <3>1. d = c \/ d \in booked \cup run[a].retry
      BY <1>4, <1>8, <1>13, <2>2
    <3>2. d.idx <= run[a].calls
      <4>1. CASE d = c
        BY <1>5, <4>1
      <4>2. CASE d \in booked \cup run[a].retry
        <5>1. d.idx \in Nat /\ d.idx < run[a].calls
          BY <1>10, <2>2, <4>2, CallFields DEF Calls
        <5> QED
          BY <1>5, <5>1
      <4> QED
        BY <3>1, <4>1, <4>2
    <3> QED
      BY <1>8, <3>2 DEF Before
  <2> QED
    BY <2>1, <2>2 DEF Numbered
<1>19. Keyed'
  <2>1. ASSUME NEW b \in Attempts, NEW d \in booked' \cup run'[b].retry,
               NEW e \in booked' \cup run'[b].retry, CallKey(d) = CallKey(e)
        PROVE  d = e
    <3>1. d \in booked \cup run[b].retry \cup {c} /\ e \in booked \cup run[b].retry \cup {c}
      BY <1>4, <1>8, <1>9, <1>13
    <3>2. ASSUME NEW f \in booked \cup run[b].retry
          PROVE  CallKey(f) # CallKey(c)
      <4>1. CASE f.by = a
        <5>1. f \in booked \cup run[a].retry
          BY <3>2, <4>1 DEF MoneyInv, OwnCalls
        <5> QED
          BY <1>10, <4>1, <5>1
      <4>2. CASE f.by # a
        BY <1>5, <4>2 DEF CallKey
      <4> QED
        BY <4>1, <4>2
    <3>3. d \in booked \cup run[b].retry /\ e \in booked \cup run[b].retry => d = e
      BY <2>1 DEF MoneyInv, Keyed
    <3> QED
      BY <2>1, <3>1, <3>2, <3>3
  <2>2. \A d : CallKey(d)' = CallKey(d)
    BY DEF CallKey
  <2> QED
    BY <2>1, <2>2 DEF Keyed
<1>20. NoPaidCallVanishes'
  <2>1. {b \in booked' : b.paid} \subseteq paidFor'
    BY <1>2, <1>6, <1>13 DEF MoneyInv, NoPaidCallVanishes
  <2>2. c \in booked' \cup retry
    BY <1>4, <1>12 DEF Enters
  <2>3. \A b \in Attempts : InMemory(b) \subseteq booked' \cup InMemory(b)'
    <3>1. InMemory(a) \subseteq booked' \cup InMemory(a)'
      BY <1>2, <1>4, <1>8, <2>2 DEF InMemory, At, c
    <3>2. \A b \in Attempts : b # a => InMemory(b) = InMemory(b)'
      BY <1>9 DEF InMemory, At, LastCall
    <3> QED
      BY <3>1, <3>2
  <2>4. paidFor' \subseteq booked' \cup gone' \cup UNION {InMemory(b)' : b \in Attempts}
    BY <1>2, <1>13, <2>3 DEF MoneyInv, NoPaidCallVanishes
  <2>5. row'.cost = Cardinality({b \in booked' : b.paid})
    BY <1>12, CostCounts
  <2> QED
    BY <2>1, <2>4, <2>5 DEF NoPaidCallVanishes
<1>21. IsFiniteSet(booked')
  BY <1>12, CostCounts
<1> QED
  BY <1>2, <1>14, <1>15, <1>16, <1>17, <1>18, <1>19, <1>20, <1>21 DEF MoneyInv, OnlyPaid

\* A call that was kept is tried once more, and given up if that fails too.
LEMMA SettleKeepsMoney ==
  ASSUME TypeInv, MoneyInv, NEW a \in Attempts, Settle(a)
  PROVE  MoneyInv'
<1>1. PICK c \in run[a].retry, outcome \in Outcomes :
        /\ TryBook(c, outcome)
        /\ run' = [run EXCEPT ![a].retry = @ \ {c}]
        /\ gone' = IF c.paid /\ c \notin booked' THEN gone \cup {c} ELSE gone
  BY DEF Settle
<1>2. At(a, "settle") /\ UNCHANGED paidFor
  BY DEF Settle
<1> DEFINE retry == run[a].retry \ {c}
           r == [run[a] EXCEPT !.retry = retry]
<1>3. Put(a, r)
  BY <1>1 DEF Put
<1>4. retry \subseteq run[a].retry /\ run[a].retry \subseteq retry \cup {c}
  OBVIOUS
<1>5. c.by = a /\ (c.paid => c \in paidFor)
  BY <1>1 DEF MoneyInv, OwnCalls
<1> HIDE DEF retry
<1>6. r.pc = "settle" /\ r.retry = retry /\ r.calls = run[a].calls
  BY <1>2 DEF TypeInv, TypeOK, Routines, At
<1>7. /\ run'[a].pc = "settle" /\ run'[a].retry = retry
      /\ run'[a].calls = run[a].calls /\ Others(a)
  BY <1>3, <1>6, Replaced
<1>8. ASSUME NEW b \in Attempts, b # a
      PROVE  run'[b] = run[b]
  BY <1>7, <1>8 DEF Others
<1>9. \/ SameLedger \/ Enters(c)
  BY <1>1, BookSteps
<1>10. booked' \subseteq booked \cup {c} /\ booked \subseteq booked'
       /\ row'.attempt = row.attempt /\ gone \subseteq gone'
  BY <1>1, <1>9 DEF SameLedger, Enters
<1>11. \A b \in Attempts : run'[b].retry \subseteq run[b].retry
  BY <1>4, <1>7, <1>8
<1>12. NothingOwed'
  BY <1>7, <1>8 DEF MoneyInv, NothingOwed, Resting
<1>13. LaterAreIdle'
  BY <1>2, <1>7, <1>8, <1>10 DEF MoneyInv, LaterAreIdle, At
<1>14. OwnCalls'
  BY <1>2, <1>11 DEF MoneyInv, OwnCalls
<1>15. CallInHand'
  BY <1>2, <1>7, <1>8 DEF MoneyInv, CallInHand, At, LastCall
<1>16. ASSUME NEW b \in Attempts, NEW d \in booked' \cup run'[b].retry, d.by = b
       PROVE  d \in booked \cup run[b].retry
  BY <1>1, <1>5, <1>10, <1>11, <1>16
<1>17. Numbered'
  <2>1. ASSUME NEW b \in Attempts, ~At(b, "ended")',
               NEW d \in booked' \cup run'[b].retry, d.by = b
        PROVE  Before(b, d)'
    <3>1. d \in booked \cup run[b].retry
      BY <1>16, <2>1
    <3>2. Before(b, d)
      BY <1>2, <1>7, <1>8, <2>1, <3>1 DEF MoneyInv, Numbered, At
    <3> QED
      BY <1>2, <1>7, <1>8, <3>2 DEF Before, At
  <2> QED
    BY <2>1 DEF Numbered
<1>18. Keyed'
  <2>1. ASSUME NEW b \in Attempts, NEW d \in booked' \cup run'[b].retry,
               NEW e \in booked' \cup run'[b].retry, CallKey(d) = CallKey(e)
        PROVE  d = e
    <3>1. d \in booked \cup run[b].retry \cup {c} /\ e \in booked \cup run[b].retry \cup {c}
      BY <1>10, <1>11
    <3>2. ASSUME NEW f \in booked \cup run[b].retry, CallKey(f) = CallKey(c)
          PROVE  f = c
      <4>1. f.by = a
        BY <1>5, <3>2 DEF CallKey
      <4>2. f \in booked \cup run[a].retry
        BY <3>2, <4>1 DEF MoneyInv, OwnCalls
      <4> QED
        BY <1>1, <3>2, <4>2 DEF MoneyInv, Keyed
    <3>3. d \in booked \cup run[b].retry /\ e \in booked \cup run[b].retry => d = e
      BY <2>1 DEF MoneyInv, Keyed
    <3> QED
      BY <2>1, <3>1, <3>2, <3>3
  <2>2. \A d : CallKey(d)' = CallKey(d)
    BY DEF CallKey
  <2> QED
    BY <2>1, <2>2 DEF Keyed
<1>19. NoPaidCallVanishes'
  <2>1. {b \in booked' : b.paid} \subseteq paidFor'
    BY <1>2, <1>5, <1>10 DEF MoneyInv, NoPaidCallVanishes
  <2>3. c.paid => c \in booked' \cup gone'
    BY <1>1
  <2>4. ASSUME NEW d \in paidFor
        PROVE  d \in booked' \cup gone' \cup UNION {InMemory(b)' : b \in Attempts}
    <3>1. CASE d \in booked \cup gone
      BY <1>10, <3>1
    <3>2. CASE d = c
      BY <2>3, <2>4, <3>2 DEF MoneyInv, OnlyPaid
    <3>3. ASSUME NEW b \in Attempts, d \in InMemory(b), d # c
          PROVE  d \in InMemory(b)'
      BY <1>2, <1>4, <1>7, <1>8, <3>3 DEF InMemory, At, LastCall
    <3> QED
      BY <3>1, <3>2, <3>3 DEF MoneyInv, NoPaidCallVanishes
  <2> QED
    BY <1>2, <1>9, <2>1, <2>4, CostCounts DEF NoPaidCallVanishes
<1> QED
  BY <1>2, <1>9, <1>12, <1>13, <1>14, <1>15, <1>17, <1>18, <1>19, CostCounts
     DEF MoneyInv, OnlyPaid

\* The next attempt is handed to a process; it has called nothing yet.
LEMMA ClaimKeepsMoney ==
  ASSUME TypeInv, MoneyInv, NEW p \in Procs, Claim(p)
  PROVE  MoneyInv'
<1> DEFINE a == row.attempt + 1
           r == [run[a] EXCEPT !.pc = "claimed", !.proc = p]
<1>1. row.attempt \in 0 .. MaxAttempts /\ row.attempt < MaxAttempts /\ row \in Rows
  BY DEF Claim, TypeInv, TypeOK, Rows
<1>2. a \in Attempts /\ a > row.attempt
  BY <1>1, ConstantsAssumption DEF Attempts
<1>3. Put(a, r) /\ UNCHANGED <<booked, paidFor, gone>>
      /\ row' = [row EXCEPT !.token = a, !.lease = "live", !.attempt = a]
  BY DEF Claim, Put
<1>4. run[a].pc = "idle"
  BY <1>2 DEF MoneyInv, LaterAreIdle, At
<1>5. \A b \in Attempts : b > a => b > row.attempt /\ b # a
  BY <1>1 DEF Attempts
<1> HIDE DEF a
<1>6. r.pc = "claimed" /\ r.retry = run[a].retry /\ r.calls = run[a].calls
  BY <1>2 DEF TypeInv, TypeOK, Routines
<1>7. /\ run'[a].pc = "claimed" /\ run'[a].retry = run[a].retry
      /\ run'[a].calls = run[a].calls /\ Others(a)
  BY <1>2, <1>3, <1>6, Replaced
<1>8. ASSUME NEW b \in Attempts, b # a
      PROVE  run'[b] = run[b]
  BY <1>7, <1>8 DEF Others
<1>9. row'.attempt = a /\ row'.cost = row.cost
  BY <1>1, <1>3 DEF Rows
<1>10. NothingOwed' /\ OwnCalls' /\ OnlyPaid'
  BY <1>3, <1>4, <1>7, <1>8 DEF MoneyInv, NothingOwed, OwnCalls, OnlyPaid, Resting
<1>11. LaterAreIdle'
  BY <1>5, <1>8, <1>9 DEF MoneyInv, LaterAreIdle, At
<1>12. CallInHand'
  BY <1>3, <1>7, <1>8 DEF MoneyInv, CallInHand, At, LastCall
<1>13. Numbered'
  BY <1>3, <1>4, <1>7, <1>8 DEF MoneyInv, Numbered, At, Before
<1>14. Keyed'
  BY <1>3, <1>7, <1>8 DEF MoneyInv, Keyed, CallKey
<1>15. NoPaidCallVanishes'
  <2>1. \A b \in Attempts : InMemory(b) \subseteq InMemory(b)'
    BY <1>4, <1>7, <1>8 DEF InMemory, At, LastCall
  <2>2. UNION {InMemory(b) : b \in Attempts} \subseteq UNION {InMemory(b)' : b \in Attempts}
    BY <2>1
  <2> QED
    BY <1>3, <1>9, <2>2 DEF MoneyInv, NoPaidCallVanishes
<1> QED
  BY <1>3, <1>10, <1>11, <1>12, <1>13, <1>14, <1>15 DEF MoneyInv

\* The memory of a process is lost: the paid calls that were only there are gone.
LEMMA CrashKeepsMoney ==
  ASSUME TypeInv, MoneyInv, NEW p \in Procs, Crash(p)
  PROVE  MoneyInv'
<1>1. /\ run' = [a \in Attempts |-> IF a \in Runs(p) THEN Done(p) ELSE run[a]]
      /\ gone' = gone \cup {c \in UNION {InMemory(a) : a \in Runs(p)} :
                              c.paid /\ c \notin booked}
      /\ UNCHANGED <<row, booked, paidFor>>
  BY DEF Crash
<1>2. Done(p).pc = "ended" /\ Done(p).retry = {}
  BY DEF Done, Blank
<1>3. ASSUME NEW a \in Attempts
      PROVE  \/ a \notin Runs(p) /\ run'[a] = run[a]
             \/ a \in Runs(p) /\ run'[a].pc = "ended" /\ run'[a].retry = {}
  BY <1>1, <1>2
<1>4. NothingOwed' /\ OwnCalls' /\ OnlyPaid'
  BY <1>1, <1>3 DEF MoneyInv, NothingOwed, OwnCalls, OnlyPaid
<1>5. LaterAreIdle'
  <2>1. ASSUME NEW a \in Attempts, a \in Runs(p)
        PROVE  ~(a > row.attempt)
    BY <2>1, ConstantsAssumption DEF Runs, MoneyInv, LaterAreIdle
  <2> QED
    BY <1>1, <1>3, <2>1 DEF MoneyInv, LaterAreIdle, At
<1>6. CallInHand'
  BY <1>1, <1>3 DEF MoneyInv, CallInHand, At, LastCall
<1>7. Numbered'
  BY <1>1, <1>3 DEF MoneyInv, Numbered, At, Before
<1>8. Keyed'
  BY <1>1, <1>3 DEF MoneyInv, Keyed, CallKey
<1>9. NoPaidCallVanishes'
  <2>1. ASSUME NEW c \in paidFor
        PROVE  c \in booked' \cup gone' \cup UNION {InMemory(a)' : a \in Attempts}
    <3>1. CASE c \in booked \cup gone
      BY <1>1, <3>1
    <3>2. ASSUME NEW a \in Attempts, c \in InMemory(a), a \in Runs(p), c \notin booked
          PROVE  c \in gone'
      BY <1>1, <3>2 DEF MoneyInv, OnlyPaid
    <3>3. ASSUME NEW a \in Attempts, c \in InMemory(a), a \notin Runs(p)
          PROVE  c \in InMemory(a)'
      BY <1>3, <3>3 DEF InMemory, At, LastCall
    <3> QED
      BY <3>1, <3>2, <3>3 DEF MoneyInv, NoPaidCallVanishes
  <2> QED
    BY <1>1, <2>1 DEF MoneyInv, NoPaidCallVanishes
<1> QED
  BY <1>1, <1>4, <1>5, <1>6, <1>7, <1>8, <1>9 DEF MoneyInv

LEMMA InitMoney == Init => MoneyInv
<1> SUFFICES ASSUME Init PROVE MoneyInv
  OBVIOUS
<1>1. /\ booked = {} /\ paidFor = {} /\ gone = {} /\ row.cost = 0
      /\ \A a \in Attempts : run[a] = Blank
  BY DEF Init
<1>2. Blank.pc = "idle" /\ Blank.retry = {} /\ Blank.proc = Nobody
  BY DEF Blank
<1>3. /\ NothingOwed /\ LaterAreIdle /\ OwnCalls /\ OnlyPaid /\ CallInHand
      /\ Numbered /\ Keyed
  BY <1>1, <1>2 DEF NothingOwed, LaterAreIdle, OwnCalls, OnlyPaid, CallInHand,
                    Numbered, Keyed, At
<1>4. IsFiniteSet({}) /\ Cardinality({}) = 0
  BY FS_EmptySet
<1>5. NoPaidCallVanishes
  <2>1. {c \in booked : c.paid} = {}
    BY <1>1
  <2> QED
    BY <1>1, <1>4, <2>1 DEF NoPaidCallVanishes
<1> QED
  BY <1>1, <1>3, <1>4, <1>5 DEF MoneyInv

LEMMA NextMoney == TypeInv /\ MoneyInv /\ [Next]_vars => MoneyInv'
<1> SUFFICES ASSUME TypeInv, MoneyInv, [Next]_vars PROVE MoneyInv'
  OBVIOUS
<1>1. row \in Rows /\ Closed("FAILED") \in Rows
  BY RowType DEF TypeInv, TypeOK
<1>2. ASSUME UNCHANGED <<run, booked, paidFor, gone>>,
             \/ \E l : row' \in {row, [row EXCEPT !.lease = l], [row EXCEPT !.cancel = TRUE]}
             \/ Refund(Closed("FAILED"))
      PROVE  MoneyInv'
  <2>1. SameBooks
    BY <1>1, <1>2, RowKeepsBooks, RefundFields DEF SameBooks
  <2> QED
    BY <1>2, <2>1, StillKeepsMoney
<1>3. ASSUME NEW a \in Attempts, Round(a)
      PROVE  MoneyInv'
  <2>1. CASE Throw(a, Ctl(a))
    BY <1>3, <2>1, RoutinePasses, PassKeepsMoney, StillKeepsMoney
  <2>2. CASE run' = [run EXCEPT ![a].pc = "model", ![a].calls = @ + 1]
    <3> DEFINE n == run[a].calls + 1
               r == [run[a] EXCEPT !.pc = "model", !.calls = n]
    <3>1. Put(a, r)
      BY <2>2 DEF Put
    <3> HIDE DEF n
    <3>2. r.pc = "model" /\ r.calls = n /\ r.retry = run[a].retry
      BY DEF TypeInv, TypeOK, Routines
    <3>3. /\ run'[a].pc = "model" /\ run'[a].calls = n /\ run'[a].retry = run[a].retry
          /\ Others(a)
      BY <3>1, <3>2, Replaced
    <3>4. At(a, "round") /\ SameBooks
      BY <1>3 DEF Round, SameBooks
    <3> QED
      BY <3>3, <3>4, RoundKeepsMoney DEF n
  <2> QED
    BY <1>3, <2>1, <2>2 DEF Round
<1>4. ASSUME NEW a \in Attempts, Routine(a)
      PROVE  MoneyInv'
  <2>1. CASE \/ TakeClaim(a) \/ Start(a) \/ StartFails(a) \/ Prelude(a) \/ FirstCheck(a)
             \/ ModelFails(a) \/ Decide(a) \/ \E op \in Ops : CallTool(a, op)
             \/ Commit(a) \/ CardEndsTurn(a) \/ EndTools(a)
             \/ Answer(a) \/ Fail(a) \/ FailRefund(a) \/ AlreadyClosed(a) \/ GiveUp(a)
             \/ Renew(a) \/ RenewGivesUp(a) \/ DeadlineTimer(a)
    BY <2>1, RoutinePasses, PassKeepsMoney, StillKeepsMoney
  <2>2. CASE Round(a) \/ ModelReturns(a) \/ Record(a) \/ Settle(a)
    BY <1>3, <2>2, ReturnKeepsMoney, RecordKeepsMoney, SettleKeepsMoney
  <2> QED
    BY <1>4, <2>1, <2>2 DEF Routine
<1>5. ASSUME NEW p \in Procs, Process(p)
      PROVE  MoneyInv'
  <2>1. CASE Claim(p) \/ Crash(p)
    BY <2>1, ClaimKeepsMoney, CrashKeepsMoney
  <2>2. CASE \/ Sweep(p) \/ StopRequest(p) \/ StopFollowUp(p)
             \/ Drain(p) \/ DrainAbort(p) \/ Restart(p)
    BY <1>2, <2>2 DEF Sweep, StopRequest, StopFollowUp, CloseTurn, Drain, DrainAbort,
                      Restart
  <2> QED
    BY <1>5, <2>1, <2>2 DEF Process
<1>6. CASE LeaseExpires \/ DeadlinePasses \/ UNCHANGED vars
  BY <1>2, <1>6 DEF LeaseExpires, DeadlinePasses, vars
<1> QED
  BY <1>4, <1>5, <1>6 DEF Next

\* Whatever fails, crashes or is retried, and over all attempts: the cost of the
\* turn is the number of paid calls in the ledger, each there once, and every call
\* that was paid for is in the ledger, in the memory of its attempt, or known lost
\* (TurnLedger.record and settle, AgentUsageLedger.record).
THEOREM MoneyIsAccounted == Spec => []NoPaidCallVanishes
<1>1. Spec => []TypeInv
  BY InitTypeInv, TypeInv_Next, PTL DEF Spec
<1>2. Spec => []MoneyInv
  BY <1>1, InitMoney, NextMoney, PTL DEF Spec
<1>3. MoneyInv => NoPaidCallVanishes
  BY DEF MoneyInv
<1> QED
  BY <1>2, <1>3, PTL

=============================================================================
