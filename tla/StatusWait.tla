----------------------------- MODULE StatusWait -----------------------------
(***************************************************************************)
(* waitForStatus (fsas.go) in time: a loop that asks the Fabric Manager    *)
(* for the machine's status, compares it, looks at the clock and sleeps,   *)
(* against a service whose status moves while a question or its answer is  *)
(* on its way.  Driver has the same loop without time, as a step that may  *)
(* return at any moment the status is right and may run out at any moment. *)
(*                                                                         *)
(* Time is counted from startTime, in units as small as the instance       *)
(* needs.                                                                  *)
(***************************************************************************)
EXTENDS Integers

CONSTANTS
    Step,      \* Sleep between two questions
    Timeout,   \* after which the wait is given up
    Latency    \* from the moment a question is due (a sleep may overrun) to
               \* the arrival of its answer, at most

\* A sleep lasts; the other two may be nothing at all.
ASSUME TimingAssumption == /\ Step \in Nat \ {0}
                           /\ Timeout \in Nat
                           /\ Latency \in Nat

VARIABLES
    status,    \* the machine's, in the service
    since,     \* when it last changed (or 0)
    now,       \* the time since startTime
    pc,        \* where the loop is
    due,       \* when the question was, or will be, due
    read,      \* what comes back: the status the service read, or "nothing"
    readAt,    \* and when it read it
    polls      \* history: the questions asked

vars == <<status, since, now, pc, due, read, readAt, polls>>

-----------------------------------------------------------------------------
\* What the loop tells apart: the expected status, ERROR and any other.
Status  == {"expected", "ERROR", "other"}
Decisive == {"expected", "ERROR"}

Asking  == {"asking", "answering"}
Waiting == Asking \cup {"sleeping"}
Over    == {"ok", "error", "timeout"}

TypeOK == /\ status \in Status /\ read \in Status \cup {"nothing"}
          /\ since \in Nat /\ now \in Nat /\ due \in Nat /\ readAt \in Nat
          /\ polls \in Nat \ {0}
          /\ pc \in Waiting \cup Over

Init == /\ status \in Status /\ read = "other"
        /\ since = 0 /\ now = 0 /\ due = 0 /\ readAt = 0
        /\ polls = 1
        /\ pc = "asking"

-----------------------------------------------------------------------------
(***************************************************************************)
(* The environment: the status moves as it likes (out of ERROR too: a      *)
(* broken machine may be unbuilt), and time passes unless something is due.*)
(***************************************************************************)
Move == /\ pc \in Waiting
        /\ status' \in Status \ {status}
        /\ since' = now
        /\ UNCHANGED <<now, pc, due, read, readAt, polls>>

Tick == /\ \/ pc = "sleeping" /\ now < due
           \/ pc \in Asking /\ now < due + Latency
        /\ now' = now + 1
        /\ UNCHANGED <<status, since, pc, due, read, readAt, polls>>

\* The service reads the status for its answer, which may get lost.
Read == /\ pc = "asking"
        /\ pc' = "answering"
        /\ read' \in {status, "nothing"}
        /\ readAt' = now
        /\ UNCHANGED <<status, since, now, due, polls>>

-----------------------------------------------------------------------------
(***************************************************************************)
(* The loop.                                                               *)
(***************************************************************************)
Return(result) == /\ pc' = result
                  /\ UNCHANGED <<status, since, now, due, read, readAt, polls>>

Sleep == /\ pc' = "sleeping"
         /\ due' = now + Step
         /\ UNCHANGED <<status, since, now, read, readAt, polls>>

\* getCdiState fails before the service has read anything: it has no UUID or no
\* client, or the question does not arrive.
QuestionFails == pc = "asking" /\ Return("error")

\* time.Since(startTime), and its mutant: startTime taken anew for every poll.
SinceStart_Mutant == now - due
SinceStart == now

\* Mutants of the answer's handling: the ERROR status is not looked for; the
\* clock is looked at before the status; running out returns nil.
Answer_ErrorIgnored ==
    /\ pc = "answering"
    /\ \/ read = "expected" /\ Return("ok")
       \/ read = "nothing" /\ Return("error")
       \/ read \in {"ERROR", "other"} /\ SinceStart >= Timeout /\ Return("timeout")
       \/ read \in {"ERROR", "other"} /\ SinceStart < Timeout /\ Sleep

Answer_ClockFirst ==
    /\ pc = "answering"
    /\ \/ read \in {"ERROR", "nothing"} /\ Return("error")
       \/ read \in {"expected", "other"} /\ SinceStart >= Timeout /\ Return("timeout")
       \/ read = "expected" /\ SinceStart < Timeout /\ Return("ok")
       \/ read = "other" /\ SinceStart < Timeout /\ Sleep

Answer_TimeoutIsNil ==
    /\ pc = "answering"
    /\ \/ read \in {"ERROR", "nothing"} /\ Return("error")
       \/ read = "expected" /\ Return("ok")
       \/ read = "other" /\ SinceStart >= Timeout /\ Return("ok")
       \/ read = "other" /\ SinceStart < Timeout /\ Sleep

Answer ==
    /\ pc = "answering"
    /\ \/ read \in {"ERROR", "nothing"} /\ Return("error")
       \/ read = "expected" /\ Return("ok")
       \/ read = "other" /\ SinceStart >= Timeout /\ Return("timeout")
       \/ read = "other" /\ SinceStart < Timeout /\ Sleep

\* The sleep is over and the next question due.
AskAgain == /\ pc = "sleeping" /\ now = due
            /\ pc' = "asking"
            /\ polls' = polls + 1
            /\ UNCHANGED <<status, since, now, due, read, readAt>>

Next == Move \/ Tick \/ Read \/ QuestionFails \/ Answer \/ AskAgain

Spec == Init /\ [][Next]_vars

-----------------------------------------------------------------------------
(***************************************************************************)
(* What the loop promises.                                                 *)
(***************************************************************************)
\* A status that stands is seen: while waitForStatus waits, the machine has
\* been in the expected status, or in ERROR, no longer than a step and two
\* requests.  A phase as short as that (OS_INSTALLING in Create) may be missed.
Prompt == pc \in Waiting /\ status \in Decisive
              => now - since <= Step + 2 * Latency

\* What waitForStatus returns is true up to one request.  nil: the machine is in
\* the expected status or has only just left it.  Running out: the time was over,
\* and the machine had not reached the status (nor ERROR) before that request.
ResultIsHonest ==
  /\ pc = "ok" /\ status # "expected" => now - since <= Latency
  /\ pc = "timeout" => /\ now >= Timeout
                       /\ status \in Decisive => now - since <= Latency

\* The wait ends, not later than one sleep and one request after the timeout,
\* and does not flood the service: for 15 seconds in steps of 5 it asks at most
\* four times, for 30 minutes 361 times.
WaitIsBounded ==
  /\ now <= Timeout + Step + Latency
  /\ polls >= 2 => (polls - 2) * Step < Timeout

\* The loop is a Wait whose result is decided where the service reads the
\* status, not where the answer arrives.
Decided == CASE pc \in Over -> pc
             [] pc = "answering" /\ read = "expected" -> "ok"
             [] OTHER -> "pending"

Abstract == INSTANCE Wait WITH outcome <- Decided

\* Seen without clocks and polls, waitForStatus is a Wait: it returns nil only
\* after a moment of the call at which the machine was in the status.
ImplementsWait == Abstract!Spec

-----------------------------------------------------------------------------
(***************************************************************************)
(* The inductive invariant behind them.                                    *)
(***************************************************************************)
\* The clock and the question: none is due later than a step after the timeout,
\* none waits longer than a request may take.
OnTime == /\ due <= Timeout + Step
          /\ pc = "sleeping" => due - Step <= now /\ now <= due
          /\ pc # "sleeping" => due <= now /\ now <= due + Latency
          /\ since <= now

\* The question before this one was answered "other", so a decisive status is
\* younger than that answer's reading.
Young == pc \in Waiting /\ status \in Decisive => since >= due - Step - Latency

\* What the service read, and the status now.
Answered == /\ pc \in {"answering", "ok", "timeout"}
                => /\ due <= readAt /\ readAt <= now
                   /\ status # read /\ read # "nothing" => since >= readAt
            /\ pc = "ok" => read = "expected"
            /\ pc = "timeout" => read = "other" /\ now >= Timeout

\* Every question but the first was preceded by a sleep that began in time.
Counted == /\ (polls - 1) * Step <= due
           /\ pc = "sleeping" => polls * Step <= due
           /\ polls >= 2 => (polls - 2) * Step < Timeout
           /\ pc = "sleeping" => (polls - 1) * Step < Timeout

IInv == TypeOK /\ OnTime /\ Young /\ Answered /\ Counted

=============================================================================
