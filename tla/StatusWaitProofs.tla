-------------------------- MODULE StatusWaitProofs --------------------------
(***************************************************************************)
(* The promises of waitForStatus, proved for every step, timeout and       *)
(* latency: the inductive invariant IInv of StatusWait, and what follows.  *)
(***************************************************************************)
EXTENDS StatusWait, TLAPS

\* One more question takes one more step: the only product in the model.
LEMMA OneMoreStep ==
    ASSUME NEW n \in Nat
    PROVE  n * Step = (n - 1) * Step + Step
BY TimingAssumption

\* Every state has its type.
LEMMA InitInv == Init => IInv
BY TimingAssumption
   DEF Init, IInv, TypeOK, OnTime, Young, Answered, Counted, Status, Decisive,
       Asking, Waiting, Over

\* Every step keeps the types, the times and what was read.
LEMMA TimesInv ==
    ASSUME TypeOK, OnTime, Young, Answered, [Next]_vars
    PROVE  TypeOK' /\ OnTime' /\ Young' /\ Answered'
<1> USE TimingAssumption
        DEF TypeOK, OnTime, Young, Answered, Status, Decisive, Asking, Waiting,
            Over
<1>1. CASE Move
  BY <1>1 DEF Move
<1>2. CASE Tick
  BY <1>2 DEF Tick
<1>3. CASE Read
  BY <1>3 DEF Read
<1>4. CASE QuestionFails
  BY <1>4 DEF QuestionFails, Return
<1>5. CASE Answer
  BY <1>5 DEF Answer, Return, Sleep, SinceStart
<1>6. CASE AskAgain
  BY <1>6 DEF AskAgain
<1>7. CASE UNCHANGED vars
  BY <1>7 DEF vars
<1> QED
  BY <1>1, <1>2, <1>3, <1>4, <1>5, <1>6, <1>7 DEF Next

\* Every step keeps the count of the questions.
LEMMA CountedInv ==
    ASSUME TypeOK, OnTime, Answered, Counted, [Next]_vars
    PROVE  Counted'
<1>1. CASE /\ UNCHANGED <<polls, due>>
           /\ pc' # "sleeping" \/ UNCHANGED pc
  BY <1>1 DEF Counted
<1>2. CASE Answer /\ pc' = "sleeping"
  <2>1. /\ pc = "answering" /\ now < Timeout
        /\ due' = now + Step /\ polls' = polls
    BY <1>2 DEF Answer, Return, Sleep, SinceStart
  <2>2. now \in Nat /\ due \in Nat /\ polls \in Nat \ {0} /\ due <= now
    BY <2>1 DEF TypeOK, OnTime
  <2>3. (polls - 1) * Step <= due /\ (polls >= 2 => (polls - 2) * Step < Timeout)
    BY DEF Counted
  <2>4. (polls - 1) * Step \in Int
    BY <2>2, TimingAssumption
  <2>5. polls * Step <= now + Step
    BY <2>2, <2>3, <2>4, OneMoreStep, TimingAssumption
  <2>6. (polls - 1) * Step <= now + Step /\ (polls - 1) * Step < Timeout
    BY <2>1, <2>2, <2>3, <2>4, TimingAssumption
  <2> QED
    BY <2>1, <2>3, <2>5, <2>6 DEF Counted
<1>3. CASE AskAgain
  <2>1. /\ pc = "sleeping" /\ pc' = "asking"
        /\ polls' = polls + 1 /\ due' = due /\ polls \in Nat
    BY <1>3 DEF AskAgain, TypeOK
  <2>2. polls' - 1 = polls /\ polls' - 2 = polls - 1
    BY <2>1
  <2> QED
    BY <2>1, <2>2 DEF Counted
<1> QED
  BY <1>1, <1>2, <1>3
     DEF Next, vars, Move, Tick, Read, QuestionFails, Answer, Return, Sleep

\* A step of the environment, or of the loop, keeps the invariant.
LEMMA NextInv == IInv /\ [Next]_vars => IInv'
BY TimesInv, CountedInv DEF IInv

\* IInv holds in every state of the loop.
THEOREM Invariance == Spec => []IInv
BY InitInv, NextInv, PTL DEF Spec

\* A status that stands for longer than a step and two requests is seen.
THEOREM StandingStatusIsSeen == Spec => []Prompt
<1>1. IInv => Prompt
  BY TimingAssumption
     DEF IInv, TypeOK, OnTime, Young, Prompt, Waiting, Asking, Decisive
<1> QED
  BY <1>1, Invariance, PTL

\* A wait that returns nil saw the status not longer ago than a request; one
\* that runs out had its time, and its machine was not ready.
THEOREM ResultIsTrue == Spec => []ResultIsHonest
<1>1. IInv => ResultIsHonest
  <2> SUFFICES ASSUME IInv
               PROVE  ResultIsHonest
    OBVIOUS
  <2> USE TimingAssumption DEF IInv, TypeOK, OnTime, Answered, Decisive
  <2>1. pc = "ok" /\ status # "expected" => now - since <= Latency
    OBVIOUS
  <2>2. pc = "timeout" => /\ now >= Timeout
                          /\ status \in Decisive => now - since <= Latency
    OBVIOUS
  <2> QED
    BY <2>1, <2>2 DEF ResultIsHonest
<1> QED
  BY <1>1, Invariance, PTL

\* A wait is over one sleep and one request after its timeout, and has asked as
\* often as steps fit in the timeout, and twice more.
THEOREM WaitIsOver == Spec => []WaitIsBounded
<1>1. IInv => WaitIsBounded
  BY TimingAssumption DEF IInv, TypeOK, OnTime, Counted, WaitIsBounded
<1> QED
  BY <1>1, Invariance, PTL

\* The loop, every step of it, is a step of Wait or none.
LEMMA WaitStep == IInv /\ [Next]_vars => [Abstract!Next]_<<status, Decided>>
<1> SUFFICES ASSUME IInv, [Next]_vars
             PROVE  [Abstract!Next]_<<status, Decided>>
  OBVIOUS
<1> USE DEF IInv, TypeOK, Status, Asking, Waiting, Over, Decided
<1>1. CASE Move
  BY <1>1 DEF Move, Abstract!Next, Abstract!Move, Abstract!Status
<1>2. CASE Read
  <2>1. CASE read' = "expected" /\ status = "expected"
    BY <1>2, <2>1 DEF Read, Abstract!Next, Abstract!Succeed
  <2>2. CASE ~(read' = "expected" /\ status = "expected")
    BY <1>2, <2>2 DEF Read
  <2> QED
    BY <2>1, <2>2
<1>3. CASE QuestionFails
  BY <1>3 DEF QuestionFails, Return, Abstract!Next, Abstract!Fail
<1>4. CASE Answer
  BY <1>4 DEF Answer, Return, Sleep, Abstract!Next, Abstract!Fail
<1>5. CASE Tick \/ AskAgain \/ UNCHANGED vars
  BY <1>5 DEF Tick, AskAgain, vars
<1> QED
  BY <1>1, <1>2, <1>3, <1>4, <1>5 DEF Next

\* The timed loop implements the wait that Driver assumes of it.
THEOREM Refinement == Spec => ImplementsWait
<1>1. Init => Abstract!Init
  BY DEF Init, Abstract!Init, Abstract!Status, Status, Decided, Over
<1> QED
  BY <1>1, WaitStep, Invariance, PTL DEF Spec, ImplementsWait, Abstract!Spec

=============================================================================
