----------------------------- MODULE HttpProofs -----------------------------
(***************************************************************************)
(* What a caller of the HTTP client may conclude, for any number of        *)
(* redirects and kept connections.                                         *)
(***************************************************************************)
EXTENDS Http, TLAPS

LEMMA Start == Init => IInv
<1> SUFFICES ASSUME Init PROVE IInv
  OBVIOUS
<1>1. hops \in 0 .. MaxHops /\ kept \in 0 .. MaxKept /\ effects \in 0 .. 2 /\ effects <= 1
  BY BoundsAssumption, SMT DEF Init
<1>2. TypeOK  BY <1>1, Zenon DEF Init, TypeOK
<1> QED  BY <1>1, <1>2, Zenon DEF Init, IInv

LEMMA ClientPreserves == ASSUME IInv, ClientStep PROVE IInv'
<1> USE DEF IInv, TypeOK, Methods, Answers, Errors, Goto, Return
<1>1. CASE Url  BY <1>1, SMT DEF Url
<1>2. CASE SendingFailed  BY <1>2, SMT DEF SendingFailed
<1>3. CASE ReadBody  BY <1>3, SMT DEF ReadBody, Accepted
<1>4. CASE Decode  BY <1>4, SMT DEF Decode
<1> QED  BY <1>1, <1>2, <1>3, <1>4 DEF ClientStep

LEMMA NetworkPreserves == ASSUME IInv, NetworkStep PROVE IInv'
<1> USE BoundsAssumption DEF IInv, TypeOK, Methods, Answers, Errors, Goto, Carried, Reconnect, GiveUp
<1>1. CASE BrokenBefore  BY <1>1, SMT DEF BrokenBefore
<1>2. CASE BrokenAfter  BY <1>2, SMT DEF BrokenAfter
<1>3. CASE Answered
  <2>1. moved' = (moved \/ answer' = "moved")  BY <1>3, Zenon DEF Answered
  <2>2. CASE answer' = "done"  BY <1>3, <2>2, SMT DEF Answered
  <2>3. CASE answer' = "error"  BY <1>3, <2>3, SMT DEF Answered
  <2>4. CASE answer' = "moved"
    <3>1. moved' /\ moved' \in BOOLEAN  BY <2>1, <2>4, Zenon
    <3>2. effects' = effects  BY <1>3, <2>4 DEF Answered
    <3>3. pc' = "body" /\ pc = "send" /\ UNCHANGED <<ret, asked, decode, method, kept, hops>>
      BY <1>3, SMT DEF Answered
    <3>4. TypeOK'  BY <2>4, <3>1, <3>2, <3>3, Zenon
    <3> QED  BY <2>4, <3>1, <3>2, <3>3, <3>4, SMT
  <2> QED  BY <1>3, <2>2, <2>3, <2>4 DEF Answered
<1>4. CASE Redirected  BY <1>4, SMT DEF Redirected
<1> QED  BY <1>1, <1>2, <1>3, <1>4 DEF NetworkStep

(* The inductive invariant of one request: until a call other than a GET has
   sent its request for the last time, nothing has been done. *)
THEOREM Invariance == Spec => []IInv
<1>1. IInv /\ [Next]_vars => IInv'
  <2> SUFFICES ASSUME IInv, [Next]_vars PROVE IInv'
    OBVIOUS
  <2>1. CASE Next  BY <2>1, ClientPreserves, NetworkPreserves DEF Next
  <2>2. CASE UNCHANGED vars
    BY <2>2, SMT DEF vars, IInv, TypeOK
  <2> QED  BY <2>1, <2>2
<1> QED  BY Start, <1>1, PTL DEF Spec

(* The counts of redirects and of connections stay within net/http's limits. *)
THEOREM TypeCorrect == Spec => []TypeOK
<1>1. IInv => TypeOK  BY DEF IInv
<1> QED  BY Invariance, <1>1, PTL

(* A nil error of doRequest means the request was carried out, once if it was
   not a GET, unless an answer had a 3xx status. *)
THEOREM NilIsDone == Spec => []NilMeansCarriedOut
<1>1. IInv => NilMeansCarriedOut
  BY SMT DEF IInv, TypeOK, NilMeansCarriedOut, Answers
<1> QED  BY Invariance, <1>1, PTL

(* However often a connection breaks, doRequest never has a POST, PUT or
   DELETE carried out twice. *)
THEOREM NeverTwice == Spec => []AtMostOnce
<1>1. IInv => AtMostOnce  BY DEF IInv, AtMostOnce
<1> QED  BY Invariance, <1>1, PTL

(* No step of a call leads back: a request goes out again only at the cost of a
   redirect or of a kept connection, and IInv bounds both. *)
THEOREM EachStepCounts == Spec => NearerTheEnd
<1> DEFINE Nearer == \/ StepsLeft[pc'] < StepsLeft[pc]
                     \/ /\ pc = "send" /\ pc' = "send"
                        /\ \/ hops' > hops
                           \/ hops' = hops /\ kept' < kept
<1>1. IInv /\ [Next]_vars => [Nearer]_vars
  <2> SUFFICES ASSUME IInv, Next PROVE Nearer
    OBVIOUS
  <2> USE DEF StepsLeft, Goto, Return
  <2>1. hops \in Nat /\ kept \in Nat /\ hops <= MaxHops
    BY BoundsAssumption, SMT DEF IInv, TypeOK
  <2>2. CASE Url  BY <2>2, SMT DEF Url
  <2>3. CASE SendingFailed  BY <2>3, SMT DEF SendingFailed
  <2>4. CASE ReadBody  BY <2>4, SMT DEF ReadBody, Accepted
  <2>5. CASE Decode  BY <2>5, SMT DEF Decode
  <2>6. CASE BrokenBefore  BY <2>1, <2>6, SMT DEF BrokenBefore, Reconnect, GiveUp
  <2>7. CASE BrokenAfter  BY <2>1, <2>7, SMT DEF BrokenAfter, Reconnect, GiveUp
  <2>8. CASE Answered  BY <2>8, SMT DEF Answered
  <2>9. CASE Redirected  BY <2>1, <2>9, SMT DEF Redirected, GiveUp
  <2> QED
    BY <2>2, <2>3, <2>4, <2>5, <2>6, <2>7, <2>8, <2>9 DEF Next, ClientStep, NetworkStep
<1> QED  BY Invariance, <1>1, PTL DEF Spec, NearerTheEnd

=============================================================================
