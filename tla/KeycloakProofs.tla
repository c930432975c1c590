--------------------------- MODULE KeycloakProofs ---------------------------
(***************************************************************************)
(* The promises of the Keycloak client, proved for any number of grants.   *)
(***************************************************************************)
EXTENDS Keycloak, TLAPS

LEMMA InitInv == Init => IInv
BY MaxGrantsAssumption
   DEF Init, IInv, TypeOK, Tokens, Phases, Login, StaleOnlyIfRefused, KeepsNewest,
       InitIsComplete

\* What any answer to a POST for tokens leaves of the service.
LEMMA ServiceKept ==
    ASSUME TypeOK, Grant \/ UNCHANGED service
    PROVE  /\ granted' \in Tokens /\ granted' \in {granted, granted + 1}
           /\ unexpired' \subseteq 1 .. granted'
           /\ sessions' \subseteq 1 .. granted'
<1>1. CASE Grant
  <2>1. granted \in Nat /\ granted' = granted + 1 /\ granted' \in Tokens
    BY <1>1, MaxGrantsAssumption DEF TypeOK, Tokens, Grant
  <2>2. 1 .. granted \subseteq 1 .. granted' /\ granted' \in 1 .. granted'
    BY <2>1
  <2> QED
    BY <1>1, <2>1, <2>2 DEF TypeOK, Grant
<1>2. CASE UNCHANGED service
  BY <1>2 DEF TypeOK, service
<1> QED
  BY <1>1, <1>2

\* Every step keeps the invariant.
LEMMA NextInv == IInv /\ [Next]_vars => IInv'
<1> SUFFICES ASSUME IInv, [Next]_vars PROVE IInv'
  OBVIOUS
<1> USE MaxGrantsAssumption
        DEF IInv, TypeOK, Tokens, Phases, Login, StaleOnlyIfRefused, KeepsNewest,
            InitIsComplete, Goto, client, service, history
<1>1. CASE Call
  BY <1>1 DEF Call
<1>2. CASE NewKeycloak
  BY <1>2 DEF NewKeycloak
<1>3. CASE GetTokens
  <2>1. granted' \in Nat /\ granted' <= MaxGrants
        /\ unexpired' \subseteq 1 .. granted' /\ sessions' \subseteq 1 .. granted'
    BY <1>3, ServiceKept DEF GetTokens, Both, AccessOnly, Neither
  <2>2. CASE Both /\ pc' = "introspect" /\ access' = granted + 1
             /\ refresh' = granted + 1 /\ met' = met \cup {"token"}
    BY <1>3, <2>1, <2>2 DEF GetTokens, Both, Grant
  <2>3. CASE /\ AccessOnly \/ Neither
             /\ met' = met \cup {"refusal"} /\ InitConnectionFails
             /\ UNCHANGED <<access, refresh>>
    BY <1>3, <2>1, <2>3, ServiceKept
       DEF GetTokens, AccessOnly, Neither, InitConnectionFails
  <2> QED
    BY <1>3, <2>2, <2>3 DEF GetTokens
<1>4. CASE UpdateUserPgcdiPrivileges
  BY <1>4 DEF UpdateUserPgcdiPrivileges, InitConnectionFails, InitConnectionOk
<1>5. CASE UserIsAllowedToCreateCluster
  BY <1>5 DEF UserIsAllowedToCreateCluster
<1>6. CASE AccessTokenIsValid
  BY <1>6 DEF AccessTokenIsValid
<1>7. CASE RefreshToken
  <2>1. granted' \in Nat /\ granted' <= MaxGrants
        /\ unexpired' \subseteq 1 .. granted' /\ sessions' \subseteq 1 .. granted'
    BY <1>7, ServiceKept DEF RefreshToken, Both, AccessOnly, NotRefreshed, Neither
  <2>2. CASE Both /\ pc' = "have" /\ access' = granted + 1
             /\ refresh' = granted + 1 /\ met' = met \cup {"token"}
    BY <1>7, <2>1, <2>2 DEF RefreshToken, Both, Grant
  <2>3. CASE AccessOnly /\ pc' = "login" /\ access' = granted + 1
             /\ met' = met \cup {"token"} /\ UNCHANGED refresh
    BY <1>7, <2>1, <2>3 DEF RefreshToken, AccessOnly, Grant
  <2>4. CASE NotRefreshed /\ UNCHANGED <<access, refresh>>
             /\ \/ pc' = "login" /\ met' = met
                \/ pc' = "have" /\ met' = met \cup {"refusal"}
    <3>1. granted' >= granted /\ seen' = seen
      BY <2>4, ServiceKept DEF NotRefreshed, Neither
    <3>2. pc = "refresh" /\ UNCHANGED <<keycloak, privileges, caller, admitted>>
      BY <1>7 DEF RefreshToken
    <3>3. CASE pc' = "login" /\ met' = met
      BY <2>1, <2>4, <3>1, <3>2, <3>3
    <3>4. CASE pc' = "have" /\ met' = met \cup {"refusal"}
      BY <2>1, <2>4, <3>1, <3>2, <3>4
    <3> QED
      BY <2>4, <3>3, <3>4
  <2> QED
    BY <1>7, <2>2, <2>3, <2>4 DEF RefreshToken
<1>8. CASE Use
  BY <1>8 DEF Use
<1>9. CASE Expire
  BY <1>9 DEF Expire
<1>10. CASE ProcessExit
  BY <1>10 DEF ProcessExit
<1>11. CASE UNCHANGED vars
  BY <1>11 DEF vars
<1> QED
  BY <1>1, <1>2, <1>3, <1>4, <1>5, <1>6, <1>7, <1>8, <1>9, <1>10, <1>11 DEF Next

\* IInv, and with it the types, holds in every state.
THEOREM Invariance == Spec => []IInv
BY InitInv, NextInv, PTL DEF Spec

\* GetToken's token was seen valid, or received, in the same call, unless a
\* login was refused or the answer to the refresh was odd.
THEOREM TokenIsFresh == Spec => []StaleOnlyIfRefused
BY Invariance, PTL DEF IInv

\* The pair the client holds follows the rotation of the refresh tokens.
THEOREM NewestIsKept == Spec => []KeepsNewest
BY Invariance, PTL DEF IInv

\* InitConnection succeeds with everything it is for.
THEOREM LoginIsComplete == Spec => []InitIsComplete
BY Invariance, PTL DEF IInv

-----------------------------------------------------------------------------
(***************************************************************************)
(* The client implements the one that Driver takes it for.                 *)
(***************************************************************************)
\* A refresh is only ever granted to a client that holds an access token too.
LEMMA RefreshedHadTokens == IInv /\ CanRefresh => access # 0
BY MaxGrantsAssumption DEF IInv, TypeOK, Tokens, KeepsNewest, CanRefresh

\* What the answers bring is never the empty token.
LEMMA GrantedIsSome == IInv => granted + 1 # 0
BY MaxGrantsAssumption DEF IInv, TypeOK, Tokens

LEMMA StepInit == Init => Steps!Init
BY DEF Init, Steps!Init, Come, Handed, Initialising

\* Where no token is handed out and the client is as far as it was, nothing
\* happens in TokenSteps.
LEMMA Stutter ==
    ASSUME UNCHANGED <<Come, Handed>>
    PROVE  [Steps!Next]_<<Come, Handed>>
OBVIOUS

\* The end of a call that has a client: it hands out what the client holds.
LEMMA HandsOut ==
    ASSUME IInv, pc # "have", pc' = "have", keycloak = "made", keycloak' = "made",
           caller = "GetToken", caller' = "GetToken", pc # "allowed",
           UNCHANGED admitted, access' = access \/ (access # 0 /\ access' # 0)
    PROVE  Steps!Next
BY DEF Steps!Next, Steps!GetToken, Come, Handed, Initialising, IInv, Phases

\* The end of initKeycloak before the client is authorised.
LEMMA InitStops ==
    ASSUME IInv, caller = "initKeycloak" \/ pc = "allowed", pc # "have",
           pc' = "idle", caller' = "GetToken", UNCHANGED admitted
    PROVE  [Steps!Next]_<<Come, Handed>>
BY DEF Steps!Next, Steps!InitKeycloak, Come, Handed, Initialising, IInv, Phases

LEMMA StepNext ==
    IInv /\ IInv' /\ [Next]_vars => [Steps!Next]_<<Come, Handed>>
<1> SUFFICES ASSUME IInv, IInv', [Next]_vars
             PROVE  [Steps!Next]_<<Come, Handed>>
  OBVIOUS
<1> USE DEF Goto, client, service, history
<1>1. CASE Call
  BY <1>1, Stutter DEF Call, Come, Handed, Initialising, IInv, Phases
<1>2. CASE NewKeycloak
  BY <1>2, Stutter DEF NewKeycloak, Come, Handed, Initialising, IInv, Phases
<1>3. CASE GetTokens
  <2>1. pc = "login" /\ keycloak = "made" /\ UNCHANGED <<keycloak, admitted>>
    BY <1>3 DEF GetTokens, IInv, Phases
  <2>2. CASE access' = granted + 1 /\ pc' = "introspect" /\ UNCHANGED caller
    <3>1. access' # 0
      BY <2>2, GrantedIsSome
    <3>2. CASE caller = "initKeycloak" \/ admitted = "yes" \/ access # 0
      BY <2>1, <2>2, <3>1, <3>2, Stutter DEF Come, Handed, Initialising
    <3>3. CASE caller # "initKeycloak" /\ admitted # "yes" /\ access = 0
      BY <2>1, <2>2, <3>1, <3>3 DEF Come, Handed, Initialising, Steps!Next, Steps!LogIn
    <3> QED
      BY <3>2, <3>3
  <2>3. CASE InitConnectionFails /\ UNCHANGED access
    BY <2>1, <2>3, InitStops, HandsOut DEF InitConnectionFails, IInv, TypeOK
  <2> QED
    BY <1>3, <2>2, <2>3 DEF GetTokens
<1>4. CASE UpdateUserPgcdiPrivileges
  <2>1. /\ pc = "introspect" /\ keycloak = "made"
        /\ UNCHANGED <<keycloak, admitted, access>>
    BY <1>4 DEF UpdateUserPgcdiPrivileges, IInv, Phases
  <2>2. CASE pc' = "have" /\ caller # "initKeycloak" /\ caller' = "GetToken"
    BY <2>1, <2>2, HandsOut DEF IInv, TypeOK
  <2>3. CASE pc' = "idle" /\ caller = "initKeycloak" /\ caller' = "GetToken"
    BY <2>1, <2>3, InitStops
  <2>4. CASE pc' = "allowed" /\ caller = "initKeycloak" /\ caller' = "GetToken"
    BY <2>1, <2>4, Stutter DEF Come, Handed, Initialising
  <2> QED
    BY <1>4, <2>2, <2>3, <2>4
       DEF UpdateUserPgcdiPrivileges, InitConnectionFails, InitConnectionOk
<1>5. CASE UserIsAllowedToCreateCluster
  <2>1. pc = "allowed" /\ keycloak = "made" /\ UNCHANGED <<keycloak, caller>>
        /\ caller = "GetToken"
    BY <1>5 DEF UserIsAllowedToCreateCluster, IInv, Phases, TypeOK
  <2>2. CASE pc' = "check" /\ admitted' = "yes"
    BY <2>1, <2>2 DEF Come, Handed, Initialising, Steps!Next, Steps!InitKeycloak
  <2>3. CASE pc' = "idle" /\ UNCHANGED admitted
    BY <2>1, <2>3, InitStops
  <2> QED
    BY <1>5, <2>2, <2>3 DEF UserIsAllowedToCreateCluster
<1>6. CASE AccessTokenIsValid
  <2>1. /\ pc = "check" /\ keycloak = "made" /\ caller = "GetToken"
        /\ UNCHANGED <<keycloak, admitted, access, caller>>
    BY <1>6 DEF AccessTokenIsValid, IInv, Phases, TypeOK
  <2>2. CASE pc' = "have"
    BY <2>1, <2>2, HandsOut
  <2>3. CASE pc' = "refresh"
    BY <2>1, <2>3, Stutter DEF Come, Handed, Initialising
  <2> QED
    BY <1>6, <2>2, <2>3 DEF AccessTokenIsValid
<1>7. CASE RefreshToken
  <2>1. /\ pc = "refresh" /\ keycloak = "made" /\ caller = "GetToken"
        /\ UNCHANGED <<keycloak, admitted, caller>>
    BY <1>7 DEF RefreshToken, IInv, Phases, TypeOK
  <2>2. UNCHANGED access \/ (access # 0 /\ access' # 0)
    BY <1>7, RefreshedHadTokens, GrantedIsSome DEF RefreshToken
  <2>3. CASE pc' = "have"
    BY <2>1, <2>2, <2>3, HandsOut
  <2>4. CASE pc' = "login"
    BY <2>1, <2>2, <2>4, Stutter DEF Come, Handed, Initialising
  <2> QED
    BY <1>7, <2>3, <2>4 DEF RefreshToken
<1>8. CASE Use
  BY <1>8 DEF Use, Come, Handed, Initialising, IInv, Phases, Steps!Next, Steps!Use
<1>9. CASE Expire
  BY <1>9, Stutter DEF Expire, Come, Handed, Initialising
<1>10. CASE ProcessExit
  BY <1>10 DEF ProcessExit, Come, Handed, Initialising, Steps!Next, Steps!ProcessExit
<1>11. CASE UNCHANGED vars
  BY <1>11, Stutter DEF vars, Come, Handed, Initialising
<1> QED
  BY <1>1, <1>2, <1>3, <1>4, <1>5, <1>6, <1>7, <1>8, <1>9, <1>10, <1>11 DEF Next

\* initKeycloak and GetToken implement the client Driver assumes: once tokens
\* were held, no call hands out an empty one, and a client whose initialisation
\* stopped halfway never counts as authorised.
THEOREM ClientRefines == Spec => ImplementsSteps
<1>1. Init => Steps!Init
  BY StepInit
<1>2. IInv /\ IInv' /\ [Next]_vars => [Steps!Next]_<<Come, Handed>>
  BY StepNext
<1> QED
  BY <1>1, <1>2, Invariance, PTL DEF Spec, ImplementsSteps, Steps!Spec

-----------------------------------------------------------------------------
(***************************************************************************)
(* No answer makes the client go back.                                     *)
(***************************************************************************)
LEMMA TokensStep ==
    ASSUME IInv, [Next]_vars, keycloak = "made", keycloak' = "made"
    PROVE  access <= access' /\ refresh <= refresh'
<1> USE DEF Goto, client, service, history
<1>1. /\ granted \in Nat /\ access \in Nat /\ refresh \in Nat
      /\ access <= granted /\ refresh <= access
  BY MaxGrantsAssumption DEF IInv, TypeOK, Tokens, KeepsNewest
<1>2. /\ access' \in {access, granted + 1}
      /\ refresh' \in {refresh, granted + 1}
  <2>1. CASE NewKeycloak
    BY <2>1 DEF NewKeycloak, IInv, Phases
  <2>2. CASE GetTokens
    BY <2>2 DEF GetTokens
  <2>3. CASE RefreshToken
    BY <2>3 DEF RefreshToken
  <2>4. CASE UpdateUserPgcdiPrivileges
    BY <2>4 DEF UpdateUserPgcdiPrivileges
  <2>5. CASE UserIsAllowedToCreateCluster
    BY <2>5 DEF UserIsAllowedToCreateCluster
  <2>6. CASE AccessTokenIsValid
    BY <2>6 DEF AccessTokenIsValid
  <2>7. CASE Call \/ Use \/ Expire \/ UNCHANGED vars
    BY <2>7 DEF Call, Use, Expire, vars
  <2>8. CASE ProcessExit
    BY <2>8 DEF ProcessExit
  <2> QED
    BY <2>1, <2>2, <2>3, <2>4, <2>5, <2>6, <2>7, <2>8 DEF Next
<1> QED
  BY <1>1, <1>2

\* Neither token of a living client is ever replaced by an older one.
THEOREM NeverBack == Spec => TokensAdvance
<1>1. IInv /\ [Next]_vars
        => [keycloak = "made" /\ keycloak' = "made"
              => access <= access' /\ refresh <= refresh']_vars
  BY TokensStep
<1> QED
  BY <1>1, Invariance, PTL DEF Spec, TokensAdvance

=============================================================================
