------------------------------ MODULE Keycloak ------------------------------
(***************************************************************************)
(* The Keycloak client (src/keycloak/keycloak.go): where the token of a    *)
(* request comes from.  initKeycloak (fsas.go) makes the client, logs in,  *)
(* reads the user's privileges and checks them; from then on every request *)
(* of the driver calls GetToken, which returns the token it holds, or      *)
(* refreshes it, or logs in again.                                         *)
(*                                                                         *)
(* The service is outside the repository: it grants tokens in pairs, lets  *)
(* access tokens expire, ends sessions, and may take back a refresh token  *)
(* it has exchanged.  A pair is a number, 0 is the empty string.  Driver   *)
(* sees none of this but whether a request can be refused.                 *)
(***************************************************************************)
EXTENDS Integers

CONSTANT MaxGrants   \* BOUND on the pairs the service grants

ASSUME MaxGrantsAssumption == MaxGrants \in Nat

VARIABLES
    keycloak,      \* isInit, a package variable: NewKeycloak made a client
    access,        \* k.AccessToken
    refresh,       \* k.RefreshToken
    privileges,    \* what k.userTenant and k.userRoles say
    pc,            \* where the call is
    caller,        \* of InitConnection
    granted,       \* service: the last pair granted
    unexpired,     \* service and clock: access tokens not yet expired
    sessions,      \* service: refresh tokens it takes
    met,           \* history: this call saw its token valid, or received it
                   \*   ("token"); it was refused a login, or the status of
                   \*   the answer to its refresh was neither 200 nor an error
                   \*   ("refusal")
    seen,          \* history: the last pair an answer brought in full
    admitted       \* history: has initKeycloak returned nil in this process?

client  == <<keycloak, access, refresh, privileges>>
service == <<granted, unexpired, sessions>>
history == <<met, seen, admitted>>
vars    == <<client, pc, caller, service, history>>

Tokens == 0 .. MaxGrants

TypeOK == /\ keycloak \in {"unmade", "made"}
          /\ caller \in {"initKeycloak", "GetToken"}
          /\ met \subseteq {"token", "refusal"}
          /\ admitted \in {"no", "yes"}
          /\ access \in Tokens /\ refresh \in Tokens
          /\ granted \in Tokens /\ seen \in Tokens
          /\ privileges \in {"none", "creator", "other"}
          /\ pc \in {"idle", "new", "login", "introspect", "allowed",
                     "check", "refresh", "have"}
          /\ unexpired \subseteq 1 .. granted
          /\ sessions \subseteq 1 .. granted

Init == /\ keycloak = "unmade" /\ access = 0 /\ refresh = 0 /\ privileges = "none"
        /\ pc = "idle" /\ caller = "GetToken"
        /\ granted = 0 /\ unexpired = {} /\ sessions = {}
        /\ met = {} /\ seen = 0 /\ admitted = "no"

-----------------------------------------------------------------------------
(***************************************************************************)
(* The service.                                                            *)
(***************************************************************************)
\* A new pair; if the service rotates refresh tokens, the old one is spent.
Grant == /\ granted < MaxGrants
         /\ granted' = granted + 1
         /\ unexpired' = unexpired \cup {granted + 1}
         /\ sessions' \in {sessions \cup {granted + 1},
                           (sessions \ {refresh}) \cup {granted + 1}}

Expire == /\ \/ \E t \in unexpired : /\ unexpired' = unexpired \ {t}
                                     /\ UNCHANGED sessions
             \/ \E t \in sessions : /\ sessions' = sessions \ {t}
                                    /\ UNCHANGED unexpired
          /\ UNCHANGED <<client, pc, caller, granted, history>>

-----------------------------------------------------------------------------
(***************************************************************************)
(* The answers to a POST for tokens, as httputils lets the client see them *)
(* and getTokenFromResponse reads them.                                    *)
(***************************************************************************)
\* 200 with both tokens.
Both == Grant /\ seen' = granted + 1

\* A pair was granted and no refresh token can be read from the answer.
AccessOnly == Grant /\ UNCHANGED seen

\* No token can be read: nothing was granted, or its answer was lost, cut
\* short or lacks the access token.
Neither == (Grant \/ UNCHANGED service) /\ UNCHANGED seen

\* A refresh is granted for a refresh token the service takes.
CanRefresh == refresh \in sessions
NotRefreshed == (CanRefresh /\ Neither) \/ UNCHANGED <<service, seen>>

-----------------------------------------------------------------------------
(***************************************************************************)
(* initKeycloak, up to the first use of the client.                        *)
(***************************************************************************)
Goto(l) == pc' = l

Call == /\ pc = "idle"
        /\ Goto(IF keycloak = "made" THEN "check" ELSE "new")
        /\ met' = {}
        /\ UNCHANGED <<client, caller, service, seen, admitted>>

\* An argument or an environment variable may be missing.
NewKeycloak ==
    /\ pc = "new"
    /\ \/ /\ Goto("login") /\ caller' = "initKeycloak"
          /\ keycloak' = "made"
          /\ access' = 0 /\ refresh' = 0 /\ privileges' = "none" /\ seen' = 0
       \/ Goto("idle") /\ UNCHANGED <<client, caller, seen>>
    /\ UNCHANGED <<service, met, admitted>>

\* InitConnection returns: its error ends initKeycloak, and is ignored by
\* GetToken.
InitConnectionFails ==
    /\ caller' = "GetToken"
    /\ Goto(IF caller = "initKeycloak" THEN "idle" ELSE "have")

InitConnectionOk ==
    /\ caller' = "GetToken"
    /\ Goto(IF caller = "initKeycloak" THEN "allowed" ELSE "have")

\* getTokens: the fields are set only when both tokens were read.  Mutant: they
\* are filled from whatever was read, before its error is looked at.
GetTokens_Emptied ==
    /\ pc = "login"
    /\ \/ /\ Both
          /\ access' = granted + 1 /\ refresh' = granted + 1
          /\ met' = met \cup {"token"}
          /\ Goto("introspect") /\ UNCHANGED caller
       \/ /\ Neither
          /\ access' = 0 /\ refresh' = 0
          /\ met' = met \cup {"refusal"}
          /\ InitConnectionFails
    /\ UNCHANGED <<keycloak, privileges, admitted>>

GetTokens ==
    /\ pc = "login"
    /\ \/ /\ Both
          /\ access' = granted + 1 /\ refresh' = granted + 1
          /\ met' = met \cup {"token"}
          /\ Goto("introspect") /\ UNCHANGED caller
       \/ /\ AccessOnly \/ Neither
          /\ met' = met \cup {"refusal"}
          /\ InitConnectionFails /\ UNCHANGED <<access, refresh>>
    /\ UNCHANGED <<keycloak, privileges, admitted>>

\* updateUserPgcdiPrivileges: an answer without the privileges empties the
\* fields before its error is returned.
UpdateUserPgcdiPrivileges ==
    /\ pc = "introspect"
    /\ \/ privileges' \in {"creator", "other"} /\ InitConnectionOk
       \/ privileges' = "none" /\ InitConnectionFails
       \/ UNCHANGED privileges /\ InitConnectionFails
    /\ UNCHANGED <<keycloak, access, refresh, service, history>>

\* Nil: the call goes on to its first request.
UserIsAllowedToCreateCluster ==
    /\ pc = "allowed"
    /\ \/ privileges = "creator" /\ Goto("check") /\ admitted' = "yes"
       \/ Goto("idle") /\ UNCHANGED admitted     \* role, tenant, or the master realm
    /\ UNCHANGED <<client, caller, service, met, seen>>

-----------------------------------------------------------------------------
(***************************************************************************)
(* GetToken.                                                               *)
(***************************************************************************)
AccessTokenIsValid ==
    /\ pc = "check"
    /\ \/ access \in unexpired /\ Goto("have") /\ met' = met \cup {"token"}
       \/ access \notin unexpired /\ Goto("refresh") /\ UNCHANGED met
    /\ UNCHANGED <<client, caller, service, seen, admitted>>

\* refreshToken.  Mutants: its error is not followed by a login; the new
\* refresh token is not kept.
RefreshToken_NoLogin ==
    /\ pc = "refresh"
    /\ \/ /\ CanRefresh /\ Both
          /\ access' = granted + 1 /\ refresh' = granted + 1
          /\ met' = met \cup {"token"}
       \/ /\ CanRefresh /\ AccessOnly
          /\ access' = granted + 1 /\ met' = met \cup {"token"}
          /\ UNCHANGED refresh
       \/ /\ NotRefreshed
          /\ UNCHANGED <<access, refresh, met>>
    /\ Goto("have")
    /\ UNCHANGED <<keycloak, privileges, caller, admitted>>

RefreshToken_AccessOnly ==
    /\ pc = "refresh"
    /\ \/ /\ CanRefresh /\ Both
          /\ access' = granted + 1
          /\ met' = met \cup {"token"} /\ UNCHANGED refresh
          /\ Goto("have")
       \/ /\ NotRefreshed
          /\ UNCHANGED <<access, refresh, met>>
          /\ Goto("login")
    /\ UNCHANGED <<keycloak, privileges, caller, admitted>>

\* The last answer is one whose status is neither 200 nor an error: nothing is
\* stored and nil is returned.
RefreshToken ==
    /\ pc = "refresh"
    /\ \/ /\ CanRefresh /\ Both
          /\ access' = granted + 1 /\ refresh' = granted + 1
          /\ met' = met \cup {"token"}
          /\ Goto("have")
       \/ /\ CanRefresh /\ AccessOnly
          /\ access' = granted + 1
          /\ met' = met \cup {"token"} /\ UNCHANGED refresh
          /\ Goto("login")
       \/ /\ NotRefreshed
          /\ UNCHANGED <<access, refresh, met>>
          /\ Goto("login")
       \/ /\ NotRefreshed
          /\ UNCHANGED <<access, refresh>> /\ met' = met \cup {"refusal"}
          /\ Goto("have")
    /\ UNCHANGED <<keycloak, privileges, caller, admitted>>

\* The token goes with a request to the Fabric Manager.
Use == /\ pc = "have" /\ Goto("idle")
       /\ UNCHANGED <<client, caller, service, history>>

\* The process ends, at any step; the client is gone with it.
ProcessExit ==
    /\ keycloak' = "unmade" /\ access' = 0 /\ refresh' = 0 /\ privileges' = "none"
    /\ Goto("idle") /\ caller' = "GetToken"
    /\ met' = {} /\ seen' = 0 /\ admitted' = "no"
    /\ UNCHANGED service

Next == \/ Call \/ NewKeycloak \/ GetTokens \/ UpdateUserPgcdiPrivileges
        \/ UserIsAllowedToCreateCluster
        \/ AccessTokenIsValid \/ RefreshToken \/ Use
        \/ Expire \/ ProcessExit

Spec == Init /\ [][Next]_vars

-----------------------------------------------------------------------------
(***************************************************************************)
(* What the client promises.                                               *)
(***************************************************************************)
\* GetToken hands out a token that it saw valid, or received, in this very
\* call, unless a login was refused or the answer to the refresh was odd:
\* whatever else happened before, and however the refresh failed.
StaleOnlyIfRefused == pc = "have" => met # {}

\* The refresh token is that of the last answer that brought a whole pair, so
\* no rotation the client was told of leaves it with a spent one; the access
\* token is of the same pair or a later one.
KeepsNewest == refresh = seen /\ refresh <= access

\* InitConnection returns nil only with both tokens and known privileges, and
\* the tokens are those of one login.
InitIsComplete == pc = "allowed" => /\ access # 0 /\ refresh = access
                                    /\ privileges # "none"

\* The client as Driver takes it; its initialisation is decided at its end.
Initialising == caller = "initKeycloak" \/ pc = "allowed"

Come == IF keycloak = "unmade" \/ Initialising THEN "zero"
        ELSE IF admitted = "yes" THEN "ready"
        ELSE IF access = 0 THEN "built" ELSE "tokens"

Handed == IF pc # "have" THEN "none" ELSE IF access = 0 THEN "empty" ELSE "some"

Steps == INSTANCE TokenSteps WITH kc <- Come, token <- Handed

\* What Driver assumes of the client holds of its code: whatever fails in a
\* login or a refresh, and in whatever order, a client that has held tokens
\* never hands out an empty one, and one whose initialisation failed is never
\* taken for authorised, in the same process.
ImplementsSteps == Steps!Spec

\* No answer makes the client go back: while it lives, neither of its tokens is
\* ever replaced by an older one.
TokensAdvance == [][keycloak = "made" /\ keycloak' = "made"
                      => access <= access' /\ refresh <= refresh']_vars

-----------------------------------------------------------------------------
\* The inductive invariant: nothing is held that was not granted, and between
\* the two requests of a login the pair is whole and received in this call.
Login == pc = "introspect" => /\ "token" \in met
                            /\ access # 0 /\ refresh = access

\* A new client is logged in at once, and admitted only with its tokens.
Phases == /\ pc = "new" => keycloak = "unmade"
          /\ pc \notin {"idle", "new"} => keycloak = "made"
          /\ keycloak = "unmade" => access = 0 /\ admitted = "no"
          /\ caller = "initKeycloak" => pc \in {"login", "introspect"}
          /\ caller = "initKeycloak" \/ pc = "allowed" => admitted = "no"
          /\ admitted = "yes" => access # 0

IInv == /\ TypeOK
        /\ access <= granted
        /\ Phases
        /\ Login
        /\ StaleOnlyIfRefused
        /\ KeepsNewest
        /\ InitIsComplete

=============================================================================
