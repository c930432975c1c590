----------------------------- MODULE TokenSteps -----------------------------
(***************************************************************************)
(* The Keycloak client as Driver takes it: how far it has come (kc), and   *)
(* what GetToken hands out for a request.  Its initialisation is one step  *)
(* that may stop halfway; a client that has once held tokens always has    *)
(* one to hand out; only a new process begins again.  Keycloak shows that  *)
(* initKeycloak and GetToken implement it.                                 *)
(***************************************************************************)
VARIABLES
    kc,      \* "zero", "built" without tokens, "tokens", or "ready": also
             \* authorised when it was initialised
    token    \* for the request to be made: "none" yet, "empty" or "some"

Init == kc = "zero" /\ token = "none"

\* initKeycloak, unless it fails before there is a client.
InitKeycloak == /\ kc = "zero" /\ kc' \in {"built", "tokens", "ready"}
                /\ UNCHANGED token

\* GetToken logs in again for a client without tokens.
LogIn == /\ kc = "built" /\ kc' = "tokens"
         /\ UNCHANGED token

GetToken == /\ kc # "zero" /\ token = "none"
            /\ token' = IF kc = "built" THEN "empty" ELSE "some"
            /\ UNCHANGED kc

Use == /\ token # "none" /\ token' = "none"
       /\ UNCHANGED kc

ProcessExit == kc' = "zero" /\ token' = "none"

Next == InitKeycloak \/ LogIn \/ GetToken \/ Use \/ ProcessExit

Spec == Init /\ [][Next]_<<kc, token>>

=============================================================================
