------------------------------ MODULE MCConfig ------------------------------
(***************************************************************************)
(* Small instances of Config: flags of which at most two are missing,      *)
(* padded, wrong or blank, and processes whose environment names nothing,  *)
(* what the customer gave, changed credentials, or another tenant.         *)
(***************************************************************************)
EXTENDS Config

Good == [f \in Flag |->
  CASE f = "devices" -> Plain("boot") [] f = "key" -> Plain("ecdsa")
    [] f = "email" -> Plain("mail") [] f = "tenant" -> Plain("tenant")
    [] f = "port" -> Plain("1") [] OTHER -> Plain("value")]

\* The other ways to set a flag.
Odd(f) ==
  {Unset, Plain("wrong")}
  \cup IF f = "port" THEN {Plain("-1")}
       ELSE {Plain(""), [text |-> "", pad |-> TRUE], [Good[f] EXCEPT !.pad = TRUE]}

With(c, f, v) == [c EXCEPT ![f] = v]
Once(C) == UNION {{With(c, f, v) : v \in Odd(f)} : c \in C, f \in Flag}
MCGiven == {Good} \cup Once({Good}) \cup Once(Once({Good}))

MCTexts ==
  {"", "unset", "rancher", "0", "-1", "1", "boot", "ecdsa", "mail", "tenant", "other", "value",
   "wrong", "rotated"}

MCTenants == {Plain("tenant"), Plain("other")}

MCEnvironments ==
  LET Same(fs) == [f \in Reloadable |-> IF f \in fs THEN Good[f] ELSE Unset]
  IN  {NothingSet, Same(Reloadable), [Same({}) EXCEPT !.password = Plain("rotated")],
       [Same({}) EXCEPT !.tenant = [text |-> "tenant", pad |-> TRUE]],
       [Same({"username"}) EXCEPT !.tenant = Plain("other"), !.code = Plain("value")]}

===========================================================================
