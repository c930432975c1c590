----------------------------- MODULE SshManager -----------------------------
(***************************************************************************)
(* The SSH manager (src/sshutils/sshutils.go) command by command: what     *)
(* Driver takes as one step over SSH that may fail halfway is here the     *)
(* sequence of commands behind it, over a network that fails before or     *)
(* after a command is carried out, on a machine that goes down and comes   *)
(* up again, in a process that may die.  Time is not modelled.             *)
(***************************************************************************)
EXTENDS Naturals

CONSTANTS
  Product,       (* the products SUSEConnect lists                         *)
  Base,          (* the one "SUSEConnect -r" always registers              *)
  MaxAttempts    (* maxAttempts of hostPublicKeyIsValid                    *)

ASSUME ProductAssumption == Base \in Product
ASSUME AttemptsAssumption == MaxAttempts \in Nat

VARIABLES
  op,       (* the operation in progress or the last one; "exit": none     *)
            (* since the process was restarted                             *)
  pc,       (* the command it is at, or "idle"                             *)
  ret,      (* what it returns                                             *)
  path,     (* ExecuteScript: was a script path given, or one made up?     *)
  after,    (* ExecuteScript: is the script to be removed or kept?         *)
  valid,    (* publicKeyIsValid                                            *)
  attempt,  (* currentAttempt of hostPublicKeyIsValid                      *)
  todo,     (* products of the status not yet visited by RegisterOS        *)
  box,      (* the machine: see Box                                        *)
  dials,    (* (history) the dials of this operation                       *)
  failed    (* (history) its commands that failed: each is in the log      *)

control == <<op, path, after>>
vars == <<control, pc, ret, valid, attempt, todo, box, dials, failed>>

Settings == {"nopw", "pubkey"}
Files == {"absent", "partial", "whole"}

\* "rebooting": down because cloud-init reboots it.  key: not made, made, or
\* made and known to the machine.  conf: the settings in sshd's configuration
\* files, sshd: those it runs with.  dirs: the script directories there are.
\* metadata: the file on the machine, seed: what cloud-init was restarted with.
Box == [up : {"up", "down", "rebooting"}, key : {"none", "made", "known"},
        conf : SUBSET Settings, sshd : SUBSET Settings,
        dirs : SUBSET {"tmp", "given"}, script : Files, metadata : Files,
        provider : {"no", "yes"}, seed : Files, registered : SUBSET Product]

\* The commands that go through runCommand, and those that do not.
Commands == {"addkey", "base", "status", "module", "dstatus", "undo", "mkdir", "run",
             "rm", "rmdir", "reboot", "backup", "nopw", "pubkey", "reload"}
Pcs == Commands \cup {"keygen", "noregcode", "path", "write", "userdata", "metadata", "sleep", "idle"}

Init ==
  /\ op = "none" /\ pc = "idle" /\ ret = "none" /\ path = "random" /\ after = "remove"
  /\ valid = "no" /\ attempt = 1 /\ todo = {} /\ dials = 0 /\ failed = {}
  /\ box \in [up : {"up"}, key : {"none"}, conf : {{}}, sshd : {{}},
              dirs : {{}, {"given"}}, script : {"absent"}, metadata : {"absent"},
              provider : {"no"}, seed : {"absent"}, registered : {{}}]

---------------------------------------------------------------------------
(***************************************************************************)
(* Control: where an operation goes on.                                    *)
(***************************************************************************)

Goto(p) == pc' = p /\ UNCHANGED ret
Return(r) == pc' = "idle" /\ ret' = r

\* The deferred function of ExecuteScript: it runs when the result is fixed.
Cleanup(r) == pc' = (IF after = "remove" THEN "rm" ELSE "rmdir") /\ ret' = r

Then == [path |-> "mkdir", mkdir |-> "write", write |-> "run", rm |-> "rmdir", rmdir |-> "idle",
         keygen |-> "addkey", base |-> "status", userdata |-> "metadata",
         metadata |-> "reboot", reboot |-> "sleep",
         backup |-> "nopw", nopw |-> "pubkey", pubkey |-> "reload"]

OnNil ==
  /\ \/ pc \in DOMAIN Then /\ Goto(Then[pc])
     \/ pc = "run" /\ Cleanup("ok")
     \/ pc \notin DOMAIN Then \cup {"run"} /\ Return("ok")
  /\ UNCHANGED <<failed, todo>>

LoggedOnly == {"mkdir", "rm", "rmdir"}

\* Mutant: nothing is deferred.
OnErrorNoCleanup ==
  /\ \/ pc \in LoggedOnly /\ Goto(Then[pc])
     \/ pc \notin LoggedOnly /\ Return("err")
  /\ failed' = failed \cup {pc} /\ UNCHANGED todo

\* Mutant: the deferred function overwrites the result.
OnErrorOverwritten ==
  /\ \/ pc \in LoggedOnly /\ Goto(Then[pc])
     \/ pc = "run" /\ Cleanup("ok")
     \/ pc \notin LoggedOnly \cup {"run"} /\ Return("err")
  /\ failed' = failed \cup {pc} /\ UNCHANGED todo

\* Mutant: an error of the key transfer is only logged.
OnErrorNoKey ==
  /\ \/ pc \in LoggedOnly /\ Goto(Then[pc])
     \/ pc = "run" /\ Cleanup("err")
     \/ pc = "addkey" /\ Return("ok")
     \/ pc \notin LoggedOnly \cup {"run", "addkey"} /\ Return("err")
  /\ failed' = failed \cup {pc} /\ UNCHANGED todo

\* An error of the directory made before the script, and of the cleanup after
\* it, is only logged.
OnError ==
  /\ \/ pc \in LoggedOnly /\ Goto(Then[pc])
     \/ pc = "run" /\ Cleanup("err")
     \/ pc \notin LoggedOnly \cup {"run"} /\ Return("err")
  /\ failed' = failed \cup {pc} /\ UNCHANGED todo

---------------------------------------------------------------------------
(***************************************************************************)
(* Dialling and running a command.                                         *)
(***************************************************************************)

\* The manager offers the password and, once it has made it, the key.
CanLogin == box.sshd = {} \/ box.key = "known"
Reachable == box.up = "up" /\ CanLogin

\* Mutant: the number of the attempt is not counted (nor, to keep the model
\* finite, the dials).
DialUncounted ==
  /\ pc \in Commands /\ valid = "no" /\ dials' = dials
  /\ \/ Reachable /\ valid' = "yes"
     \/ UNCHANGED valid
  /\ UNCHANGED <<control, pc, ret, attempt, todo, failed, box>>

\* Mutant: one attempt more.
DialOnceMore ==
  /\ pc \in Commands /\ valid = "no" /\ dials' = dials + 1
  /\ \/ /\ Reachable /\ valid' = "yes" /\ attempt' = 1
        /\ UNCHANGED <<pc, ret, failed, todo>>
     \/ /\ attempt <= MaxAttempts + 1 /\ attempt' = attempt + 1
        /\ UNCHANGED <<valid, pc, ret, failed, todo>>
     \/ /\ attempt > MaxAttempts + 1 /\ attempt' = 1
        /\ OnError /\ UNCHANGED valid
  /\ UNCHANGED <<control, box>>

\* hostPublicKeyIsValid: before a command, until it has succeeded once in this
\* process.
Dial ==
  /\ pc \in Commands /\ valid = "no" /\ dials' = dials + 1
  /\ \/ /\ Reachable /\ valid' = "yes" /\ attempt' = 1
        /\ UNCHANGED <<pc, ret, failed, todo>>
     \/ /\ attempt <= MaxAttempts /\ attempt' = attempt + 1
        /\ UNCHANGED <<valid, pc, ret, failed, todo>>
     \/ /\ attempt > MaxAttempts /\ attempt' = 1
        /\ OnError /\ UNCHANGED valid
  /\ UNCHANGED <<control, box>>

\* The rest of runCommand, for the command at c that leaves the machine as
\* "done": it is carried out and the caller knows, or does not, or it is not
\* carried out at all.  nil: what follows when it returns nil, which for every
\* command but that of ApplyCloudInit means that it was carried out.
RunCommand(c, done, nil) ==
  /\ pc = c /\ valid = "yes"
  /\ \/ Reachable /\ box' = done /\ nil
     \/ Reachable /\ box' = done /\ OnError
     \/ UNCHANGED box /\ OnError
  /\ UNCHANGED <<control, valid, attempt, dials>>

Command(c, done) == RunCommand(c, done, OnNil)

\* A command that fails when part of its work is done.
Interrupted(c, partly) ==
  /\ pc = c /\ valid = "yes" /\ Reachable /\ box' \in partly /\ OnError
  /\ UNCHANGED <<control, valid, attempt, dials>>

\* Mutant: an error of the copy is only logged.
WriteFileUnchecked(c, possible, partial, whole) ==
  /\ pc = c /\ dials' = dials + 1
  /\ \/ Reachable /\ possible /\ box' \in {partial, whole} /\ OnNil
     \/ UNCHANGED box /\ OnError
  /\ UNCHANGED <<control, valid, attempt>>

\* WriteFileOnRemoteMachine dials for itself, once, and truncates the file
\* before it copies to it.  partial, whole: the machine with the file so.
WriteFile(c, possible, partial, whole) ==
  /\ pc = c /\ dials' = dials + 1
  /\ \/ Reachable /\ possible /\ box' = whole /\ OnNil
     \/ Reachable /\ possible /\ box' \in {partial, whole} /\ OnError
     \/ UNCHANGED box /\ OnError
  /\ UNCHANGED <<control, valid, attempt>>

\* A step that stays on the machine the driver runs on.
Local(c, end) ==
  /\ pc = c /\ end
  /\ UNCHANGED <<control, valid, attempt, dials, box>>

---------------------------------------------------------------------------
(***************************************************************************)
(* The operations.                                                         *)
(***************************************************************************)

\* createSSHKey, which keeps a key there is, then transferSSHKeyToMachine.
ExchangeKeys ==
  \/ Local("keygen", OnError)
  \/ /\ pc = "keygen" /\ OnNil
     /\ box' = [box EXCEPT !.key = "made"]
     /\ UNCHANGED <<control, valid, attempt, dials>>
  \/ Command("addkey", [box EXCEPT !.key = "known"])

\* The loop over the products of the status: what is left, and nil at its end.
Visit(left) ==
  /\ todo' = left
  /\ IF left = {} THEN Return("ok") ELSE Goto("module")
  /\ UNCHANGED failed

\* The base registration may bring some of the modules with it.
RegisterOS ==
  \/ Local("noregcode", OnNil)
  \/ \E P \in SUBSET Product :
       Command("base", [box EXCEPT !.registered = @ \cup {Base} \cup P])
  \/ RunCommand("status", box, Visit(Product \ box.registered))
  \/ \E p \in todo :
       RunCommand("module", [box EXCEPT !.registered = @ \cup {p}], Visit(todo \ {p}))

\* Mutant: a status with a product not registered is taken for no registration.
DeregisterOSIfComplete ==
  \/ RunCommand("dstatus", box,
       /\ IF box.registered # Product THEN Return("ok") ELSE Goto("undo")
       /\ UNCHANGED <<failed, todo>>)
  \/ Command("undo", [box EXCEPT !.registered = {}])

\* A deregistration that fails may have released some of the products.
DeregisterOS ==
  \/ RunCommand("dstatus", box,
       /\ IF box.registered = {} THEN Return("ok") ELSE Goto("undo")
       /\ UNCHANGED <<failed, todo>>)
  \/ Command("undo", [box EXCEPT !.registered = {}])
  \/ Interrupted("undo", {[box EXCEPT !.registered = P] : P \in SUBSET box.registered})

\* The directory of the script's path is made whether the path was given or
\* not; the one removed, if it is empty, is always that of made-up paths.
Dir == IF path = "random" THEN "tmp" ELSE "given"
Emptied == IF path = "random" /\ box.script # "absent" THEN box.dirs ELSE box.dirs \ {"tmp"}

\* A path may not be found for the script: then nothing is sent.
ExecuteScript ==
  \/ Local("path", OnNil) \/ Local("path", OnError)
  \/ Command("mkdir", [box EXCEPT !.dirs = @ \cup {Dir}])
  \/ WriteFile("write", Dir \in box.dirs,
               [box EXCEPT !.script = "partial"], [box EXCEPT !.script = "whole"])
  \/ Command("run", [box EXCEPT !.provider = IF box.script = "whole" THEN "yes" ELSE @])
  \/ Command("rm", [box EXCEPT !.script = "absent"])
  \/ Command("rmdir", [box EXCEPT !.dirs = Emptied])

\* applyCloudInit of the driver: two files, the second always, RebootCloudInit,
\* which cleans cloud-init and reboots, here as one, and a minute's sleep.  For
\* the one command with "reboot" in it a connection that breaks before the
\* command has ended (ExitMissingError) is a nil, which the reboot causes when
\* it comes, and anything else may cause before it: then nothing is done.
ApplyCloudInit ==
  \/ Local("userdata", OnError)
  \/ WriteFile("userdata", TRUE, box, box)
  \/ WriteFile("metadata", TRUE,
               [box EXCEPT !.metadata = "partial"], [box EXCEPT !.metadata = "whole"])
  \/ Command("reboot", [box EXCEPT !.up = "rebooting", !.seed = box.metadata])
  \/ Command("reboot", box)
  \/ Local("sleep", OnNil)

DisablePasswordSSHLogin ==
  \/ Command("backup", box)
  \/ Command("nopw", [box EXCEPT !.conf = @ \cup {"nopw"}])
  \/ Command("pubkey", [box EXCEPT !.conf = @ \cup {"pubkey"}])
  \/ Command("reload", [box EXCEPT !.sshd = box.conf])

---------------------------------------------------------------------------
(***************************************************************************)
(* The caller, and the machine by itself.                                  *)
(***************************************************************************)

\* "unlicensed" is RegisterOS without a registration code.
Entry == [exchange |-> {"keygen"}, register |-> {"base"}, unlicensed |-> {"noregcode"},
          script |-> {"path"}, cloud |-> {"userdata", "metadata"}, pwoff |-> {"backup"},
          deregister |-> {"dstatus"}]

\* innerCreate calls one after the other while they return nil; Remove calls
\* DeregisterOS, after a Create that failed or came to its end, or in a process
\* of its own.
InOrder == [none |-> {"exchange"}, exchange |-> {"register", "unlicensed"},
            register |-> {"script"}, unlicensed |-> {"script"},
            script |-> {"cloud"}, cloud |-> {"pwoff"}]

MayCall(o) ==
  \/ op \in DOMAIN InOrder /\ o \in InOrder[op] /\ ret # "err"
  \/ o = "deregister" /\ (ret = "err" \/ op \notin DOMAIN InOrder)

Call(o) ==
  /\ pc = "idle" /\ MayCall(o)
  /\ op' = o /\ ret' = "none" /\ pc' \in Entry[o]
  /\ IF o = "script" THEN path' \in {"random", "given"} /\ after' \in {"remove", "keep"}
                     ELSE UNCHANGED <<path, after>>
  /\ dials' = 0 /\ failed' = {} /\ todo' = {}
  /\ UNCHANGED <<valid, attempt, box>>

\* The process ends, or is killed; Create is not resumed.
ProcessExit ==
  /\ op' = "exit" /\ pc' = "idle" /\ ret' = "none"
  /\ valid' = "no" /\ attempt' = 1 /\ todo' = {} /\ dials' = 0 /\ failed' = {}
  /\ UNCHANGED <<path, after, box>>

\* A machine that comes up starts sshd from its configuration files.
Halt == box.up = "up" /\ box' = [box EXCEPT !.up = "down"]
Boot == box.up # "up" /\ box' = [box EXCEPT !.up = "up", !.sshd = box.conf]

MachineStep ==
  (Halt \/ Boot) /\ UNCHANGED <<control, pc, ret, valid, attempt, todo, dials, failed>>

ManagerStep ==
  \/ Dial
  \/ ExchangeKeys \/ RegisterOS \/ DeregisterOS \/ ExecuteScript
  \/ ApplyCloudInit \/ DisablePasswordSSHLogin

Next == ManagerStep \/ MachineStep \/ ProcessExit \/ \E o \in DOMAIN Entry : Call(o)

Spec == Init /\ [][Next]_vars

\* Every command is answered: with an error, if need be.
FairSpec == Spec /\ WF_vars(ManagerStep)

---------------------------------------------------------------------------
(***************************************************************************)
(* What the manager promises.                                              *)
(***************************************************************************)

(* Every variable stays in its range; currentAttempt never passes the one at
   which hostPublicKeyIsValid gives up. *)
TypeOK ==
  /\ op \in DOMAIN Entry \cup {"none", "exit"} /\ pc \in Pcs
  /\ ret \in {"none", "ok", "err"}
  /\ path \in {"random", "given"} /\ after \in {"remove", "keep"}
  /\ valid \in {"no", "yes"} /\ attempt \in 1 .. MaxAttempts + 1
  /\ todo \subseteq Product /\ box \in Box /\ dials \in Nat /\ failed \subseteq Pcs

\* The machine as the operation o is to leave it, except that the nil of "cloud"
\* does not say whether cloud-init was restarted: see RebootIsDone.
Achieved(o) ==
  /\ o = "exchange" => box.key = "known"
  /\ o = "register" => box.registered = Product
  /\ o = "script" => box.provider = "yes"
  /\ o = "cloud" => box.metadata = "whole"
  /\ o = "pwoff" => box.conf = Settings /\ box.sshd = Settings
  /\ o = "deregister" => box.registered = {}

(* An operation that returns nil has done all that its nil vouches for: the
   key is known, every product of the status is registered or none is, a whole
   script ran, the whole meta-data is on the machine, sshd runs with both
   settings; and none of its commands failed but those whose failure is only
   logged. *)
NilMeansDone ==
  pc = "idle" /\ ret = "ok" => Achieved(op) /\ failed \subseteq LoggedOnly

(* What the log says after the reboot command, "Cloud-init reboot executed
   successfully", and what the driver then waits a minute for: cloud-init was
   restarted from the meta-data.  A connection cut off before that returns the
   same nil, and it is not so. *)
RebootIsDone == pc = "sleep" => box.seed = "whole"

(* However commands fail and whenever the machine restarts, also with sshd
   configured halfway by DisablePasswordSSHLogin, the driver can log in. *)
LoginIsPossible == CanLogin

(* A script that was to be removed is removed when ExecuteScript has returned,
   and so is the directory made for it, unless a failure says so: of the
   path or the writing, when nothing is deferred yet, or of the removal. *)
LeftoversReported ==
  pc = "idle" /\ op = "script" /\ after = "remove" =>
    /\ box.script # "absent" => failed \cap {"path", "write", "rm"} # {}
    /\ path = "random" /\ "tmp" \in box.dirs => failed \cap {"path", "write", "rm", "rmdir"} # {}

\* How often an operation may dial by itself: for the check of the host key,
\* and for each file it writes.
Budget ==
  CASE op \in {"exchange", "deregister"} -> MaxAttempts + 1
    [] op = "script" -> 1
    [] op = "cloud"  -> 2
    [] OTHER         -> 0

(* A manager that cannot reach its machine gives up after MaxAttempts + 1
   dials of its own (libmachine's client beneath has others), and only the
   first operation of a process dials until it is answered:
   the ones after ExchangeKeys, after the reboot of applyCloudInit too, take a
   file's single dial or none. *)
DialBudget == dials <= Budget

\* The commands an operation has still before it.
CommandsLeft ==
  [keygen |-> 2, addkey |-> 1, base |-> 3, status |-> 2, module |-> 1, noregcode |-> 1,
   path |-> 6, mkdir |-> 5, write |-> 4, run |-> 3, rm |-> 2, rmdir |-> 1,
   userdata |-> 4, metadata |-> 3, reboot |-> 2, sleep |-> 1,
   backup |-> 4, nopw |-> 3, pubkey |-> 2, reload |-> 1, dstatus |-> 2, undo |-> 1, idle |-> 0]

(* Why an operation ends: no command is run again, deferred or not, but
   that of the loop over the products, which has one fewer to visit; and what
   comes before a command is the attempts to dial, up to the last or the first
   that succeeds. *)
NearerTheEnd ==
  [][ManagerStep =>
       \/ CommandsLeft[pc'] < CommandsLeft[pc]
       \/ pc' = pc /\ todo' \subseteq todo /\ todo' # todo
       \/ /\ pc' = pc /\ todo' = todo /\ valid = "no"
          /\ valid' = "yes" \/ attempt' > attempt]_vars

(* Every operation ends, on a machine that never answers again too. *)
OperationEnds == pc # "idle" ~> pc = "idle"

---------------------------------------------------------------------------
(***************************************************************************)
(* The manager is what Driver takes it for.                                *)
(***************************************************************************)

Facts ==
  {f \in {"keyed", "registered", "provider", "metadata", "seeded", "pwoff"} :
     CASE f = "keyed"      -> box.key = "known"
       [] f = "registered" -> box.registered # {}
       [] f = "provider"   -> box.provider = "yes"
       [] f = "metadata"   -> box.metadata = "whole"
       [] f = "seeded"     -> box.seed = "whole"
       [] f = "pwoff"      -> box.conf # {}}

Abstract == INSTANCE SshSteps WITH
  step <- IF pc = "idle" THEN "idle" ELSE op,
  res <- IF pc = "idle" THEN ret ELSE "none",
  facts <- Facts

(* Every command is a part of the operation's step as Driver has it, or no
   step: its effect on the machine is among the operation's, cloud-init is
   restarted only on whole meta-data, and nil comes only with all the effects
   it vouches for, which the restart of cloud-init is not among. *)
ImplementsSteps == Abstract!Spec

---------------------------------------------------------------------------
(***************************************************************************)
(* What these promises rest on: together an inductive invariant.           *)
(***************************************************************************)

Steps == [exchange |-> {"keygen", "addkey"},
          register |-> {"base", "status", "module"}, unlicensed |-> {"noregcode"},
          script |-> {"path", "mkdir", "write", "run", "rm", "rmdir"},
          cloud |-> {"userdata", "metadata", "reboot", "sleep"},
          pwoff |-> {"backup", "nopw", "pubkey", "reload"},
          deregister |-> {"dstatus", "undo"}]

\* Each command belongs to its operation, and the result is open until the
\* deferred function of ExecuteScript runs.
Control ==
  /\ pc # "idle" => op \in DOMAIN Steps /\ pc \in Steps[op]
  /\ op \in {"none", "exit"} => pc = "idle"
  /\ pc = "idle" => (ret = "none" <=> op \in {"none", "exit"})
  /\ pc \notin {"idle", "rm", "rmdir"} => ret = "none"
  /\ pc \in {"rm", "rmdir"} => ret \in {"ok", "err"}
  /\ pc = "rm" => after = "remove"

\* Operations of Create are called on the machine the ones before have left.
KeyFirst ==
  /\ op \in {"register", "unlicensed", "script", "cloud", "pwoff"} => box.key = "known"
  /\ op = "none" \/ pc = "keygen" => box.key = "none"
  /\ op \in {"none", "exchange"} => box.sshd = {} /\ box.conf = {}
  /\ box.sshd # {} \/ box.conf # {} => box.key = "known"

\* What the commands so far have done.
Progress ==
  /\ pc = "status" => Base \in box.registered
  /\ pc = "module" => Product \ todo \subseteq box.registered
  /\ pc = "run" => box.script = "whole"
  /\ pc \in {"rm", "rmdir"} /\ ret = "ok" => box.provider = "yes"
  /\ pc \in {"pubkey", "reload"} => "nopw" \in box.conf
  /\ pc = "reload" => "pubkey" \in box.conf

\* The meta-data is written once, and cloud-init restarted only when it is whole.
Seeding ==
  /\ \/ op \in {"none", "exchange", "register", "unlicensed", "script"}
     \/ pc \in {"userdata", "metadata"}
     => box.metadata = "absent" /\ box.seed = "absent"
  /\ pc \in {"reboot", "sleep"} => box.metadata = "whole"
  /\ box.seed # "absent" => box.seed = "whole" /\ box.metadata = "whole"

\* What has failed so far.
Failures ==
  /\ pc \notin {"idle", "rm", "rmdir"} \/ ret = "ok" => failed \subseteq LoggedOnly
  /\ pc = "rmdir" /\ after = "remove" =>
       box.script = "absent" \/ "rm" \in failed

\* The dials so far, and who may still have to dial for the check.
Dialled ==
  /\ op \in {"register", "unlicensed", "script", "cloud", "pwoff"} => valid = "yes"
  /\ op = "exchange" /\ ret = "ok" => valid = "yes"
  /\ pc \notin {"addkey", "dstatus"} \/ valid = "yes" => attempt = 1
  /\ \/ op \in {"none", "exit", "register", "unlicensed", "pwoff"}
     \/ pc \in {"keygen", "path", "mkdir", "write", "userdata"}
     => dials = 0
  /\ pc = "metadata" => dials <= 1
  /\ pc \in {"addkey", "dstatus"} /\ valid = "no" => dials = attempt - 1
  /\ pc = "undo" => valid = "yes"

IInv ==
  /\ TypeOK /\ Control /\ KeyFirst /\ Progress /\ Seeding /\ Failures /\ Dialled
  /\ NilMeansDone /\ LoginIsPossible /\ LeftoversReported /\ DialBudget

===========================================================================
