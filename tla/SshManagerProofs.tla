-------------------------- MODULE SshManagerProofs --------------------------
(***************************************************************************)
(* What SshManager promises, for every set of products, and for every  *)
(* number of attempts, proved.                                             *)
(***************************************************************************)
EXTENDS SshManager, TLAPS

USE DEF Settings, Files

---------------------------------------------------------------------------
(***************************************************************************)
(* What any command does to the flow of control.                           *)
(***************************************************************************)

(* A command that returns nil goes on, at one of the operation's commands, or
   ends the operation with nil. *)
LEMMA OnNilFlow ==
  ASSUME TypeOK, OnNil
  PROVE  /\ pc' \in Pcs /\ ret' \in {"none", "ok", "err"} /\ failed' = failed /\ todo' = todo
BY DEF TypeOK, OnNil, Goto, Return, Cleanup, Then, Pcs, Commands

(* A command that fails goes on only where its error is only logged, or to the
   deferred function. *)
LEMMA OnErrorFlow ==
  ASSUME TypeOK, OnError
  PROVE  /\ pc' \in Pcs /\ ret' \in {"none", "ok", "err"}
         /\ failed' = failed \cup {pc} /\ todo' = todo
BY DEF TypeOK, OnError, Goto, Return, Cleanup, LoggedOnly, Then, Pcs, Commands

(* The loop of RegisterOS goes on or ends. *)
LEMMA VisitFlow ==
  ASSUME NEW left, Visit(left)
  PROVE  /\ failed' = failed /\ todo' = left
         /\ \/ left # {} /\ Goto("module")
            \/ left = {} /\ Return("ok")
BY DEF Visit

(* What a file being written may do, dials aside. *)
LEMMA WriteFileDoes ==
  ASSUME NEW c, NEW possible, NEW partial, NEW whole, WriteFile(c, possible, partial, whole)
  PROVE  /\ pc = c /\ UNCHANGED <<op, path, after, valid, attempt>>
         /\ \/ box' = whole /\ OnNil
            \/ box' \in {box, partial, whole} /\ OnError
BY Zenon DEF WriteFile, control

---------------------------------------------------------------------------
(***************************************************************************)
(* The ranges of the variables.                                            *)
(***************************************************************************)

LEMMA VisitType ==
  ASSUME TypeOK, NEW left \in SUBSET Product, Visit(left)
  PROVE  /\ pc' \in Pcs /\ ret' \in {"none", "ok", "err"} /\ failed' = failed
         /\ todo' \subseteq Product
BY DEF TypeOK, Visit, Goto, Return, Pcs, Commands

(* A command keeps the ranges. *)
LEMMA CommandType ==
  ASSUME TypeOK, NEW c, NEW done \in Box, Command(c, done)
  PROVE  TypeOK'
BY OnNilFlow, OnErrorFlow DEF Command, RunCommand, control, TypeOK, Pcs, Commands

LEMMA WriteFileType ==
  ASSUME TypeOK, NEW c, NEW possible, NEW partial \in Box, NEW whole \in Box,
         WriteFile(c, possible, partial, whole)
  PROVE  TypeOK'
<1>1. dials' \in Nat /\ attempt' = attempt /\ attempt' \in 1 .. MaxAttempts + 1
  BY DEF WriteFile, TypeOK
<1>2. box' \in Box
  BY Zenon DEF WriteFile, TypeOK
<1>3. /\ pc' \in Pcs /\ ret' \in {"none", "ok", "err"} /\ failed' \subseteq Pcs
      /\ todo' \subseteq Product
  <2>1. pc \in Pcs /\ (OnNil \/ OnError)
    BY Zenon DEF WriteFile, TypeOK
  <2> QED  BY <2>1, OnNilFlow, OnErrorFlow DEF TypeOK
<1> QED  BY <1>1, <1>2, <1>3 DEF WriteFile, control, TypeOK

(* Every step keeps the ranges. *)
LEMMA TypeOKStep ==
  ASSUME TypeOK, [Next]_vars
  PROVE  TypeOK'
<1>1. CASE Dial
  <2>1. dials' \in Nat /\ attempt' \in 1 .. MaxAttempts + 1
    BY <1>1, AttemptsAssumption DEF Dial, TypeOK
  <2>2. /\ pc' \in Pcs /\ ret' \in {"none", "ok", "err"} /\ failed' \subseteq Pcs
        /\ todo' \subseteq Product /\ valid' \in {"no", "yes"}
    BY <1>1, OnErrorFlow DEF Dial, TypeOK, Pcs, Commands
  <2> QED  BY <1>1, <2>1, <2>2 DEF Dial, control, TypeOK
<1>2. CASE ExchangeKeys
  <2>1. box \in Box => [box EXCEPT !.key = "made"] \in Box /\ [box EXCEPT !.key = "known"] \in Box
    BY DEF Box
  <2> QED
    BY <1>2, <2>1, CommandType, OnNilFlow, OnErrorFlow
    DEF ExchangeKeys, Local, control, TypeOK, Pcs, Commands
<1>3. CASE RegisterOS
  <2>1. ASSUME NEW P \in SUBSET Product,
               Command("base", [box EXCEPT !.registered = @ \cup {Base} \cup P])
        PROVE  TypeOK'
    BY <2>1, CommandType, ProductAssumption DEF TypeOK, Box
  <2>2. CASE RunCommand("status", box, Visit(Product \ box.registered))
    BY <2>2, VisitType, OnErrorFlow DEF RunCommand, control, TypeOK, Pcs, Commands
  <2>3. ASSUME NEW p \in todo,
               RunCommand("module", [box EXCEPT !.registered = @ \cup {p}], Visit(todo \ {p}))
        PROVE  TypeOK'
    <3>1. [box EXCEPT !.registered = @ \cup {p}] \in Box
      BY DEF TypeOK, Box
    <3> QED
      BY <2>3, <3>1, VisitType, OnErrorFlow DEF RunCommand, control, TypeOK, Pcs, Commands
  <2>4. CASE Local("noregcode", OnNil)
    BY <2>4, OnNilFlow DEF Local, control, TypeOK, Pcs, Commands
  <2> QED  BY <1>3, <2>1, <2>2, <2>3, <2>4 DEF RegisterOS
<1>4. CASE DeregisterOS
  <2>1. \A P \in SUBSET box.registered : [box EXCEPT !.registered = P] \in Box
    BY DEF TypeOK, Box
  <2>2. [box EXCEPT !.registered = {}] \in Box
    BY DEF TypeOK, Box
  <2>3. CASE Interrupted("undo", {[box EXCEPT !.registered = P] : P \in SUBSET box.registered})
    BY <2>1, <2>3, OnErrorFlow DEF Interrupted, control, TypeOK, Pcs, Commands
  <2>4. CASE Command("undo", [box EXCEPT !.registered = {}])
    BY <2>2, <2>4, CommandType
  <2> QED
    BY <1>4, <2>3, <2>4, OnErrorFlow
    DEF DeregisterOS, RunCommand, Goto, Return, control, TypeOK, Pcs, Commands
<1>5. CASE ExecuteScript
  <2>1. /\ [box EXCEPT !.dirs = @ \cup {Dir}] \in Box
        /\ [box EXCEPT !.script = "partial"] \in Box /\ [box EXCEPT !.script = "whole"] \in Box
        /\ [box EXCEPT !.provider = IF box.script = "whole" THEN "yes" ELSE @] \in Box
        /\ [box EXCEPT !.script = "absent"] \in Box
        /\ [box EXCEPT !.dirs = Emptied] \in Box
    BY DEF TypeOK, Box, Dir, Emptied
  <2>2. CASE Local("path", OnNil) \/ Local("path", OnError)
    BY <2>2, OnNilFlow, OnErrorFlow DEF Local, control, TypeOK, Pcs, Commands
  <2> QED  BY <1>5, <2>1, <2>2, CommandType, WriteFileType DEF ExecuteScript
<1>6. CASE ApplyCloudInit
  <2>1. /\ [box EXCEPT !.metadata = "partial"] \in Box /\ [box EXCEPT !.metadata = "whole"] \in Box
        /\ [box EXCEPT !.up = "rebooting", !.seed = box.metadata] \in Box
        /\ box \in Box
    BY DEF TypeOK, Box
  <2>2. CASE Local("userdata", OnError) \/ Local("sleep", OnNil)
    BY <2>2, OnNilFlow, OnErrorFlow DEF Local, control, TypeOK, Pcs, Commands
  <2> QED  BY <1>6, <2>1, <2>2, CommandType, WriteFileType DEF ApplyCloudInit
<1>7. CASE DisablePasswordSSHLogin
  <2>1. /\ [box EXCEPT !.conf = @ \cup {"nopw"}] \in Box /\ [box EXCEPT !.conf = @ \cup {"pubkey"}] \in Box
        /\ [box EXCEPT !.sshd = box.conf] \in Box /\ box \in Box
    BY DEF TypeOK, Box
  <2> QED  BY <1>7, <2>1, CommandType DEF DisablePasswordSSHLogin
<1>8. CASE MachineStep
  BY <1>8 DEF MachineStep, Halt, Boot, control, TypeOK, Box
<1>9. CASE ProcessExit
  BY <1>9, AttemptsAssumption DEF ProcessExit, TypeOK, Pcs, Entry
<1>10. ASSUME NEW o \in DOMAIN Entry, Call(o)
       PROVE  TypeOK'
  <2>1. pc' \in Pcs
    BY <1>10 DEF Call, Entry, Pcs, Commands
  <2> QED  BY <1>10, <2>1 DEF Call, TypeOK
<1>11. CASE UNCHANGED vars
  BY <1>11 DEF vars, control, TypeOK
<1> QED
  BY <1>1, <1>2, <1>3, <1>4, <1>5, <1>6, <1>7, <1>8, <1>9, <1>10, <1>11 DEF Next, ManagerStep

---------------------------------------------------------------------------
(***************************************************************************)
(* The flow of control.                                                    *)
(***************************************************************************)

\* What a step of the manager does to the flow of control: another dial, or a
\* command that returns nil, or one that fails.
Redial == pc \in Commands /\ valid = "no" /\ UNCHANGED <<pc, ret, failed, todo>>

Proceed ==
  \/ pc \notin {"status", "module", "dstatus"} /\ OnNil
  \/ pc \in {"status", "module"} /\ (Goto("module") \/ Return("ok")) /\ UNCHANGED failed
  \/ pc = "dstatus" /\ (Goto("undo") \/ Return("ok")) /\ UNCHANGED failed

Flow ==
  /\ pc # "idle" /\ UNCHANGED <<op, path, after>>
  /\ Redial \/ OnError \/ Proceed

(* A command fails or returns nil. *)
LEMMA CommandFlow ==
  ASSUME NEW c, c \notin {"idle", "status", "module", "dstatus"}, NEW done, Command(c, done)
  PROVE  Flow
BY Zenon DEF Command, RunCommand, control, Flow, Proceed

LEMMA WriteFileFlow ==
  ASSUME NEW c, c \notin {"idle", "status", "module", "dstatus"}, NEW possible, NEW partial, NEW whole,
         WriteFile(c, possible, partial, whole)
  PROVE  Flow
BY WriteFileDoes, Zenon DEF Flow, Proceed

(* Every step of the manager is of that form. *)
LEMMA ManagerFlow == ManagerStep => Flow
<1>1. ASSUME Dial  PROVE Flow
  <2>1. /\ pc \in Commands /\ valid = "no" /\ UNCHANGED <<op, path, after>>
        /\ OnError \/ UNCHANGED <<pc, ret, failed, todo>>
    BY <1>1, Zenon DEF Dial, control
  <2> QED  BY <2>1 DEF Flow, Redial, Commands
<1>2. ASSUME ExchangeKeys  PROVE Flow
  <2>1. CASE Command("addkey", [box EXCEPT !.key = "known"])
    BY <2>1, CommandFlow
  <2>2. CASE pc = "keygen" /\ (OnError \/ OnNil) /\ UNCHANGED <<op, path, after>>
    BY <2>2 DEF Flow, Proceed
  <2> QED  BY <1>2, <2>1, <2>2, Zenon DEF ExchangeKeys, Local, control
<1>3. ASSUME RegisterOS  PROVE Flow
  <2>1. CASE Local("noregcode", OnNil)
    BY <2>1 DEF Local, control, Flow, Proceed
  <2>2. ASSUME NEW P \in SUBSET Product,
               Command("base", [box EXCEPT !.registered = @ \cup {Base} \cup P])
        PROVE  Flow
    BY <2>2, CommandFlow
  <2>3. ASSUME RunCommand("status", box, Visit(Product \ box.registered))
        PROVE  Flow
    <3>1. pc = "status" /\ UNCHANGED <<op, path, after>>
      BY <2>3, Zenon DEF RunCommand, control
    <3>2. OnError \/ Visit(Product \ box.registered)
      BY <2>3, Zenon DEF RunCommand
    <3> QED  BY <3>1, <3>2, VisitFlow DEF Flow, Proceed
  <2>4. ASSUME NEW p \in todo,
               RunCommand("module", [box EXCEPT !.registered = @ \cup {p}], Visit(todo \ {p}))
        PROVE  Flow
    <3>1. pc = "module" /\ UNCHANGED <<op, path, after>>
      BY <2>4, Zenon DEF RunCommand, control
    <3>2. OnError \/ Visit(todo \ {p})
      BY <2>4, Zenon DEF RunCommand
    <3> QED  BY <3>1, <3>2, VisitFlow DEF Flow, Proceed
  <2> QED  BY <1>3, <2>1, <2>2, <2>3, <2>4 DEF RegisterOS
<1>4. ASSUME DeregisterOS  PROVE Flow
  <2>1. CASE Command("undo", [box EXCEPT !.registered = {}])
    BY <2>1, CommandFlow
  <2>2. CASE Interrupted("undo", {[box EXCEPT !.registered = P] : P \in SUBSET box.registered})
    BY <2>2 DEF Interrupted, control, Flow, Proceed
  <2>3. CASE pc = "dstatus" /\ UNCHANGED <<op, path, after>>
              /\ \/ OnError
                 \/ (IF box.registered = {} THEN Return("ok") ELSE Goto("undo")) /\ UNCHANGED failed
    BY <2>3 DEF Flow, Proceed
  <2> QED  BY <1>4, <2>1, <2>2, <2>3 DEF DeregisterOS, RunCommand, control
<1>5. ASSUME ExecuteScript  PROVE Flow
  <2>1. CASE Local("path", OnNil) \/ Local("path", OnError)
    BY <2>1 DEF Local, control, Flow, Proceed
  <2> QED  BY <1>5, <2>1, CommandFlow, WriteFileFlow DEF ExecuteScript
<1>6. ASSUME ApplyCloudInit  PROVE Flow
  <2>1. CASE Local("userdata", OnError) \/ Local("sleep", OnNil)
    BY <2>1 DEF Local, control, Flow, Proceed
  <2> QED  BY <1>6, <2>1, CommandFlow, WriteFileFlow DEF ApplyCloudInit
<1>7. ASSUME DisablePasswordSSHLogin  PROVE Flow
  BY <1>7, CommandFlow DEF DisablePasswordSSHLogin
<1> QED  BY <1>1, <1>2, <1>3, <1>4, <1>5, <1>6, <1>7 DEF ManagerStep

(* Each command belongs to its operation, and stays in it. *)
LEMMA ControlStep ==
  ASSUME TypeOK, Control, [Next]_vars
  PROVE  Control'
<1> USE DEF Control, Steps, TypeOK
<1>1. CASE ManagerStep
  <2>1. Flow
    BY <1>1, ManagerFlow
  <2>2. CASE OnError
    BY <2>1, <2>2 DEF Flow, Redial, Proceed, OnError, LoggedOnly, Goto, Return, Cleanup, Then
  <2>3. CASE pc \notin {"status", "module", "dstatus"} /\ OnNil
    BY <2>1, <2>3 DEF Flow, Redial, Proceed, OnNil, Goto, Return, Cleanup, Then
  <2> QED
    BY <2>1, <2>2, <2>3 DEF Flow, Redial, Proceed, Goto, Return
<1>8. CASE MachineStep \/ UNCHANGED vars
  BY <1>8 DEF MachineStep, vars, control
<1>9. CASE ProcessExit
  BY <1>9 DEF ProcessExit
<1>10. ASSUME NEW o \in DOMAIN Entry, Call(o)
       PROVE  Control'
  BY <1>10 DEF Call, Entry
<1> QED
  BY <1>1, <1>8, <1>9, <1>10 DEF Next

---------------------------------------------------------------------------
(***************************************************************************)
(* What a step of the manager does to the machine.                         *)
(***************************************************************************)

\* Field by field, which commands change it and how.
Kept ==
  /\ box'.up = box.up \/ pc = "reboot"
  /\ \/ box'.key = box.key
     \/ pc = "keygen" /\ box'.key = "made"
     \/ pc = "addkey" /\ box'.key = "known"
  /\ \/ box'.conf = box.conf
     \/ pc = "nopw" /\ box'.conf = box.conf \cup {"nopw"}
     \/ pc = "pubkey" /\ box'.conf = box.conf \cup {"pubkey"}
  /\ \/ box'.sshd = box.sshd
     \/ pc = "reload" /\ box'.sshd = box.conf
  /\ box'.dirs = box.dirs \/ pc \in {"mkdir", "rmdir"}
  /\ \/ box'.script = box.script
     \/ pc = "write"
     \/ pc = "rm" /\ box'.script = "absent"
  /\ \/ box'.provider = box.provider
     \/ pc = "run" /\ box'.provider = "yes"
  /\ box'.metadata = box.metadata \/ pc = "metadata"
  /\ \/ box'.seed = box.seed
     \/ pc = "reboot" /\ box'.seed = box.metadata
  /\ \/ box'.registered = box.registered
     \/ pc \in {"base", "module"} /\ box.registered \subseteq box'.registered
     \/ pc = "undo" /\ box'.registered \subseteq box.registered

\* What a command has done when it returns nil.
Done ==
  /\ pc = "addkey" => box'.key = "known"
  /\ pc = "base" => Base \in box'.registered
  /\ pc = "status" => box' = box /\ Visit(Product \ box.registered)
  /\ pc = "module" => \E p \in todo : p \in box'.registered /\ Visit(todo \ {p})
  /\ pc = "dstatus" => box' = box /\ (box.registered = {} \/ Goto("undo"))
  /\ pc = "undo" => box'.registered = {}
  /\ pc = "write" => box'.script = "whole"
  /\ (pc = "run" /\ box.script = "whole") => box'.provider = "yes"
  /\ pc = "rm" => box'.script = "absent"
  /\ pc = "rmdir" => box'.dirs = Emptied
  /\ pc = "metadata" => box'.metadata = "whole"
  /\ pc = "nopw" => "nopw" \in box'.conf
  /\ pc = "pubkey" => "pubkey" \in box'.conf
  /\ pc = "reload" => box'.sshd = box.conf

(* A command that is interrupted changes what it would have changed. *)
LEMMA CommandBox ==
  ASSUME NEW c, NEW done, Command(c, done)
  PROVE  pc = c /\ box' \in {box, done} /\ (OnError \/ (box' = done /\ OnNil))
BY Zenon DEF Command, RunCommand

(* Every step of the manager is within those bounds, and fails, dials or has
   done what its command is for. *)
LEMMA ManagerEffects ==
  ASSUME TypeOK, ManagerStep
  PROVE  Kept /\ (OnError \/ (Redial /\ box' = box) \/ (Proceed /\ Done))
<1>a. box \in Box
  BY DEF TypeOK
<1>1. CASE Dial
  BY <1>1, Zenon DEF Dial, Kept, Redial
<1>2. CASE ExchangeKeys
  <2>1. CASE Command("addkey", [box EXCEPT !.key = "known"])
    BY <2>1, <1>a, CommandBox DEF Kept, Done, Proceed, Box
  <2>2. CASE Local("keygen", OnError)
    BY <2>2 DEF Local, Kept
  <2>3. CASE pc = "keygen" /\ OnNil /\ box' = [box EXCEPT !.key = "made"]
    BY <2>3, <1>a DEF Kept, Done, Proceed, Box
  <2> QED  BY <1>2, <2>1, <2>2, <2>3, Zenon DEF ExchangeKeys
<1>3. CASE RegisterOS
  <2>1. CASE Local("noregcode", OnNil)
    BY <2>1 DEF Local, Kept, Done, Proceed
  <2>2. ASSUME NEW P \in SUBSET Product,
               Command("base", [box EXCEPT !.registered = @ \cup {Base} \cup P])
        PROVE  Kept /\ (OnError \/ (Proceed /\ Done))
    BY <2>2, <1>a, CommandBox DEF Kept, Done, Proceed, Box
  <2>3. CASE RunCommand("status", box, Visit(Product \ box.registered))
    <3>1. pc = "status" /\ box' = box /\ (OnError \/ Visit(Product \ box.registered))
      BY <2>3, Zenon DEF RunCommand
    <3> QED  BY <3>1, VisitFlow DEF Kept, Done, Proceed
  <2>4. ASSUME NEW p \in todo,
               RunCommand("module", [box EXCEPT !.registered = @ \cup {p}], Visit(todo \ {p}))
        PROVE  Kept /\ (OnError \/ (Proceed /\ Done))
    <3>1. /\ pc = "module" /\ box' \in {box, [box EXCEPT !.registered = @ \cup {p}]}
          /\ OnError \/ (box' = [box EXCEPT !.registered = @ \cup {p}] /\ Visit(todo \ {p}))
      BY <2>4, Zenon DEF RunCommand
    <3>2. Kept
      BY <3>1, <1>a DEF Kept, Box
    <3>3. CASE box' = [box EXCEPT !.registered = @ \cup {p}] /\ Visit(todo \ {p})
      <4>1. p \in box'.registered
        BY <3>3, <1>a DEF Box
      <4>2. \E q \in todo : q \in box'.registered /\ Visit(todo \ {q})
        BY <3>3, <4>1
      <4>3. Done
        BY <3>1, <4>2, Zenon DEF Done
      <4>4. Proceed
        BY <3>1, <3>3, VisitFlow DEF Proceed
      <4> QED  BY <3>2, <4>3, <4>4
    <3> QED  BY <3>1, <3>2, <3>3
  <2> QED  BY <1>3, <2>1, <2>2, <2>3, <2>4 DEF RegisterOS
<1>4. CASE DeregisterOS
  <2>1. CASE Command("undo", [box EXCEPT !.registered = {}])
    BY <2>1, <1>a, CommandBox DEF Kept, Done, Proceed, Box
  <2>2. CASE Interrupted("undo", {[box EXCEPT !.registered = P] : P \in SUBSET box.registered})
    <3>1. PICK P \in SUBSET box.registered : box' = [box EXCEPT !.registered = P]
      BY <2>2 DEF Interrupted
    <3> QED  BY <2>2, <3>1, <1>a DEF Interrupted, Kept, Box
  <2>3. CASE RunCommand("dstatus", box,
               /\ IF box.registered = {} THEN Return("ok") ELSE Goto("undo")
               /\ UNCHANGED <<failed, todo>>)
    BY <2>3 DEF RunCommand, Kept, Done, Proceed, Goto, Return
  <2> QED  BY <1>4, <2>1, <2>2, <2>3, Zenon DEF DeregisterOS
<1>5. CASE ExecuteScript
  <2>1. CASE WriteFile("write", Dir \in box.dirs,
               [box EXCEPT !.script = "partial"], [box EXCEPT !.script = "whole"])
    BY <2>1, <1>a, WriteFileDoes DEF Kept, Done, Proceed, Box
  <2>2. CASE Command("mkdir", [box EXCEPT !.dirs = @ \cup {Dir}])
    BY <2>2, <1>a, CommandBox DEF Kept, Done, Proceed, Box
  <2>3. CASE Command("run", [box EXCEPT !.provider = IF box.script = "whole" THEN "yes" ELSE @])
    BY <2>3, <1>a, CommandBox DEF Kept, Done, Proceed, Box
  <2>4. CASE Command("rm", [box EXCEPT !.script = "absent"])
    BY <2>4, <1>a, CommandBox DEF Kept, Done, Proceed, Box
  <2>5. CASE Command("rmdir", [box EXCEPT !.dirs = Emptied])
    BY <2>5, <1>a, CommandBox DEF Kept, Done, Proceed, Box
  <2>6. CASE Local("path", OnNil) \/ Local("path", OnError)
    BY <2>6 DEF Local, Kept, Done, Proceed
  <2> QED  BY <1>5, <2>1, <2>2, <2>3, <2>4, <2>5, <2>6, Zenon DEF ExecuteScript
<1>6. CASE ApplyCloudInit
  <2>1. CASE WriteFile("userdata", TRUE, box, box)
    <3>1. pc = "userdata" /\ box' = box /\ (OnError \/ OnNil)
      BY <2>1, WriteFileDoes
    <3> QED  BY <3>1 DEF Kept, Done, Proceed
  <2>2. CASE WriteFile("metadata", TRUE,
               [box EXCEPT !.metadata = "partial"], [box EXCEPT !.metadata = "whole"])
    <3>1. /\ pc = "metadata"
          /\ box' \in {box, [box EXCEPT !.metadata = "partial"], [box EXCEPT !.metadata = "whole"]}
          /\ OnError \/ (box' = [box EXCEPT !.metadata = "whole"] /\ OnNil)
      BY <2>2, WriteFileDoes
    <3> QED  BY <3>1, <1>a DEF Kept, Done, Proceed, Box
  <2>3. CASE Command("reboot", [box EXCEPT !.up = "rebooting", !.seed = box.metadata])
    <3> DEFINE rebooted == [box EXCEPT !.up = "rebooting", !.seed = box.metadata]
    <3>1. pc = "reboot" /\ box' \in {box, rebooted} /\ (OnError \/ (box' = rebooted /\ OnNil))
      BY <2>3, CommandBox
    <3> QED  BY <3>1, <1>a DEF Kept, Done, Proceed, Box
  <2>4. CASE Command("reboot", box)
    BY <2>4, CommandBox DEF Kept, Done, Proceed
  <2>5. CASE Local("userdata", OnError) \/ Local("sleep", OnNil)
    BY <2>5 DEF Local, Kept, Done, Proceed
  <2> QED  BY <1>6, <2>1, <2>2, <2>3, <2>4, <2>5, Zenon DEF ApplyCloudInit
<1>7. CASE DisablePasswordSSHLogin
  <2>1. CASE Command("backup", box)
    BY <2>1, CommandBox DEF Kept, Done, Proceed
  <2>2. CASE Command("nopw", [box EXCEPT !.conf = @ \cup {"nopw"}])
    BY <2>2, <1>a, CommandBox DEF Kept, Done, Proceed, Box
  <2>3. CASE Command("pubkey", [box EXCEPT !.conf = @ \cup {"pubkey"}])
    BY <2>3, <1>a, CommandBox DEF Kept, Done, Proceed, Box
  <2>4. CASE Command("reload", [box EXCEPT !.sshd = box.conf])
    BY <2>4, <1>a, CommandBox DEF Kept, Done, Proceed, Box
  <2> QED  BY <1>7, <2>1, <2>2, <2>3, <2>4, Zenon DEF DisablePasswordSSHLogin
<1> QED
  BY <1>1, <1>2, <1>3, <1>4, <1>5, <1>6, <1>7, Zenon DEF ManagerStep

(* The machine by itself only goes down, or comes up with the sshd of its
   files. *)
LEMMA MachineEffects ==
  ASSUME TypeOK, MachineStep
  PROVE  /\ UNCHANGED <<op, pc, ret, path, after, valid, attempt, todo, dials, failed>>
         /\ box' = [box EXCEPT !.up = box'.up, !.sshd = box'.sshd]
         /\ box'.sshd \in {box.sshd, box.conf}
BY DEF MachineStep, Halt, Boot, control, TypeOK, Box

---------------------------------------------------------------------------
(***************************************************************************)
(* The parts of the invariant.                                             *)
(***************************************************************************)

(* Operations after ExchangeKeys find the key on the machine. *)
LEMMA KeyFirstStep ==
  ASSUME TypeOK, Control, KeyFirst, NilMeansDone, [Next]_vars
  PROVE  KeyFirst'
<1> USE DEF KeyFirst, Control, Steps, TypeOK
<1>1. CASE ManagerStep
  <2>1. Flow /\ Kept
    BY <1>1, ManagerFlow, ManagerEffects
  <2>2. pc' # "keygen"
    BY <2>1
    DEF Flow, Commands, Redial, Proceed, OnNil, OnError, LoggedOnly, Then, Goto, Return, Cleanup
  <2> QED  BY <2>1, <2>2 DEF Flow, Kept
<1>2. CASE MachineStep
  <2>1. /\ box'.key = box.key /\ box'.conf = box.conf /\ box'.sshd \in {box.sshd, box.conf}
        /\ op' = op /\ pc' = pc
    BY <1>2, MachineEffects DEF Box
  <2> QED  BY <2>1
<1>3. CASE ProcessExit
  BY <1>3 DEF ProcessExit
<1>4. ASSUME NEW o \in DOMAIN Entry, Call(o)
      PROVE  KeyFirst'
  <2>1. o \in {"register", "unlicensed"} => box.key = "known"
    <3>1. ASSUME o \in {"register", "unlicensed"}  PROVE op = "exchange" /\ pc = "idle" /\ ret = "ok"
      BY <1>4, <3>1 DEF Call, MayCall, InOrder
    <3> QED  BY <3>1 DEF NilMeansDone, Achieved
  <2> QED  BY <1>4, <2>1 DEF Call, MayCall, InOrder, Entry
<1>5. CASE UNCHANGED vars
  BY <1>5 DEF vars, control
<1> QED  BY <1>1, <1>2, <1>3, <1>4, <1>5 DEF Next

(* The commands that returned nil have left their mark. *)
LEMMA ProgressStep ==
  ASSUME TypeOK, Control, Progress, [Next]_vars
  PROVE  Progress'
<1> USE DEF Progress, Control, Steps, TypeOK
<1>1. CASE ManagerStep
  <2>1. Flow /\ Kept /\ (OnError \/ (Redial /\ box' = box) \/ (Proceed /\ Done))
    BY <1>1, ManagerFlow, ManagerEffects
  <2>2. CASE OnError
    BY <2>1, <2>2 DEF Kept, OnError, LoggedOnly, Then, Goto, Return, Cleanup
  <2>3. CASE UNCHANGED <<pc, ret, failed, todo>> /\ box' = box
    BY <2>3
  <2>4. CASE pc = "status" /\ Done
    BY <2>4, VisitFlow DEF Done, Goto, Return
  <2>5. CASE pc = "module" /\ Done
    <3>1. PICK p \in todo : p \in box'.registered /\ Visit(todo \ {p})
      BY <2>5 DEF Done
    <3>2. pc' \in {"module", "idle"} /\ todo' = todo \ {p}
      BY <3>1, VisitFlow DEF Goto, Return
    <3>3. Product \ todo' \subseteq box'.registered
      BY <2>1, <2>5, <3>1, <3>2 DEF Kept
    <3> QED  BY <3>2, <3>3
  <2>6. CASE pc = "dstatus" /\ (Goto("undo") \/ Return("ok"))
    BY <2>6 DEF Goto, Return
  <2>7. CASE pc \notin {"status", "module", "dstatus"} /\ Done /\ OnNil
    BY <2>1, <2>7 DEF Kept, Done, OnNil, Then, Goto, Return, Cleanup
  <2> QED  BY <2>1, <2>2, <2>3, <2>4, <2>5, <2>6, <2>7 DEF Redial, Proceed
<1>2. CASE MachineStep
  <2>1. UNCHANGED <<pc, ret, todo>>
    BY <1>2, MachineEffects
  <2>2. /\ box'.registered = box.registered /\ box'.script = box.script
        /\ box'.provider = box.provider /\ box'.metadata = box.metadata
        /\ box'.conf = box.conf
    BY <1>2, MachineEffects DEF Box
  <2> QED  BY <2>1, <2>2
<1>3. CASE ProcessExit
  BY <1>3 DEF ProcessExit
<1>4. ASSUME NEW o \in DOMAIN Entry, Call(o)
      PROVE  Progress'
  BY <1>4 DEF Call, Entry
<1>5. CASE UNCHANGED vars
  BY <1>5 DEF vars, control
<1> QED  BY <1>1, <1>2, <1>3, <1>4, <1>5 DEF Next

(* Only ApplyCloudInit touches the meta-data, once, and reboots when it is whole. *)
LEMMA SeedingStep ==
  ASSUME TypeOK, Control, Seeding, [Next]_vars
  PROVE  Seeding'
<1> USE DEF Seeding, Control, Steps, TypeOK
<1>1. CASE ManagerStep
  <2>1. Flow /\ Kept /\ (OnError \/ (Redial /\ box' = box) \/ (Proceed /\ Done))
    BY <1>1, ManagerFlow, ManagerEffects
  <2>2. CASE OnError
    <3>1. pc' \notin {"userdata", "metadata", "reboot", "sleep"}
      BY <2>2 DEF OnError, LoggedOnly, Then, Goto, Return, Cleanup
    <3> QED  BY <2>1, <3>1 DEF Flow, Kept
  <2>3. CASE Redial /\ box' = box
    BY <2>1, <2>3 DEF Flow, Redial
  <2>4. CASE Proceed /\ Done
    <3>1. /\ pc' # "userdata"
          /\ pc' = "metadata" => pc = "userdata"
          /\ pc' = "reboot" => pc = "metadata"
          /\ pc' = "sleep" => pc = "reboot"
      BY <2>1, <2>4 DEF Flow, Proceed, OnNil, Then, Goto, Return, Cleanup
    <3> QED  BY <2>1, <2>4, <3>1 DEF Flow, Kept, Done
  <2> QED  BY <2>1, <2>2, <2>3, <2>4
<1>2. CASE MachineStep
  <2>1. UNCHANGED <<op, pc>> /\ box'.metadata = box.metadata /\ box'.seed = box.seed
    BY <1>2, MachineEffects DEF Box
  <2> QED  BY <2>1
<1>3. CASE ProcessExit
  BY <1>3 DEF ProcessExit
<1>4. ASSUME NEW o \in DOMAIN Entry, Call(o)
      PROVE  Seeding'
  BY <1>4 DEF Call, MayCall, InOrder, Entry
<1>5. CASE UNCHANGED vars
  BY <1>5 DEF vars, control
<1> QED  BY <1>1, <1>2, <1>3, <1>4, <1>5 DEF Next

(* A failure is on record, and only those that are logged go no further. *)
LEMMA FailuresStep ==
  ASSUME TypeOK, Control, Failures, [Next]_vars
  PROVE  Failures'
<1> USE DEF Failures, Control, Steps, TypeOK
<1>1. CASE ManagerStep
  <2>1. Flow /\ Kept /\ (OnError \/ (Redial /\ box' = box) \/ (Proceed /\ Done))
    BY <1>1, ManagerFlow, ManagerEffects
  <2>2. CASE OnError
    BY <2>1, <2>2 DEF Flow, Kept, OnError, LoggedOnly, Then, Goto, Return, Cleanup
  <2>3. CASE UNCHANGED <<pc, ret, failed, todo>> /\ box' = box
    BY <2>1, <2>3 DEF Flow
  <2>4. CASE pc \in {"status", "module", "dstatus"} /\ UNCHANGED failed
              /\ (Goto("module") \/ Goto("undo") \/ Return("ok"))
    BY <2>1, <2>4 DEF Flow, Goto, Return
  <2>7. CASE pc \notin {"status", "module", "dstatus"} /\ Done /\ OnNil
    BY <2>1, <2>7 DEF Flow, Kept, Done, OnNil, Then, Goto, Return, Cleanup
  <2> QED  BY <2>1, <2>2, <2>3, <2>4, <2>7 DEF Redial, Proceed
<1>2. CASE MachineStep
  BY <1>2, MachineEffects DEF Box
<1>3. CASE ProcessExit
  BY <1>3 DEF ProcessExit
<1>4. ASSUME NEW o \in DOMAIN Entry, Call(o)
      PROVE  Failures'
  BY <1>4 DEF Call, Entry
<1>5. CASE UNCHANGED vars
  BY <1>5 DEF vars, control
<1> QED  BY <1>1, <1>2, <1>3, <1>4, <1>5 DEF Next

(* nil comes with everything it vouches for. *)
LEMMA NilMeansDoneStep ==
  ASSUME TypeOK, Control, Progress, Seeding, Failures, NilMeansDone, [Next]_vars
  PROVE  NilMeansDone'
<1> USE DEF NilMeansDone, Control, Steps, TypeOK
<1>1. CASE ManagerStep
  <2>1. Flow /\ Kept /\ (OnError \/ (Redial /\ box' = box) \/ (Proceed /\ Done))
    BY <1>1, ManagerFlow, ManagerEffects
  <2> SUFFICES ASSUME pc' = "idle", ret' = "ok"
               PROVE  Achieved(op)' /\ failed' \subseteq LoggedOnly
    OBVIOUS
  <2>2. CASE OnError
    <3>1. pc = "rmdir" /\ ret = "ok" /\ failed' = failed \cup {pc}
      BY <2>2 DEF OnError, LoggedOnly, Then, Goto, Return, Cleanup
    <3> QED  BY <2>1, <3>1 DEF Flow, Kept, Progress, Failures, Achieved, LoggedOnly
  <2>3. CASE Redial
    BY <2>1, <2>3 DEF Flow, Redial
  <2>4. CASE pc = "status" /\ Proceed /\ Done
    <3>1. Product \ box.registered = {} /\ box' = box /\ failed' = failed
      BY <2>4, VisitFlow DEF Done, Proceed, Goto, Return
    <3>2. op' = "register" /\ failed' \subseteq LoggedOnly
      BY <2>1, <2>4, <3>1 DEF Flow, Failures
    <3>3. box'.registered = Product
      BY <3>1 DEF Box
    <3> QED  BY <3>2, <3>3 DEF Achieved
  <2>5. CASE pc = "module" /\ Proceed /\ Done
    <3>1. PICK p \in todo : p \in box'.registered /\ Visit(todo \ {p})
      BY <2>5 DEF Done
    <3>2. todo \ {p} = {} /\ failed' = failed
      BY <3>1, VisitFlow DEF Goto, Return
    <3>3. box.registered \subseteq box'.registered /\ box'.registered \subseteq Product
      BY <2>1, <2>5, TypeOKStep DEF Kept, Box
    <3>4. todo' = {} /\ Product \ todo \subseteq box.registered
      BY <2>5, <3>1, <3>2, VisitFlow DEF Progress
    <3>5. box'.registered = Product
      BY <3>1, <3>2, <3>3, <3>4
    <3>6. op' = "register" /\ failed' \subseteq LoggedOnly
      BY <2>1, <2>5, <3>2 DEF Flow, Failures
    <3> QED  BY <3>5, <3>6 DEF Achieved
  <2>6. CASE pc = "dstatus" /\ Proceed /\ Done
    <3>1. box.registered = {} /\ box' = box /\ failed' = failed
      BY <2>6 DEF Done, Proceed, Goto, Return
    <3> QED  BY <2>1, <2>6, <3>1 DEF Flow, Failures, Achieved
  <2>7. CASE pc \notin {"status", "module", "dstatus"} /\ OnNil /\ Done
    <3>1. /\ pc \in {"noregcode", "addkey", "undo", "rmdir", "sleep", "reload"}
          /\ failed' = failed /\ (pc = "rmdir" => ret = "ok")
      BY <2>1, <2>7 DEF Flow, OnNil, Then, Goto, Return, Cleanup
    <3>2. failed' \subseteq LoggedOnly
      BY <3>1 DEF Failures
    <3>3. CASE pc \in {"noregcode", "addkey", "undo"}
      <4>1. op' = op /\ op \in {"unlicensed", "exchange", "deregister"}
        BY <2>1, <3>3 DEF Flow
      <4> QED  BY <2>7, <3>2, <3>3, <4>1 DEF Done, Achieved
    <3>4. CASE pc \in {"rmdir", "sleep"}
      <4>1. /\ op' = op /\ box'.provider = box.provider /\ box'.metadata = box.metadata
            /\ pc = "rmdir" => op = "script"
            /\ pc = "sleep" => op = "cloud"
        BY <2>1, <3>4 DEF Flow, Kept
      <4> QED  BY <3>1, <3>2, <3>4, <4>1 DEF Progress, Seeding, Achieved
    <3>5. CASE pc = "reload"
      <4>1. box.conf = Settings
        BY <3>5 DEF Progress, Box
      <4>2. op' = "pwoff" /\ box'.conf = box.conf /\ box'.sshd = box.conf
        BY <2>1, <2>7, <3>5 DEF Flow, Kept, Done
      <4> QED  BY <3>2, <4>1, <4>2 DEF Achieved
    <3> QED  BY <3>1, <3>3, <3>4, <3>5
  <2> QED  BY <2>1, <2>2, <2>3, <2>4, <2>5, <2>6, <2>7 DEF Proceed
<1>2. CASE MachineStep
  BY <1>2, MachineEffects DEF Box, Achieved
<1>3. CASE ProcessExit
  BY <1>3 DEF ProcessExit
<1>4. ASSUME NEW o \in DOMAIN Entry, Call(o)
      PROVE  NilMeansDone'
  BY <1>4 DEF Call
<1>5. CASE UNCHANGED vars
  BY <1>5 DEF vars, control, Achieved
<1> QED  BY <1>1, <1>2, <1>3, <1>4, <1>5 DEF Next

(* What is left behind is named in the log. *)
LEMMA LeftoversReportedStep ==
  ASSUME TypeOK, Control, Failures, LeftoversReported, [Next]_vars
  PROVE  LeftoversReported'
<1> USE DEF LeftoversReported, Control, Steps, TypeOK
<1>1. CASE ManagerStep
  <2>1. Flow /\ Kept /\ (OnError \/ (Redial /\ box' = box) \/ (Proceed /\ Done))
    BY <1>1, ManagerFlow, ManagerEffects
  <2> SUFFICES ASSUME pc' = "idle", op = "script", after = "remove"
               PROVE  /\ box'.script # "absent" => failed' \cap {"path", "write", "rm"} # {}
                      /\ path = "random" /\ "tmp" \in box'.dirs
                           => failed' \cap {"path", "write", "rm", "rmdir"} # {}
    BY <2>1 DEF Flow
  <2>2. CASE OnError
    <3>1. pc \in {"path", "write", "rmdir"} /\ failed' = failed \cup {pc}
      BY <2>1, <2>2 DEF Flow, OnError, LoggedOnly, Then, Goto, Return, Cleanup
    <3> QED  BY <2>1, <3>1 DEF Kept, Failures
  <2>3. CASE Redial
    BY <2>1, <2>3 DEF Flow, Redial
  <2>4. CASE Proceed /\ Done
    <3>1. pc = "rmdir" /\ failed' = failed
      BY <2>1, <2>4 DEF Flow, Proceed, OnNil, Then, Goto, Return, Cleanup
    <3> QED  BY <2>1, <2>4, <3>1 DEF Kept, Done, Failures, Emptied
  <2> QED  BY <2>1, <2>2, <2>3, <2>4
<1>2. CASE MachineStep
  BY <1>2, MachineEffects DEF Box
<1>3. CASE ProcessExit
  BY <1>3 DEF ProcessExit
<1>4. ASSUME NEW o \in DOMAIN Entry, Call(o)
      PROVE  LeftoversReported'
  BY <1>4 DEF Call, Entry
<1>5. CASE UNCHANGED vars
  BY <1>5 DEF vars, control
<1> QED  BY <1>1, <1>2, <1>3, <1>4, <1>5 DEF Next

---------------------------------------------------------------------------
(***************************************************************************)
(* The dials.                                                              *)
(***************************************************************************)

Writing == {"write", "userdata", "metadata"}
Offline == {"keygen", "noregcode", "path", "sleep"}

\* A dial for the check of the host key: it finds the key, or fails and is
\* repeated, or is the last one.
CheckDial ==
  /\ pc \in Commands /\ valid = "no" /\ dials' = dials + 1
  /\ \/ valid' = "yes" /\ attempt' = 1 /\ UNCHANGED <<pc, ret>>
     \/ valid' = "no" /\ attempt <= MaxAttempts /\ attempt' = attempt + 1 /\ UNCHANGED <<pc, ret>>
     \/ valid' = "no" /\ attempt > MaxAttempts /\ attempt' = 1 /\ OnError

\* A command after the check, and a step that needs none.
Checked == pc \in Commands /\ valid = "yes" /\ UNCHANGED <<valid, attempt, dials>>
Unchecked ==
  /\ UNCHANGED <<valid, attempt>>
  /\ pc \in Writing \cup Offline
  /\ dials' = dials \/ (pc \in Writing /\ dials' = dials + 1)

(* A step of the manager dials at most once, and who dials for the check has
   not passed it. *)
LEMMA ManagerDials ==
  ASSUME TypeOK, ManagerStep
  PROVE  CheckDial \/ Checked \/ Unchecked
<1>1. CASE Dial
  BY <1>1 DEF Dial, CheckDial, TypeOK
<1>2. ASSUME NEW c \in Commands, NEW done, Command(c, done)
      PROVE  Checked
  BY <1>2, Zenon DEF Command, RunCommand, Checked
<1>3. ASSUME NEW c \in Commands, NEW done, NEW nil, RunCommand(c, done, nil)
      PROVE  Checked
  BY <1>3, Zenon DEF RunCommand, Checked
<1>4. ASSUME NEW c \in Writing, NEW possible, NEW partial, NEW whole,
             WriteFile(c, possible, partial, whole)
      PROVE  Unchecked
  <2>1. pc = c /\ UNCHANGED <<valid, attempt>> /\ dials' = dials + 1
    BY <1>4, Zenon DEF WriteFile
  <2> QED  BY <2>1 DEF Unchecked
<1>5. CASE ExchangeKeys
  <2>1. ASSUME pc = "keygen", UNCHANGED <<valid, attempt, dials>>
        PROVE  Unchecked
    BY <2>1 DEF Unchecked, Offline
  <2> QED  BY <1>2, <1>5, <2>1 DEF ExchangeKeys, Local, Commands
<1>6. CASE RegisterOS
  <2>1. ASSUME Local("noregcode", OnNil)
        PROVE  Unchecked
    BY <2>1 DEF Local, Unchecked, Offline
  <2>2. {"base", "status", "module"} \subseteq Commands
    BY DEF Commands
  <2> QED  BY <1>2, <1>3, <1>6, <2>1, <2>2, Zenon DEF RegisterOS
<1>7. CASE DeregisterOS
  <2>1. ASSUME NEW partly, Interrupted("undo", partly)
        PROVE  Checked
    BY <2>1 DEF Interrupted, Checked, Commands
  <2>2. {"dstatus", "undo"} \subseteq Commands
    BY DEF Commands
  <2> QED  BY <1>2, <1>3, <1>7, <2>1, <2>2, Zenon DEF DeregisterOS
<1>8. CASE ExecuteScript
  <2>1. {"mkdir", "run", "rm", "rmdir"} \subseteq Commands /\ "write" \in Writing
    BY DEF Commands, Writing
  <2>2. ASSUME Local("path", OnNil) \/ Local("path", OnError)
        PROVE  Unchecked
    BY <2>2 DEF Local, Unchecked, Offline
  <2> QED  BY <1>2, <1>4, <1>8, <2>1, <2>2, Zenon DEF ExecuteScript
<1>9. CASE ApplyCloudInit
  <2>1. ASSUME Local("userdata", OnError) \/ Local("sleep", OnNil)
        PROVE  Unchecked
    BY <2>1 DEF Local, Unchecked, Offline, Writing
  <2>2. "reboot" \in Commands /\ "userdata" \in Writing /\ "metadata" \in Writing
    BY DEF Commands, Writing
  <2> QED  BY <1>2, <1>4, <1>9, <2>1, <2>2, Zenon DEF ApplyCloudInit
<1>10. CASE DisablePasswordSSHLogin
  <2>1. {"backup", "nopw", "pubkey", "reload"} \subseteq Commands
    BY DEF Commands
  <2> QED  BY <1>2, <1>10, <2>1, Zenon DEF DisablePasswordSSHLogin
<1> QED
  BY <1>1, <1>5, <1>6, <1>7, <1>8, <1>9, <1>10 DEF ManagerStep

(* The check is passed once in a process, and the operations after the first
   dial for their files only. *)
LEMMA DialledStep ==
  ASSUME TypeOK, Control, Dialled, DialBudget, [Next]_vars
  PROVE  Dialled' /\ DialBudget'
<1> USE DEF Control, Steps, Dialled, DialBudget, Budget
<1>0. dials \in Nat /\ attempt \in 1 .. MaxAttempts + 1 /\ MaxAttempts \in Nat
  BY AttemptsAssumption DEF TypeOK
<1>1. CASE ManagerStep
  <2>1. Flow /\ (CheckDial \/ Checked \/ Unchecked)
    BY <1>1, ManagerFlow, ManagerDials
  <2>2. CASE CheckDial
    <3>1. pc \in {"addkey", "dstatus"} /\ op \in {"exchange", "deregister"} /\ ret = "none"
      BY <2>1, <2>2 DEF Flow, CheckDial, Commands
    <3>2. OnError => pc' = "idle" /\ ret' = "err"
      BY <3>1 DEF OnError, LoggedOnly, Then, Goto, Return, Cleanup
    <3>3. dials = attempt - 1 /\ dials' = dials + 1
      BY <2>2, <3>1 DEF CheckDial
    <3> QED  BY <1>0, <2>1, <2>2, <3>1, <3>2, <3>3 DEF Flow, CheckDial
  <2>3. CASE Checked
    <3>1. valid = "yes" /\ valid' = "yes" /\ attempt' = 1 /\ dials' = dials
      BY <2>3 DEF Checked
    <3>2. pc' \notin {"keygen", "path", "userdata", "write"} \/ (pc = "mkdir" /\ pc' = "write")
      BY <2>1, <2>3
      DEF Flow, Checked, Commands, Redial, Proceed, OnNil, OnError, LoggedOnly, Then, Goto,
          Return, Cleanup
    <3>3. pc' \notin {"mkdir", "metadata"}
      BY <2>1, <2>3
      DEF Flow, Checked, Commands, Redial, Proceed, OnNil, OnError, LoggedOnly, Then, Goto,
          Return, Cleanup
    <3> QED  BY <1>0, <2>1, <3>1, <3>2, <3>3 DEF Flow
  <2>4. CASE Unchecked
    <3>1. /\ pc \in {"write", "userdata", "metadata", "keygen", "noregcode", "path", "sleep"}
          /\ valid' = valid /\ attempt' = 1 /\ attempt = 1
          /\ dials' = dials \/ (pc \in {"write", "userdata", "metadata"} /\ dials' = dials + 1)
      BY <2>4 DEF Unchecked, Writing, Offline
    <3>2. /\ pc = "keygen" => pc' \in {"addkey", "idle"} /\ ret' # "ok"
          /\ pc = "path" => pc' \in {"mkdir", "idle"}
          /\ pc = "userdata" => pc' \in {"metadata", "idle"}
          /\ pc = "write" => pc' \in {"run", "idle"}
          /\ pc = "metadata" => pc' \in {"reboot", "idle"}
          /\ pc \in {"sleep", "noregcode"} => pc' = "idle"
      BY <2>1, <3>1
      DEF Flow, Commands, Redial, Proceed, OnNil, OnError, LoggedOnly, Then, Goto, Return, Cleanup
    <3>3. op' = op
      BY <2>1 DEF Flow
    <3>4. CASE pc = "keygen"
      <4>1. op' = "exchange" /\ dials' = 0 /\ attempt' = 1 /\ valid' \in {"no", "yes"}
        BY <3>1, <3>3, <3>4 DEF TypeOK
      <4>2. pc' \in {"addkey", "idle"} /\ ret' # "ok"
        BY <3>2, <3>4
      <4> QED  BY <1>0, <4>1, <4>2
    <3>5. CASE pc \in {"sleep", "noregcode"}
      BY <1>0, <3>1, <3>2, <3>3, <3>5
    <3>6. CASE pc = "write"
      BY <1>0, <3>1, <3>2, <3>3, <3>6
    <3>7. CASE pc = "userdata"
      BY <1>0, <3>1, <3>2, <3>3, <3>7
    <3>8. CASE pc = "metadata"
      BY <1>0, <3>1, <3>2, <3>3, <3>8
    <3>9. CASE pc = "path"
      BY <1>0, <3>1, <3>2, <3>3, <3>9
    <3> QED  BY <3>1, <3>4, <3>5, <3>6, <3>7, <3>8, <3>9
  <2> QED  BY <2>1, <2>2, <2>3, <2>4
<1>2. CASE MachineStep
  BY <1>2, MachineEffects
<1>3. CASE ProcessExit
  BY <1>0, <1>3 DEF ProcessExit
<1>4. ASSUME NEW o \in DOMAIN Entry, Call(o)
      PROVE  Dialled' /\ DialBudget'
  <2>1. /\ pc' \in Entry[o] /\ op' = o /\ ret' = "none" /\ dials' = 0 /\ pc = "idle"
        /\ valid' = valid /\ attempt' = attempt /\ attempt = 1
    BY <1>4 DEF Call
  <2>2. o \in {"register", "unlicensed", "script", "cloud", "pwoff"} => valid = "yes"
    BY <1>4 DEF Call, MayCall, InOrder, TypeOK
  <2> QED  BY <1>0, <2>1, <2>2 DEF Entry
<1>5. CASE UNCHANGED vars
  BY <1>5 DEF vars, control
<1> QED  BY <1>1, <1>2, <1>3, <1>4, <1>5 DEF Next


---------------------------------------------------------------------------
(***************************************************************************)
(* The invariant.                                                          *)
(***************************************************************************)

LEMMA InitIInv == Init => IInv
<1> SUFFICES ASSUME Init PROVE IInv
  OBVIOUS
<1>1. TypeOK
  BY AttemptsAssumption DEF Init, TypeOK, Box, Pcs, Entry
<1>2. Control /\ KeyFirst /\ Progress /\ Seeding /\ Failures
  BY DEF Init, Control, KeyFirst, Progress, Seeding, Failures
<1>3. Dialled /\ DialBudget
  BY DEF Init, Dialled, DialBudget, Budget
<1>4. NilMeansDone /\ LoginIsPossible /\ LeftoversReported
  BY DEF Init, NilMeansDone, LoginIsPossible, CanLogin, LeftoversReported
<1> QED  BY <1>1, <1>2, <1>3, <1>4 DEF IInv

LEMMA IInvStep == IInv /\ [Next]_vars => IInv'
<1> SUFFICES ASSUME IInv, [Next]_vars PROVE IInv'
  OBVIOUS
<1>1. KeyFirst => LoginIsPossible
  BY DEF KeyFirst, LoginIsPossible, CanLogin
<1>2. KeyFirst' => LoginIsPossible'
  BY DEF KeyFirst, LoginIsPossible, CanLogin
<1> QED
  BY <1>1, <1>2, TypeOKStep, ControlStep, KeyFirstStep, ProgressStep, SeedingStep, FailuresStep, DialledStep,
     NilMeansDoneStep, LeftoversReportedStep
  DEF IInv

(* In every reachable state of the manager, its machine and its process the
   parts of the invariant hold together. *)
THEOREM Invariance == Spec => []IInv
BY InitIInv, IInvStep, PTL DEF Spec

(* Every variable stays in its range, currentAttempt of hostPublicKeyIsValid
   among them. *)
THEOREM TypeCorrect == Spec => []TypeOK
BY Invariance, PTL DEF IInv

(* An operation of the manager that returns nil has done all that its nil
   vouches for; of the reboot of ApplyCloudInit it says nothing. *)
THEOREM NilIsTrue == Spec => []NilMeansDone
BY Invariance, PTL DEF IInv

(* No failure of a command and no restart of the machine shuts the driver out. *)
THEOREM NeverShutOut == Spec => []LoginIsPossible
BY Invariance, PTL DEF IInv

(* ExecuteScript names in the log what it leaves on the machine. *)
THEOREM NothingLeftSilently == Spec => []LeftoversReported
BY Invariance, PTL DEF IInv

(* No operation dials more often than its check and its files account for. *)
THEOREM DialsBounded == Spec => []DialBudget
BY Invariance, PTL DEF IInv

---------------------------------------------------------------------------
(***************************************************************************)
(* Every step of an operation brings it nearer to its end.                 *)
(***************************************************************************)

Fewer == CommandsLeft[pc'] < CommandsLeft[pc]

(* The command after one that returned nil, *)
LEMMA NilLeavesFewer ==
  ASSUME pc \in Pcs \ {"idle"}, OnNil
  PROVE  Fewer
BY DEF OnNil, Goto, Return, Cleanup, Then, Fewer, CommandsLeft, Pcs, Commands

(* and the one after a failure, are later ones. *)
LEMMA ErrorLeavesFewer ==
  ASSUME pc \in Pcs \ {"idle"}, OnError
  PROVE  Fewer
BY DEF OnError, LoggedOnly, Goto, Return, Cleanup, Then, Fewer, CommandsLeft, Pcs, Commands

LEMMA EndsLeaveFewer ==
  ASSUME pc \in Pcs \ {"idle"}, OnNil \/ OnError
  PROVE  Fewer
BY NilLeavesFewer, ErrorLeavesFewer

LEMMA CommandLeavesFewer ==
  ASSUME NEW c \in Commands, NEW done, Command(c, done)
  PROVE  Fewer
<1>1. pc = c /\ (OnNil \/ OnError)
  BY Zenon DEF Command, RunCommand
<1>2. c \in Pcs \ {"idle"}
  BY DEF Pcs, Commands
<1> QED  BY <1>1, <1>2, EndsLeaveFewer

LEMMA WriteLeavesFewer ==
  ASSUME NEW c \in {"write", "userdata", "metadata"}, NEW possible, NEW partial, NEW whole,
         WriteFile(c, possible, partial, whole)
  PROVE  Fewer
<1>1. pc = c /\ (OnNil \/ OnError)
  BY WriteFileDoes, Zenon
<1>2. c \in Pcs \ {"idle"}
  BY DEF Pcs
<1> QED  BY <1>1, <1>2, EndsLeaveFewer

LEMMA LocalLeavesFewer ==
  ASSUME NEW c \in {"keygen", "noregcode", "path", "userdata", "sleep"},
         pc = c, OnNil \/ OnError
  PROVE  Fewer
BY EndsLeaveFewer DEF Pcs

\* One step of the manager.
Nearer ==
  \/ Fewer
  \/ pc' = pc /\ todo' \subseteq todo /\ todo' # todo
  \/ /\ pc' = pc /\ todo' = todo /\ valid = "no"
     /\ valid' = "yes" \/ attempt' > attempt

LEMMA ManagerGetsOn ==
  ASSUME TypeOK, ManagerStep
  PROVE  Nearer
<1>1. CASE Dial
  <2>1. CASE OnError
    BY <1>1, <2>1, ErrorLeavesFewer DEF Dial, Nearer, Pcs, Commands
  <2>2. CASE /\ UNCHANGED <<pc, ret, failed, todo>>
             /\ valid' = "yes" \/ attempt' = attempt + 1
    <3>1. valid = "no" /\ attempt \in Nat
      BY <1>1, AttemptsAssumption DEF Dial, TypeOK
    <3> QED  BY <2>2, <3>1 DEF Nearer
  <2> QED  BY <1>1, <2>1, <2>2 DEF Dial
<1>2. CASE ExchangeKeys
  <2>1. CASE Command("addkey", [box EXCEPT !.key = "known"])
    BY <2>1, CommandLeavesFewer DEF Nearer, Commands
  <2>2. CASE pc = "keygen" /\ (OnError \/ OnNil)
    BY <2>2, LocalLeavesFewer DEF Nearer
  <2> QED  BY <1>2, <2>1, <2>2, Zenon DEF ExchangeKeys, Local
<1>3. CASE RegisterOS
  <2>1. CASE Local("noregcode", OnNil)
    BY <2>1, LocalLeavesFewer DEF Local, Nearer
  <2>2. ASSUME NEW P \in SUBSET Product,
               Command("base", [box EXCEPT !.registered = @ \cup {Base} \cup P])
        PROVE  Nearer
    BY <2>2, CommandLeavesFewer DEF Nearer, Commands
  <2>3. ASSUME RunCommand("status", box, Visit(Product \ box.registered))
        PROVE  Nearer
    <3>1. pc = "status" /\ (OnError \/ Visit(Product \ box.registered))
      BY <2>3, Zenon DEF RunCommand
    <3>2. CASE OnError
      BY <3>1, <3>2, ErrorLeavesFewer DEF Nearer, Pcs, Commands
    <3>3. CASE Visit(Product \ box.registered)
      BY <3>1, <3>3 DEF Visit, Goto, Return, Nearer, Fewer, CommandsLeft
    <3> QED  BY <3>1, <3>2, <3>3
  <2>4. ASSUME NEW p \in todo,
               RunCommand("module", [box EXCEPT !.registered = @ \cup {p}], Visit(todo \ {p}))
        PROVE  Nearer
    <3>1. pc = "module" /\ (OnError \/ Visit(todo \ {p}))
      BY <2>4, Zenon DEF RunCommand
    <3>2. CASE OnError
      BY <3>1, <3>2, ErrorLeavesFewer DEF Nearer, Pcs, Commands
    <3>3. CASE Visit(todo \ {p})
      BY <3>1, <3>3 DEF Visit, Goto, Return, Nearer, Fewer, CommandsLeft
    <3> QED  BY <3>1, <3>2, <3>3
  <2> QED  BY <1>3, <2>1, <2>2, <2>3, <2>4 DEF RegisterOS
<1>4. CASE DeregisterOS
  <2>1. CASE Command("undo", [box EXCEPT !.registered = {}])
    BY <2>1, CommandLeavesFewer DEF Nearer, Commands
  <2>2. CASE Interrupted("undo", {[box EXCEPT !.registered = P] : P \in SUBSET box.registered})
    BY <2>2, ErrorLeavesFewer DEF Interrupted, Nearer, Pcs, Commands
  <2>3. CASE pc = "dstatus" /\ (OnError \/ Goto("undo") \/ Return("ok"))
    <3>1. CASE OnError
      BY <2>3, <3>1, ErrorLeavesFewer DEF Nearer, Pcs, Commands
    <3>2. CASE Goto("undo") \/ Return("ok")
      BY <2>3, <3>2 DEF Goto, Return, Nearer, Fewer, CommandsLeft
    <3> QED  BY <2>3, <3>1, <3>2
  <2> QED  BY <1>4, <2>1, <2>2, <2>3 DEF DeregisterOS, RunCommand
<1>5. CASE ExecuteScript
  <2>1. CASE Local("path", OnNil) \/ Local("path", OnError)
    BY <2>1, LocalLeavesFewer DEF Local, Nearer
  <2> QED
    BY <1>5, <2>1, CommandLeavesFewer, WriteLeavesFewer DEF ExecuteScript, Nearer, Commands
<1>6. CASE ApplyCloudInit
  <2>1. CASE Local("userdata", OnError) \/ Local("sleep", OnNil)
    BY <2>1, LocalLeavesFewer DEF Local, Nearer
  <2> QED
    BY <1>6, <2>1, CommandLeavesFewer, WriteLeavesFewer DEF ApplyCloudInit, Nearer, Commands
<1>7. CASE DisablePasswordSSHLogin
  BY <1>7, CommandLeavesFewer DEF DisablePasswordSSHLogin, Nearer, Commands
<1> QED  BY <1>1, <1>2, <1>3, <1>4, <1>5, <1>6, <1>7 DEF ManagerStep

(* No step of an operation leads back: what it repeats is the loop over the
   products, each time with one fewer, and the dialling, which is counted and
   succeeds once. *)
THEOREM OperationsGetOn == Spec => NearerTheEnd
<1>1. IInv /\ [Next]_vars => [ManagerStep => Nearer]_vars
  BY ManagerGetsOn DEF IInv
<1> QED  BY <1>1, Invariance, PTL DEF Spec, NearerTheEnd, Nearer, Fewer

---------------------------------------------------------------------------
(***************************************************************************)
(* The refinement.                                                         *)
(***************************************************************************)

USE DEF Abstract!Adds, Abstract!Undoes

(* What the driver wants to know of the machine, fact by fact. *)
FactByFact ==
  /\ Facts \subseteq {"keyed", "registered", "provider", "metadata", "seeded", "pwoff"}
  /\ "keyed" \in Facts <=> box.key = "known"
  /\ "registered" \in Facts <=> box.registered # {}
  /\ "provider" \in Facts <=> box.provider = "yes"
  /\ "metadata" \in Facts <=> box.metadata = "whole"
  /\ "seeded" \in Facts <=> box.seed = "whole"
  /\ "pwoff" \in Facts <=> box.conf # {}

LEMMA FactsAre == FactByFact /\ FactByFact'
BY DEF FactByFact, Facts

(* A command adds only what its operation is for, and undoes nothing but a
   registration, which only DeregisterOS does. *)
LEMMA FactsKept ==
  ASSUME IInv, Flow, Kept
  PROVE  /\ Facts \ Abstract!Undoes(op) \subseteq Facts'
         /\ Facts' \subseteq Facts \cup Abstract!Adds[op]
<1> USE DEF IInv, Control, Steps
<1>1. pc \in Pcs /\ op \in DOMAIN Steps /\ pc \in Steps[op]
  BY DEF TypeOK, Flow
<1>2. /\ box'.key = "known" => box.key = "known" \/ op = "exchange"
      /\ box.key = "known" => box'.key = "known"
  BY <1>1 DEF Kept, KeyFirst
<1>3. /\ box'.registered # {} => box.registered # {} \/ op = "register"
      /\ box.registered # {} => box'.registered # {} \/ op = "deregister"
  BY <1>1 DEF Kept
<1>4. /\ box'.provider = "yes" => box.provider = "yes" \/ op = "script"
      /\ box.provider = "yes" => box'.provider = "yes"
  BY <1>1 DEF Kept
<1>5. /\ box'.seed = "whole" => box.seed = "whole" \/ op = "cloud"
      /\ box.seed = "whole" => box'.seed = "whole"
      /\ box'.metadata = "whole" => box.metadata = "whole" \/ op = "cloud"
      /\ box.metadata = "whole" => box'.metadata = "whole"
  BY <1>1 DEF Kept, Seeding
<1>6. /\ box'.conf # {} => box.conf # {} \/ op = "pwoff"
      /\ box.conf # {} => box'.conf # {}
  BY <1>1 DEF Kept
<1>7. op \in DOMAIN Abstract!Adds
  BY <1>1
<1> QED
  BY <1>1, <1>2, <1>3, <1>4, <1>5, <1>6, <1>7, FactsAre DEF FactByFact

(* An operation that has achieved what its nil vouches for has made the facts
   that the driver takes it for. *)
LEMMA AchievedIsComplete ==
  ASSUME NEW o \in DOMAIN Steps, (Achieved(o))'
  PROVE  Abstract!Complete(o, Facts')
<1>1. o \in {"exchange", "register", "unlicensed", "script", "cloud", "pwoff", "deregister"}
  BY DEF Steps
<1>2. o = "register" => box'.registered # {}
  BY ProductAssumption DEF Achieved
<1> QED
  BY <1>1, <1>2, FactsAre DEF Achieved, FactByFact, Abstract!Complete

(* Every step of the manager is a step of the operation as Driver takes it, or
   none. *)
LEMMA RefinedStep ==
  ASSUME IInv, IInv', [Next]_vars
  PROVE  [Abstract!Begin \/ Abstract!Work \/ Abstract!Die]_(Abstract!stepVars)
<1>1. CASE ManagerStep
  <2>1. Flow /\ Kept
    BY <1>1, ManagerFlow, ManagerEffects DEF IInv
  <2>2. /\ pc # "idle" /\ op' = op /\ op \in DOMAIN Steps /\ op # "idle"
        /\ pc' = "idle" => ret' \in {"ok", "err"}
    BY <2>1 DEF Flow, IInv, Control, Steps, TypeOK
  <2>3. ASSUME pc' = "idle", ret' = "ok"
        PROVE  Abstract!Complete(op, Facts')
    <3>1. (Achieved(op))'
      BY <2>3 DEF IInv, NilMeansDone, Achieved
    <3>2. op \in DOMAIN Steps /\ op' = op
      BY <2>2
    <3> QED  BY <3>1, <3>2, AchievedIsComplete DEF Achieved
  <2>4. "seeded" \in Facts' => "metadata" \in Facts'
    BY FactsAre DEF FactByFact, IInv, Seeding
  <2> QED  BY <2>1, <2>2, <2>3, <2>4, FactsKept DEF Abstract!Work
<1>2. CASE MachineStep
  <2>1. Facts' = Facts
    <3>1. TypeOK
      BY DEF IInv
    <3> QED  BY <1>2, <3>1, MachineEffects DEF TypeOK, Facts, Box
  <2> QED  BY <1>2, <2>1, MachineEffects DEF IInv, Abstract!stepVars
<1>3. CASE ProcessExit
  BY <1>3 DEF ProcessExit, Facts, Abstract!Die
<1>4. ASSUME NEW o \in DOMAIN Entry, Call(o)
      PROVE  Abstract!Begin
  <2>1. Facts' = Facts
    BY <1>4 DEF Call, Facts
  <2>2. pc = "idle" /\ pc' # "idle" /\ op' = o /\ o \in DOMAIN Abstract!Adds
    BY <1>4 DEF Call, Entry
  <2> QED  BY <2>1, <2>2 DEF Abstract!Begin
<1>5. CASE UNCHANGED vars
  BY <1>5 DEF vars, control, Facts, Abstract!stepVars
<1> QED  BY <1>1, <1>2, <1>3, <1>4, <1>5 DEF Next

(* The manager, command by command, over a network that loses what it likes,
   implements the operations that module Driver takes as steps. *)
THEOREM Refinement == Spec => ImplementsSteps
<1>1. Init => Abstract!Init
  BY DEF Init, Abstract!Init, Facts
<1> QED
  BY <1>1, Invariance, RefinedStep, PTL DEF Spec, ImplementsSteps, Abstract!Spec


===========================================================================
