--------------------------- MODULE VmInterpreter ---------------------------
(* The interpreter of brvm.c: fetch, the checks before an operand is touched, *)
(* execution, services and capability registers, budgets and traps. The       *)
(* program is left open: any instruction of Menu may stand at the instruction *)
(* pointer. A register holds a number of Word; Mask tells which capabilities  *)
(* a number names, and a number modulo NumCaps is a capability register.      *)
(* Memory, the bulk of a word and the diagnostics ring are left out; what an  *)
(* operation computes is WordArithmetic's. Between runs the host resets the   *)
(* machine, loads code or an image, and recovers from a record that an        *)
(* earlier session may have written under another allowlist.                  *)
EXTENDS Integers, FiniteSets, Sequences

CONSTANTS Regs, NumCaps, Word,       \* registers, capability registers, register values
          Mask(_),                   \* Word -> capabilities
          Allowlist,                 \* the platform's allowlist
          Records, Requests,         \* what a stored record holds, what an image requests
          Menu,                      \* the instructions a program may hold
          CodeCount, StackWords, Budget, ServiceBudget,
          MaxGenerations             \* bound: commits of service 5
Capabilities == {"CONTROL", "ARITH", "MEMORY", "STACK", "SERVICE", "STATE", "UPDATE", "DIAG"}
ASSUME VmAssumption ==
    /\ NumCaps \in Nat \ {0} /\ Word \subseteq Nat /\ 0 \in Word
    /\ CodeCount \in Nat \ {0} /\ {StackWords, Budget, ServiceBudget, MaxGenerations} \subseteq Nat
    /\ Allowlist \subseteq Capabilities /\ Requests \subseteq SUBSET Capabilities
    /\ \A rec \in Records : rec.allowlist \subseteq Capabilities
    /\ \A v \in Word : Mask(v) \subseteq Capabilities
    /\ \A in \in Menu : /\ in.valid \in BOOLEAN /\ {in.cap, in.imm} \subseteq Nat
                        /\ in.valid => in.cap < NumCaps /\ {in.rd, in.ra, in.rb} \subseteq Regs

VARIABLES status, trap,          \* machine status, reason of the last trap
          ip, regs, zero,        \* instruction pointer, registers, the zero flag
          pushed, caps, allowlist,
          used, services,        \* instructions and services of this run
          config, generation,
          running,               \* br_vm_run is on the way
          cancel
vmVars == <<status, trap, ip, regs, zero, pushed, caps, allowlist, used, services, config,
            generation, running, cancel>>

Control == {"NOP", "MOVI", "MOV", "JMP", "JZ", "JNZ", "HALT"}
Arith == {"ADD", "CMP"}                \* ADD for the operations that can overflow
Memory == {"LOAD", "STORE"}
StackOps == {"PUSH", "POP"}

OpcodeCapability(op) ==
    CASE op \in Control -> "CONTROL" [] op \in Arith -> "ARITH" [] op \in Memory -> "MEMORY"
      [] op \in StackOps -> "STACK" [] OTHER -> "SERVICE"
\* What a service needs besides SERVICE; a service that does not exist needs what
\* nothing grants.
ServiceNeeds(svc) ==
    CASE svc \in {0, 1, 2, 3, 7} -> "SERVICE" [] svc \in {4, 5} -> "STATE"
      [] svc = 6 -> "DIAG" [] svc = 8 -> "UPDATE" [] OTHER -> "nothing"

Granted(granted) == [c \in 0 .. NumCaps - 1 |-> IF c = 0 THEN granted ELSE {}]

VmInit ==
    /\ status = "ready" /\ trap = "none" /\ ip = 0 /\ regs = [r \in Regs |-> 0]
    /\ zero = FALSE /\ pushed = <<>> /\ caps = Granted(Allowlist) /\ allowlist = Allowlist
    /\ used = 0 /\ services = 0 /\ config = 0 /\ generation = 0
    /\ running = FALSE /\ cancel = FALSE

Clear ==
    /\ ip' = 0 /\ regs' = [r \in Regs |-> 0] /\ zero' = FALSE /\ pushed' = <<>>
    /\ services' = 0 /\ cancel' = FALSE
Ready == trap' = "none" /\ status' = "ready"
Stopped(reason) == trap' = reason /\ status' = "trapped"

\* br_vm_reset keeps what is durable and grants the allowlist anew.
Reset ==
    /\ ~running /\ Clear /\ Ready /\ caps' = Granted(allowlist)
    /\ UNCHANGED <<allowlist, used, config, generation, running>>

\* Code loaded without an image keeps registers, stack and capabilities.
LoadCode ==
    /\ ~running /\ ip' = 0 /\ Ready
    /\ UNCHANGED <<regs, zero, pushed, caps, allowlist, used, services, config, generation,
                   running, cancel>>

\* br_image_load drops every grant and gives register 0 what the image requests within
\* the allowlist; an image it refuses, for whatever reason,
\* changes nothing but the trap.
ImageLoad ==
    /\ \/ \E requested \in Requests : caps' = Granted(requested \cap allowlist)
          /\ ip' = 0 /\ Ready
       \/ Stopped("bad_image") /\ UNCHANGED <<caps, ip>>
    /\ UNCHANGED <<regs, zero, pushed, allowlist, used, services, config, running, cancel>>
LoadImage == ~running /\ ImageLoad /\ UNCHANGED generation
\* An UPDATE whose image was checked and written commits its record before it loads.
UpdateImage ==
    ~running /\ generation < MaxGenerations /\ generation' = generation + 1 /\ ImageLoad

\* br_vm_recover: without a record nothing but the trap; with one the durable fields and
\* the allowlist, cut to the platform's, then the image if there is one. A RECOVER
\* command saves next: generation is the record's or that of the save.
RecoverRecord ==
    /\ ~running
    /\ \/ /\ Stopped("state")
          /\ UNCHANGED <<ip, regs, zero, pushed, caps, allowlist, services, config,
                         generation, cancel>>
       \/ \E rec \in Records :
             /\ Clear /\ allowlist' = rec.allowlist \cap Allowlist
             /\ config' = rec.config /\ generation' = rec.generation
             /\ \/ caps' = Granted(allowlist')
                   /\ (Ready \/ Stopped("bad_image"))
                \/ (\E requested \in Requests : caps' = Granted(requested \cap allowlist'))
                   /\ Ready
    /\ UNCHANGED <<used, running>>

RequestCancel ==
    /\ ~cancel /\ cancel' = TRUE
    /\ UNCHANGED <<status, trap, ip, regs, zero, pushed, caps, allowlist, used, services,
                   config, generation, running>>

CallRun ==
    /\ ~running /\ running' = TRUE /\ used' = 0 /\ services' = 0
    /\ UNCHANGED <<status, trap, ip, regs, zero, pushed, caps, allowlist, config, generation,
                   cancel>>
-----------------------------------------------------------------------------
(* One instruction.                                                          *)

Trap(reason) ==
    /\ trap' = reason /\ status' = "trapped" /\ running' = FALSE
    /\ UNCHANGED <<ip, regs, zero, pushed, caps, services, config, generation, cancel>>

\* The checks in the order the code makes them; "none" lets the instruction in.
Refusal(in) ==
    CASE cancel -> "cancel"
      [] ~cancel /\ ip >= CodeCount -> "bounds"
      [] ~cancel /\ ip < CodeCount /\ ~in.valid -> "bad_opcode"
      [] OTHER ->
            LET held == caps[in.cap]
            IN  IF OpcodeCapability(in.op) \notin held THEN "capability"
                ELSE IF in.op # "SVC" \/ ServiceNeeds(in.imm) \in held THEN "none"
                ELSE IF ServiceNeeds(in.imm) = "nothing" THEN "bad_opcode" ELSE "capability"

\* The instruction is done: on to next, unless that is outside the program.
Advance(next, halts) ==
    /\ ip' = next
    /\ IF next >= CodeCount /\ ~halts
       THEN trap' = "bounds" /\ status' = "trapped" /\ running' = FALSE
       ELSE status' = (IF halts THEN "halted" ELSE "running") /\ UNCHANGED <<trap, running>>
Put(r, v) == regs' = [regs EXCEPT ![r] = v]

Jumps(in) == in.op \in {"JMP"} \union (IF zero THEN {"JZ"} ELSE {"JNZ"})
ExecControl(in) ==
    /\ in.op \in Control
    /\ IF Jumps(in) /\ in.imm >= CodeCount THEN Trap("bounds")
       ELSE /\ Advance(IF Jumps(in) THEN in.imm ELSE ip + 1, in.op = "HALT")
            /\ CASE in.op = "MOVI" -> Put(in.rd, in.imm)
                 [] in.op = "MOV" -> Put(in.rd, regs[in.ra])
                 [] OTHER -> UNCHANGED regs
            /\ UNCHANGED <<zero, pushed, caps, services, config, generation, cancel>>

\* An arithmetic result that does not fit traps, saturates or wraps; DIVU, MODU
\* and a shift may trap as well. The result is any number.
ExecArith(in) ==
    /\ in.op \in Arith
    /\ \/ in.op = "ADD" /\ in.mode \in {"checked", "trapping"} /\ Trap("overflow")
       \/ in.op = "ADD" /\ Trap("div_zero")
       \/ in.op = "ADD" /\ Trap("budget")
       \/ /\ Advance(ip + 1, FALSE)
          /\ IF in.op = "CMP" THEN zero' = (regs[in.ra] = regs[in.rb]) /\ UNCHANGED regs
             ELSE (\E v \in Word : Put(in.rd, v)) /\ UNCHANGED zero
          /\ UNCHANGED <<pushed, caps, services, config, generation, cancel>>

ExecMemory(in) ==
    /\ in.op \in Memory
    /\ \/ Trap("bounds")
       \/ /\ Advance(ip + 1, FALSE)
          /\ IF in.op = "LOAD" THEN \E v \in Word : Put(in.rd, v) ELSE UNCHANGED regs
          /\ UNCHANGED <<zero, pushed, caps, services, config, generation, cancel>>

ExecStack(in) ==
    /\ in.op \in StackOps
    /\ IF Len(pushed) = (IF in.op = "PUSH" THEN StackWords ELSE 0) THEN Trap("stack")
       ELSE /\ Advance(ip + 1, FALSE)
            /\ IF in.op = "PUSH" THEN pushed' = Append(pushed, regs[in.ra]) /\ UNCHANGED regs
               ELSE Put(in.rd, pushed[Len(pushed)]) /\ pushed' = SubSeq(pushed, 1, Len(pushed) - 1)
            /\ UNCHANGED <<zero, caps, services, config, generation, cancel>>

Target(in) == regs[in.ra] % NumCaps
\* Nothing is asked of the mask.                                      mutant
AnyMask(in) == TRUE
Delegable(in) == Mask(regs[in.rb]) \subseteq caps[in.cap]

ServiceTrap(reason) ==
    /\ trap' = reason /\ status' = "trapped" /\ running' = FALSE /\ services' = services + 1
    /\ UNCHANGED <<ip, regs, zero, pushed, caps, config, generation, cancel>>
ServiceDone == services' = services + 1 /\ Advance(ip + 1, FALSE) /\ UNCHANGED <<zero, pushed, cancel>>

ExecService(in) ==
    /\ in.op = "SVC"
    /\ IF services + 1 > ServiceBudget THEN ServiceTrap("budget")
       ELSE \/ /\ in.imm \in {0, 6}                                \* yield, diagnostic
               /\ ServiceDone /\ UNCHANGED <<regs, caps, config, generation>>
            \/ /\ in.imm = 1 /\ ServiceDone                        \* compact status
               /\ \E v \in Word : Put(in.rd, v)
               /\ UNCHANGED <<caps, config, generation>>
            \/ /\ in.imm = 2 /\ ServiceDone                        \* revoke
               /\ caps' = [caps EXCEPT ![Target(in)] = {}]
               /\ UNCHANGED <<regs, config, generation>>
            \/ /\ in.imm = 3 /\ ~Delegable(in) /\ ServiceTrap("capability")
            \/ /\ in.imm = 3 /\ Delegable(in) /\ ServiceDone       \* delegate a subset
               /\ caps' = [caps EXCEPT ![Target(in)] = Mask(regs[in.rb])]
               /\ UNCHANGED <<regs, config, generation>>
            \/ /\ in.imm = 4 /\ ServiceDone /\ config' = regs[in.ra]
               /\ UNCHANGED <<regs, caps, generation>>
            \/ /\ in.imm = 5 /\ generation < MaxGenerations /\ ServiceDone
               /\ generation' = generation + 1
               /\ UNCHANGED <<regs, caps, config>>
            \/ /\ in.imm \in {7, 8} /\ ServiceTrap("bounds")       \* digest, signature
            \/ /\ in.imm = 7 /\ ServiceDone /\ UNCHANGED <<regs, caps, config, generation>>
            \/ /\ in.imm = 8 /\ ServiceDone /\ (\E v \in Word : Put(in.rd, v))
               /\ UNCHANGED <<caps, config, generation>>

Instruction(in) ==
    IF Refusal(in) # "none" THEN Trap(Refusal(in))
    ELSE \/ ExecControl(in) \/ ExecArith(in) \/ ExecMemory(in) \/ ExecStack(in)
         \/ ExecService(in)

Ended == status \in {"halted", "trapped", "cancelled"}
\* br_vm_run: an instruction, the budget's end, or the end of the run.
RunStep ==
    /\ running /\ ~Ended
    /\ used' = used + 1 /\ UNCHANGED allowlist
    /\ IF used >= Budget THEN Trap("budget") ELSE \E in \in Menu : Instruction(in)
CallEnds ==
    /\ running /\ Ended /\ running' = FALSE
    /\ UNCHANGED <<status, trap, ip, regs, zero, pushed, caps, allowlist, used, services,
                   config, generation, cancel>>

VmNext ==
    \/ Reset \/ LoadCode \/ LoadImage \/ UpdateImage \/ RecoverRecord
    \/ RequestCancel \/ CallRun \/ RunStep \/ CallEnds
VmSpec == VmInit /\ [][VmNext]_vmVars
-----------------------------------------------------------------------------
(* Properties.                                                               *)

Authority == UNION {caps[c] : c \in DOMAIN caps}
\* No register holds more than some register held.
NothingGained == \A c \in DOMAIN caps : \E d \in DOMAIN caps : caps'[c] \subseteq caps[d]
\* Register 0 alone is granted something, and the machine starts over.
GrantedAnew == ip' = 0 /\ \A c \in DOMAIN caps \ {0} : caps'[c] = {}
\* Programs gain nothing by revoking and delegating, in whatever order and on whatever
\* register: only the host, between runs, gives authority back, by a reset, an image or
\* a recovery, which leaves no grant of before in another register; and no register ever
\* holds what the allowlist in force forbids, a record of an earlier session included.
\* During a run nothing durable changes without the STATE authority (brvm.c: "Capability
\* grants are volatile and never survive any reset class").
AuthorityIsGranted ==
    [][/\ NothingGained \/ (~running /\ GrantedAnew)
       /\ Authority' \subseteq allowlist' /\ allowlist' \subseteq Allowlist
       /\ running /\ (config' # config \/ generation' # generation) => "STATE" \in Authority]_vmVars
=============================================================================
