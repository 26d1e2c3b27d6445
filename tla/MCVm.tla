-------------------------------- MODULE MCVm --------------------------------
(* The virtual machine, one part at a time: its durable store, its interpreter *)
(* with its word arithmetic, and the session of its host. Two images are       *)
(* stored, the second a later version.                                         *)
EXTENDS BrvmStore, VmInterpreter, WordArithmetic, ApduSession

CONSTANTS a, b

VARIABLE part

MCVersion == [i \in {a, b} |-> IF i = a THEN 1 ELSE 2]

Masks(v) == IF v = 0 THEN {} ELSE {"SERVICE", "STATE"}
Insn(op, cap, ra, rb, imm) ==
    [valid |-> TRUE, op |-> op, mode |-> "wrap", cap |-> cap, rd |-> ra, ra |-> ra,
     rb |-> rb, imm |-> imm]
Programs == {Insn("MOVI", 0, r, r, v) : r \in Regs, v \in Word}
            \union {Insn("SVC", c, "r0", "r1", s) : c \in 0 .. 1, s \in {0, 2, 3, 4, 5, 8, 9}}
            \union {Insn(op, 0, "r0", "r1", 1) :
                       op \in {"ADD", "CMP", "LOAD", "PUSH", "POP", "JNZ", "HALT"}}
            \union {[Insn("NOP", 0, "r0", "r0", 0) EXCEPT !.valid = FALSE]}
            \union {[Insn("ADD", 0, "r0", "r0", 0) EXCEPT !.mode = "checked"]}
Saved == {[allowlist |-> {"CONTROL", "SERVICE", "STATE", "DIAG"}, config |-> 1, generation |-> 1],
          [allowlist |-> {"SERVICE"}, config |-> 0, generation |-> 1]}
Commands == {[cmd |-> c, size |-> n] : c \in {"LOAD", "STATE", "RESET"}, n \in 1 .. 4}

machineVars == <<part, vars, vmVars, wordVars, apduVars>>

VmInstanceInit ==
    /\ part \in {"store", "interpreter", "words", "session"}
    /\ Init /\ VmInit /\ WordInit /\ ApduInit

VmInstanceNext ==
    /\ part' = part
    /\ \/ part = "store" /\ Next /\ UNCHANGED <<vmVars, wordVars, apduVars>>
       \/ part = "interpreter" /\ VmNext /\ UNCHANGED <<vars, wordVars, apduVars>>
       \/ part = "words" /\ Compute /\ UNCHANGED <<vars, vmVars, apduVars>>
       \/ part = "session" /\ ApduNext /\ UNCHANGED <<vars, vmVars, wordVars>>

VmInstanceSpec == VmInstanceInit /\ [][VmInstanceNext]_machineVars
=============================================================================
