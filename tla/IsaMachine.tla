------------------------------- MODULE IsaMachine -------------------------------
(***************************************************************************)
(* What the simulator promises to a program: a machine whose text and data *)
(* are apart.  Addresses of data begin with 0 and say nothing about the    *)
(* text; what is fetched is an instruction of the text.  A program breaks  *)
(* the contract when it uses data at a negative address, which may then be *)
(* anything, or jumps between two instructions, after which anything may   *)
(* happen until it gets back.                                              *)
(***************************************************************************)
EXTENDS Memory, Opcodes

CONSTANTS RegNumber, MaxInstructions, Fields(_), Alu(_, _, _), Trap

VARIABLES
  text,     \* a sequence of words
  data,     \* a memory of its own
  regs, pc, executed, halted, error,
  result    \* "running", "ok", "failed", or "killed"

vars == <<text, data, regs, pc, executed, halted, error, result>>

Init ==
  /\ text \in Seq(Word)
  /\ \E size \in 0 .. WordMod : data \in MemoryOf(size)
  /\ regs \in [0 .. RegNumber - 1 -> Word] /\ \A r \in 1 .. RegNumber - 1 : regs[r] = 0
  /\ pc = 0 /\ executed = 0 /\ ~halted /\ ~error /\ result = "running"
------------------------------------------------------------------------------
(* What an instruction i at pc does. *)

Place(i) == Signed(Wrap(regs[i.rs1] + i.imm))

\* A load or store that keeps to the contract.
InData(i) == Place(i) >= 0

Operations(i) == {o[3] : o \in {p \in RtypeOperations : p[1] = i.funct3 /\ p[2] = i.funct7}}

Compare(i) ==
  CASE i.funct3 = 0 -> regs[i.rs1] = regs[i.rs2]
    [] i.funct3 = 1 -> regs[i.rs1] # regs[i.rs2]
    [] i.funct3 = 4 -> Signed(regs[i.rs1]) < Signed(regs[i.rs2])
    [] i.funct3 = 5 -> Signed(regs[i.rs1]) >= Signed(regs[i.rs2])

Known(i) ==
  \/ i.opcode \in {LUI, AUIPC, JAL}
  \/ i.opcode \in {OP_IMM, JALR} /\ i.funct3 = 0
  \/ i.opcode \in {LOAD, STORE} /\ i.funct3 = 2
  \/ i.opcode = BRANCH /\ i.funct3 \in {0, 1, 4, 5}
  \/ i.opcode = OP /\ Operations(i) # {}

\* What rd may get.
Values(i) ==
  CASE i.opcode = OP     -> UNION {Alu(op, regs[i.rs1], regs[i.rs2]) : op \in Operations(i)}
    [] i.opcode = OP_IMM -> {Wrap(regs[i.rs1] + i.imm)}
    [] i.opcode = LUI    -> {Wrap(i.imm)}
    [] i.opcode = AUIPC  -> {Wrap(pc + i.imm)}
    [] i.opcode = LOAD   -> IF InData(i) THEN {memory_read32(data, Place(i))} ELSE Word
    [] OTHER             -> {Wrap(pc + 4)}

\* ra belongs to jumps and x0 to nobody; only the attempt on ra is an error.
Owned(i)  == i.rd # 0 /\ (i.rd = 1 => i.opcode \in {JAL, JALR})
Denied(i) == i.rd = 1 /\ i.opcode \notin {JAL, JALR}

Target(i) ==
  CASE i.opcode = JAL  -> Wrap(pc + i.imm)
    [] i.opcode = JALR -> Wrap(2 * (Wrap(regs[i.rs1] + i.imm) \div 2))
    [] i.opcode = BRANCH /\ Compare(i) -> Wrap(pc + i.imm)
    [] OTHER -> Wrap(pc + 4)
------------------------------------------------------------------------------
Running == result = "running" /\ ~halted /\ executed < MaxInstructions

Current == Fields(text[(pc \div 4) + 1])

\* The instruction at pc is whole and known.
Executing == Running /\ pc < 4 * Len(text) /\ pc % 4 = 0 /\ Known(Current)

Compute ==
  /\ Executing /\ Current.opcode \notin {STORE, BRANCH}
  /\ \E value \in Values(Current) \ {Trap} :
       regs' = IF Owned(Current) THEN [regs EXCEPT ![Current.rd] = value] ELSE regs
  /\ error' = (error \/ Denied(Current))
  /\ pc' = Target(Current) /\ executed' = executed + 1
  /\ UNCHANGED <<text, data, halted, result>>

Branch ==
  /\ Executing /\ Current.opcode = BRANCH
  /\ pc' = Target(Current) /\ executed' = executed + 1
  /\ UNCHANGED <<text, data, regs, halted, error, result>>

\* Outside its contract a store may change the text too.
Store ==
  /\ Executing /\ Current.opcode = STORE
  /\ InData(Current) => /\ data' = memory_write32(data, Place(Current), regs[Current.rs2])
                        /\ UNCHANGED text
  /\ pc' = Target(Current) /\ executed' = executed + 1
  /\ UNCHANGED <<regs, halted, error, result>>

Fault ==
  /\ Executing /\ Trap \in Values(Current)
  /\ result' = "killed"
  /\ UNCHANGED <<text, data, regs, pc, executed, halted, error>>

Reject ==
  /\ Running /\ pc < 4 * Len(text) /\ pc % 4 = 0 /\ ~Known(Current)
  /\ error' /\ result' = "failed" /\ pc' = Wrap(pc + 4)
  /\ UNCHANGED <<text, data, regs, executed, halted>>

\* Between two instructions.
Torn ==
  /\ Running /\ pc < 4 * Len(text) /\ pc % 4 # 0
  /\ executed' \in {executed, executed + 1}
  /\ error => error'
  /\ UNCHANGED halted

Leave ==
  /\ Running /\ pc >= 4 * Len(text)
  /\ halted' = TRUE
  /\ UNCHANGED <<text, data, regs, pc, executed, error, result>>

Return ==
  /\ result = "running" /\ ~Running
  /\ result' = IF error THEN "failed" ELSE "ok"
  /\ UNCHANGED <<text, data, regs, pc, executed, halted, error>>

Next == Compute \/ Branch \/ Store \/ Fault \/ Reject \/ Torn \/ Leave \/ Return

Spec == Init /\ [][Next]_vars
===============================================================================
