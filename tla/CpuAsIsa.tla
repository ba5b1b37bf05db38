------------------------------- MODULE CpuAsIsa -------------------------------
(***************************************************************************)
(* The processor implements the machine of IsaMachine.  Its memory is text *)
(* up to program_end and data from there on; without a memory there is no  *)
(* text either.                                                            *)
(***************************************************************************)
EXTENDS Cpu

DataSize == IF memory.size > program_end THEN memory.size - program_end ELSE 0

IsaText == [i \in 1 .. (IF memory.size = 0 THEN 0 ELSE Len(program)) |->
              memory_read32(memory, 4 * (i - 1))]

IsaData == [size |-> DataSize,
            data |-> [a \in 0 .. DataSize - 1 |-> memory.data[program_end + a]]]

Machine == INSTANCE IsaMachine WITH text <- IsaText, data <- IsaData

\* For every program that is loaded the processor is a machine with data memory
\* of its own: adding data_offset in the right places (cpu.c:505, 594), and
\* ending at program_end, hides where the text is and how large.
ActsAsIsaMachine == Machine!Spec
===============================================================================
