--------------------------- MODULE AssemblerAsLabels ---------------------------
(***************************************************************************)
(* The assembler keeps the promise of module Labels, for the files in      *)
(* which no statement can get two labels and no label is at the end, and   *)
(* that there is room for.                                                 *)
(***************************************************************************)
EXTENDS Assembler

\* The next line that is not blank.
NextLine(f, k) ==
  {j \in k + 1 .. Len(f) : ~IsBlank(f[j]) /\ \A i \in k + 1 .. j - 1 : IsBlank(f[i])}

WellLabelled(f) ==
  /\ Cardinality(Statements(f, Len(f))) <= MAX_INSTRUCTIONS
  /\ \A k \in DOMAIN f : IsLabelLine(f, k) =>
       \E j \in NextLine(f, k) : IsStatement(f, j) /\ ~f[j].colon

\* The refinement: statements are instructions; until the end of the file the
\* labels are those of the instructions, afterwards those of the table.  Other
\* files are not looked at.
FirstWith(n) ==
  CHOOSE i \in DOMAIN instructions :
    instructions[i].label = n /\ \A j \in 1 .. i - 1 : instructions[j].label # n

Targets ==
  IF status = "assembled"
  THEN [n \in {symbols[i].name : i \in DOMAIN symbols} |->
          (CHOOSE a \in find_symbol(symbols, n) : TRUE) \div 4]
  ELSE [n \in {instructions[i].label : i \in DOMAIN instructions} \ {<< >>} |-> FirstWith(n) - 1]

\* The labels of the files, as far as the arrays have room.
Spelled ==
  (UNION {{strncpy(f[k].label, LabelSegments) : k \in DOMAIN f} : f \in Files}) \ {<< >>}

Abstract == INSTANCE Labels WITH
  LabelName <- Spelled,
  count     <- IF WellLabelled(file) THEN Len(instructions) ELSE 0,
  waiting   <- IF WellLabelled(file) THEN {pending_label} \ {<< >>} ELSE {},
  target    <- IF WellLabelled(file) THEN Targets ELSE << >>,
  complete  <- WellLabelled(file) /\ status = "assembled"

\* For those files the assembler keeps the promise of module Labels: every label
\* gets the address of the statement that follows it, in the table that is built
\* at the end, and keeps it when it is written again (assembler.c:99-118,
\* 261-286, 317-321).
LabelsNameTheNextStatement == Abstract!Spec
===============================================================================
