------------------------------ MODULE SymbolTable ------------------------------
(***************************************************************************)
(* The lookups of a label, in the symbol table or directly in the          *)
(* instructions or the data: the address of the first entry that has it,   *)
(* as a set that is empty if there is none.                                *)
(***************************************************************************)
EXTENDS Integers, Sequences

\* Mutation of find_symbol: the last entry wins.
find_symbol_last(table, name) ==
  {table[i].address : i \in {k \in DOMAIN table :
     table[k].name = name /\ \A j \in k + 1 .. Len(table) : table[j].name # name}}

find_symbol(table, name) ==
  {table[i].address : i \in {k \in DOMAIN table :
     table[k].name = name /\ \A j \in 1 .. k - 1 : table[j].name # name}}

find_label(table, label) ==
  {table[i].address : i \in {k \in DOMAIN table :
     table[k].label = label /\ \A j \in 1 .. k - 1 : table[j].label # label}}
===============================================================================
