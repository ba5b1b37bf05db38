-------------------------------- MODULE Comments --------------------------------
(***************************************************************************)
(* What read_asm_file does to the text of a file before it looks at a      *)
(* line: block comments are removed in place, then lines are taken from    *)
(* what is left, cut to the size of an array, and rid of line comments and *)
(* blanks.  Characters keep the position that they have in the text: the   *)
(* buffer and the lines are sequences of positions.                        *)
(***************************************************************************)
EXTENDS Integers, Sequences, FiniteSets

CONSTANTS
  Texts,          \* sequences of "/", "*", "#", " ", "\n" and other characters
  MAX_LINE_SIZE

ASSUME TextsAssumption == Texts \subseteq Seq(STRING)

ASSUME LineSizeAssumption == MAX_LINE_SIZE \in Nat \ {0}

VARIABLES
  text,        \* the file; never changes
  buffer,
  blockStart,  \* where the next block comment begins, empty if nowhere
  line_ptr,    \* where the next line begins
  lines,       \* the lines so far
  phase        \* "blocks", "lines" or "done"

vars == <<text, buffer, blockStart, line_ptr, lines, phase>>

Holds(b, i, s) ==
  i + Len(s) - 1 <= Len(b) /\ \A k \in 1 .. Len(s) : text[b[i + k - 1]] = s[k]

\* The first occurrence of s in b that begins at from or later.
strstr(b, from, s) ==
  {i \in from .. Len(b) : Holds(b, i, s) /\ \A j \in from .. i - 1 : ~Holds(b, j, s)}

Open  == <<"/", "*">>
Close == <<"*", "/">>

Init ==
  /\ text \in Texts
  /\ buffer = [i \in 1 .. Len(text) |-> i]
  /\ blockStart = strstr(buffer, 1, Open)
  /\ line_ptr = 1
  /\ lines = << >>
  /\ phase = "blocks"
------------------------------------------------------------------------------
\* Mutation of RemoveBlock: the next search begins at the front.
RemoveBlockFromFront ==
  /\ phase = "blocks"
  /\ \E start \in blockStart : \E end \in strstr(buffer, start, Close) :
       /\ buffer' = SubSeq(buffer, 1, start - 1) \o SubSeq(buffer, end + 2, Len(buffer))
       /\ blockStart' = strstr(buffer', 1, Open)
  /\ UNCHANGED <<text, line_ptr, lines, phase>>

\* The rest moves to where the comment began, and the search goes on there.
RemoveBlock ==
  /\ phase = "blocks"
  /\ \E start \in blockStart : \E end \in strstr(buffer, start, Close) :
       /\ buffer' = SubSeq(buffer, 1, start - 1) \o SubSeq(buffer, end + 2, Len(buffer))
       /\ blockStart' = strstr(buffer', start, Open)
  /\ UNCHANGED <<text, line_ptr, lines, phase>>

\* A comment that is not closed takes the rest with it.
CutUnterminated ==
  /\ phase = "blocks"
  /\ \E start \in blockStart :
       strstr(buffer, start, Close) = {} /\ buffer' = SubSeq(buffer, 1, start - 1)
  /\ blockStart' = {} /\ phase' = "lines"
  /\ UNCHANGED <<text, line_ptr, lines>>

NoMoreBlocks ==
  /\ phase = "blocks" /\ blockStart = {}
  /\ phase' = "lines"
  /\ UNCHANGED <<text, buffer, blockStart, line_ptr, lines>>
------------------------------------------------------------------------------
\* What precedes the first occurrence of s.
CutAt(line, s) ==
  LET found == strstr(line, 1, s)
  IN  IF found = {} THEN line ELSE SubSeq(line, 1, (CHOOSE i \in found : TRUE) - 1)

\* Mutation of eliminate_comment: only // is looked for.
eliminate_comment_slashes(line) == CutAt(line, <<"/", "/">>)

eliminate_comment(line) == CutAt(CutAt(line, <<"/", "/">>), <<"#">>)

eliminate_whitespaces(line) ==
  LET solid == {i \in DOMAIN line : text[line[i]] # " "}
  IN  {line[i] : i \in {j \in DOMAIN line : \E l, r \in solid : l <= j /\ j <= r}}

\* The end of the line that begins at line_ptr.
LineEnd ==
  LET newline == strstr(buffer, line_ptr, <<"\n">>)
  IN  IF newline = {} THEN Len(buffer) + 1 ELSE CHOOSE i \in newline : TRUE

\* The line is cut before its comment is known.
Line ==
  LET room == line_ptr + MAX_LINE_SIZE - 1
  IN  SubSeq(buffer, line_ptr, (IF LineEnd < room THEN LineEnd ELSE room) - 1)

\* Mutation of ReadLine: the next line begins with the newline.
ReadLineStuck ==
  /\ phase = "lines" /\ line_ptr <= Len(buffer)
  /\ lines' = IF LineEnd = line_ptr THEN lines
              ELSE Append(lines, eliminate_whitespaces(eliminate_comment(Line)))
  /\ line_ptr' = LineEnd
  /\ UNCHANGED <<text, buffer, blockStart, phase>>

ReadLine ==
  /\ phase = "lines" /\ line_ptr <= Len(buffer)
  /\ lines' = Append(lines, eliminate_whitespaces(eliminate_comment(Line)))
  /\ line_ptr' = LineEnd + 1
  /\ UNCHANGED <<text, buffer, blockStart, phase>>

EndOfBuffer ==
  /\ phase = "lines" /\ line_ptr > Len(buffer)
  /\ phase' = "done"
  /\ UNCHANGED <<text, buffer, blockStart, line_ptr, lines>>

Next == RemoveBlock \/ CutUnterminated \/ NoMoreBlocks \/ ReadLine \/ EndOfBuffer

Spec == Init /\ [][Next]_vars

\* One thread that waits for nothing.
FairSpec == Spec /\ WF_vars(Next)
------------------------------------------------------------------------------
(* The text as a reader from left to right understands it: what each         *)
(* character is, given what the one before it is.                            *)

At(p, s) == Holds([i \in 1 .. Len(text) |-> i], p, s)

\* The two characters that open a block comment are "open" and "opened", those
\* that close it "close" and "closed"; "line" is in a line comment.
Role(before, p) ==
  CASE before = "open"  -> "opened"
    [] before = "close" -> "closed"
    [] before \in {"opened", "block"} -> IF At(p, Close) THEN "close" ELSE "block"
    [] before = "line" /\ text[p] # "\n" -> "line"
    [] OTHER -> CASE At(p, Open) -> "open"
                  [] At(p, <<"/", "/">>) \/ text[p] = "#" -> "line"
                  [] OTHER -> "code"

\* The same for a reader who knows block comments only, and to whom the star
\* that opens one may also close it.
BlockRole(before, p) ==
  CASE before = "close" -> "closed"
    [] before \in {"open", "block"} -> IF At(p, Close) THEN "close" ELSE "block"
    [] OTHER -> IF At(p, Open) THEN "open" ELSE "code"

Roles ==
  LET role[p \in 1 .. Len(text)] == Role(IF p = 1 THEN "code" ELSE role[p - 1], p)
  IN  [p \in 1 .. Len(text) |-> role[p]]

BlockRoles ==
  LET role[p \in 1 .. Len(text)] == BlockRole(IF p = 1 THEN "code" ELSE role[p - 1], p)
  IN  [p \in 1 .. Len(text) |-> role[p]]

\* The characters of line k; newlines in block comments do not count.
OnLine(roles, k) ==
  {p \in DOMAIN roles :
     /\ roles[p] \in {"code", "line"} /\ text[p] # "\n"
     /\ Cardinality({q \in 1 .. p - 1 : text[q] = "\n" /\ roles[q] = "code"}) = k - 1}

Trimmed(ps) ==
  {p \in ps : \E l, r \in ps : text[l] # " " /\ text[r] # " " /\ l <= p /\ p <= r}

\* The two readers can only disagree where a block comment begins in a line
\* comment or closes with the star that opens it.
Plain(roles) ==
  \A p \in DOMAIN roles :
    /\ roles[p] = "line" => ~At(p, Open)
    /\ roles[p] = "open" => ~At(p + 1, Close)
------------------------------------------------------------------------------
(* Properties *)

\* The loop that moves the buffer in place (assembler.c:8-28) removes what one
\* pass over the text finds: what a removal brings together, such as a slash and
\* a star, is never taken for a comment.
BlocksAreRemovedOnce ==
  phase # "blocks" =>
    LET roles == BlockRoles
    IN  /\ {buffer[i] : i \in DOMAIN buffer} = {p \in DOMAIN roles : roles[p] = "code"}
        /\ \A i, j \in DOMAIN buffer : i < j => buffer[i] < buffer[j]

\* The three passes (assembler.c:13, 35, 41) leave the code that a reader from
\* left to right sees, each line under its number, although the passes do not
\* know of each other, unless a block comment begins in a line comment, closes
\* with its own star, or a line with its comment is longer than the array.
LinesAreTheCode ==
  phase = "done" =>
    LET roles == Roles
        CodeOn(k) == {p \in OnLine(roles, k) : roles[p] = "code"}
    IN  Plain(roles) =>
          \A k \in 1 .. Len(text) + 1 :
            Cardinality(OnLine(roles, k)) < MAX_LINE_SIZE =>
              Trimmed(CodeOn(k)) = IF k \in DOMAIN lines THEN lines[k] ELSE {}

\* Both loops come to an end for every text (assembler.c:14, 165).
EveryTextIsRead == <>(phase = "done")
===============================================================================
