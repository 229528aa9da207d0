------------------------------ MODULE CardFiles ------------------------------
(***************************************************************************)
(* The files on the memory card and the objects they hold (Storage::Load   *)
(* and Save in src/controller/storage.cc).  An object covers cells of the  *)
(* memory: a program the patch, the sequence and the settings of a part, a *)
(* multi all of them.                                                      *)
(*                                                                         *)
(* files is a function from places (an object with its bank and slot, or   *)
(* the clipboard of an object) to two files: the one itself and, under the *)
(* name with a tilde, the backup.                                          *)
(***************************************************************************)
EXTENDS Integers

CONSTANT NumParts      \* kNumParts

Parts == 0..(NumParts - 1)

Objects == {"PATCH", "SEQUENCE", "PROGRAM", "MULTI"}

Roles(object) ==
  CASE object = "PATCH"    -> {"patch"}
    [] object = "SEQUENCE" -> {"sequence"}
    [] OTHER               -> {"patch", "sequence", "settings"}

AllCells == (Roles("MULTI") \X Parts) \cup {<<"multi", 0>>}

Cells(object, part) == IF object = "MULTI" THEN AllCells ELSE Roles(object) \X {part}

\* In the file of an object of one part the part is not told.
InFile(object, cell) == IF object = "MULTI" THEN cell ELSE <<cell[1], 0>>

Missing == [name |-> <<"missing">>, cells |-> <<>>]
Torn    == [name |-> <<"torn">>, cells |-> <<>>]    \* opened for writing, never closed: empty
Whole(content) == content \notin {Missing, Torn}

Contents(data, object, part, name) ==
  [name  |-> name,
   cells |-> [c \in {InFile(object, d) : d \in Cells(object, part)} |->
                data[IF object = "MULTI" THEN c ELSE <<c[1], part>>]]]

\* ReadObject, for every object of the file.
Loaded(data, object, part, content) ==
  [c \in DOMAIN data |->
     IF c \in Cells(object, part) THEN content.cells[InFile(object, c)] ELSE data[c]]

-----------------------------------------------------------------------------
\* What is on the card after each step of Save: the old backup is removed, the file
\* is renamed, a new one opened, and closed when it is written.  Save ignores what the
\* first two return: where the card does not answer them they leave it as it is.
Unlink(files, p) == [files EXCEPT ![p].backup = Missing]

\* Only a file that exists is renamed, and not over another.
Rename(files, p) ==
  IF files[p].file = Missing \/ files[p].backup # Missing THEN files
  ELSE [files EXCEPT ![p].backup = files[p].file, ![p].file = Missing]

RenameFirst(files, p, backsUp, answers) ==   \* variant: the old backup is removed too late
  IF backsUp /\ answers THEN <<Rename(files, p), Unlink(Rename(files, p), p)>> ELSE <<files, files>>

Backup(files, p, backsUp, answers) ==
  IF backsUp /\ answers THEN <<Unlink(files, p), Rename(Unlink(files, p), p)>> ELSE <<files, files>>

Write(files, p, content) == [files EXCEPT ![p].file = content]

\* The card before and after each of them.
SaveSteps(files, p, content, backsUp, answers) ==
  LET backup == Backup(files, p, backsUp, answers)
  IN  <<files, backup[1], backup[2], Write(backup[2], p, Torn), Write(backup[2], p, content)>>

Saved(files, p, content, backsUp, answers) == SaveSteps(files, p, content, backsUp, answers)[5]
=============================================================================
