----------------------------- MODULE PathRules -----------------------------
(***************************************************************************)
(* The paths a scenario or suite document declares, and the lexical rules  *)
(* that internal/scenario and internal/suite apply to them before they     *)
(* touch a file: safeRelativePath, and the comparison of prefixes that     *)
(* looks for a path outside its base directory.                            *)
(*                                                                         *)
(* A path is its elements as written, "." and ".." among them, and whether *)
(* it is absolute; the prefixes are compared on its text, as the code      *)
(* does, which is the sequence of its elements and separators.             *)
(***************************************************************************)
EXTENDS Integers, Sequences, SequencesExt

\* An element of a path, or a separator in its text.
Part == STRING \cup {"/"}

Paths == [abs : BOOLEAN, parts : Seq(Part)]

Rel(parts) == [abs |-> FALSE, parts |-> parts]
Abs(parts) == [abs |-> TRUE, parts |-> parts]

\* filepath.Clean
Clean(path) ==
    LET Step(done, part) ==
            CASE part = "." -> done
              [] part = ".." /\ done = <<>> /\ path.abs -> done
              [] part = ".." /\ done # <<>> /\ Last(done) # ".." -> Front(done)
              [] OTHER -> Append(done, part)
    IN  [path EXCEPT !.parts = FoldLeft(Step, <<>>, @)]

\* filepath.Join
Join(dir, path) == Clean([dir EXCEPT !.parts = @ \o path.parts])

\* filepath.Dir of a cleaned path that names a file.
Dir(path) == [path EXCEPT !.parts = Front(@)]

\* The text of a cleaned path.
Text(path) ==
    LET slash == IF path.abs THEN <<"/">> ELSE <<>> IN
    IF path.parts = <<>>
    THEN IF path.abs THEN slash ELSE <<".">>
    ELSE slash \o FoldLeft(LAMBDA text, part : text \o <<"/", part>>,
                           <<Head(path.parts)>>, Tail(path.parts))

\* safeRelativePath: not empty, not absolute, neither the root nor above it.
SafeRelative(path) ==
    /\ path.parts # <<>> /\ ~path.abs
    /\ Clean(path).parts # <<>>
    /\ Head(Clean(path).parts) # ".."

\* The check that Validate makes after it has joined the path to its base.
Contained(base, path) ==
    LET root == Text(Clean(base))
        resolved == Text(Join(base, path))
    IN  resolved = root \/ IsPrefix(root \o <<"/">>, resolved)

\* What the check is for: the joined path leads below the base.
Below(base, path) ==
    IsStrictPrefix(Clean(base).parts, Join(base, path).parts)
=============================================================================
