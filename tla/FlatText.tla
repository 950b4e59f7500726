------------------------------ MODULE FlatText ------------------------------
(***************************************************************************)
(* What a text container promises, without lines: a flat string in which   *)
(* every line is closed by Enter.  A character may be put in front of any  *)
(* character already there, any character but the final Enter may be       *)
(* taken out, and the string may be saved under a name and loaded back.    *)
(***************************************************************************)
EXTENDS Integers, SequencesExt

CONSTANTS Char, Enter, File

VARIABLES flat,      \* the text
          files,     \* the text each file holds
          alive      \* the process that owns the text runs

vars == << flat, files, alive >>

Text == { s \in Seq(Char \cup {Enter}) : s = << >> \/ Last(s) = Enter }

Init == /\ flat = << Enter >>
        /\ files \in [File -> Text]
        /\ alive = TRUE

Insert == /\ alive
          /\ \E p \in 1 .. Len(flat), ch \in Char \cup {Enter} :
                flat' = InsertAt(flat, p, ch)
          /\ UNCHANGED << files, alive >>

Delete == /\ alive
          /\ \E p \in 1 .. Len(flat) - 1 : flat' = RemoveAt(flat, p)
          /\ UNCHANGED << files, alive >>

Save == /\ alive
        /\ \E f \in File : files' = [files EXCEPT ![f] = flat]
        /\ UNCHANGED << flat, alive >>

Load == /\ alive
        /\ \E f \in File : flat' = files[f]
        /\ UNCHANGED << files, alive >>

Crash == /\ alive
         /\ alive' = FALSE
         /\ UNCHANGED << flat, files >>

Next == Insert \/ Delete \/ Save \/ Load \/ Crash

Spec == Init /\ [][Next]_vars
=============================================================================
