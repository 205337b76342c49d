----------------------------- MODULE OutputOnce -----------------------------
(***************************************************************************)
(* What gt4core promises about the file it writes, without the system      *)
(* calls: a run that reports success has put one complete ELF, in one step,*)
(* at a path where nothing was; a run that fails has at most put a broken  *)
(* file there.  Whatever else happens to the files is the user's doing.    *)
(***************************************************************************)
EXTENDS Naturals, Sequences, SequencesExt

CONSTANTS
  Runs,    \* the processes
  Paths,   \* the paths they are given
  Block,   \* what a part of a file may hold
  Elf,     \* the ELF of the pinned CORE, a sequence of blocks
  Absent   \* no file at the path

VARIABLES
  visible,  \* the files others can open
  outcome,  \* what each run has come to
  edits     \* number of steps the user has taken

vars == <<visible, outcome, edits>>

File == {Absent} \cup Seq(Block)

Init ==
  /\ visible \in [Paths -> File]
  /\ outcome = [r \in Runs |-> "running"] /\ edits = 0

Publish(r, p) ==
  /\ outcome[r] = "running" /\ visible[p] = Absent
  /\ visible' = [visible EXCEPT ![p] = Elf]
  /\ outcome' = [outcome EXCEPT ![r] = "published"]
  /\ UNCHANGED edits

\* A partial output stays behind; it may even hold all the bytes.
LeavePartial(r, p) ==
  /\ outcome[r] = "running" /\ visible[p] = Absent
  /\ \E part \in Prefixes(Elf) : visible' = [visible EXCEPT ![p] = part]
  /\ outcome' = [outcome EXCEPT ![r] = "failed"]
  /\ UNCHANGED edits

Fail(r) ==
  /\ outcome[r] = "running"
  /\ outcome' = [outcome EXCEPT ![r] = "failed"]
  /\ UNCHANGED <<visible, edits>>

UserEdits(p) ==
  /\ visible' \in [Paths -> File]
  /\ \A q \in Paths \ {p} : visible'[q] = visible[q]
  /\ edits' = edits + 1
  /\ UNCHANGED outcome

Next ==
  \/ \E r \in Runs, p \in Paths : Publish(r, p) \/ LeavePartial(r, p)
  \/ \E r \in Runs : Fail(r)
  \/ \E p \in Paths : UserEdits(p)

Spec == Init /\ [][Next]_vars
=============================================================================
