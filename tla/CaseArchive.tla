---------------------------- MODULE CaseArchive ----------------------------
(***************************************************************************)
(* What the database logger promises, without its queue: an archive of the *)
(* records of a session that only grows, and in which every save takes the *)
(* newest unsaved stretch of the log up to its last record.                *)
(***************************************************************************)
EXTENDS Integers

VARIABLES
  logged,  \* how many records there are: 1..logged
  kept     \* the records in the archive

Init == logged = 0 /\ kept = {}

Log == logged' = logged + 1 /\ UNCHANGED kept

\* Records older than lo that are not in the archive yet never will be.
Save ==
  \E lo \in 1..(logged + 1) :
    /\ \A k \in kept : k < lo
    /\ kept' = kept \union lo..logged
    /\ UNCHANGED logged

\* A record that is saved in the step that logs it.
LogAndSave ==
  \E lo \in 1..(logged + 1) :
    /\ \A k \in kept : k < lo
    /\ logged' = logged + 1
    /\ kept' = kept \union lo..(logged + 1)

Next == Log \/ Save \/ LogAndSave

Spec == Init /\ [][Next]_<<logged, kept>>
=============================================================================
