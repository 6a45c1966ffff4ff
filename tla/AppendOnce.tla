----------------------------- MODULE AppendOnce -----------------------------
(***************************************************************************)
(* What an operation ID promises to a client of the note store, without     *)
(* writers, locks, files or failures: however often an append is asked for,  *)
(* its ID stands in one line of one note, the line never moves, and an       *)
(* append that was confirmed stays for good.  What was not confirmed may be  *)
(* lost again.                                                              *)
(***************************************************************************)
CONSTANT Asked      \* the appends that clients may ask for, each with its id

VARIABLES
  written,    \* the appends in the notes, each with its line
  confirmed   \* those whose client was told so

avars == <<written, confirmed>>

AInit ==
  /\ written = {}
  /\ confirmed = {}

\* The line is the next one of the note, which this promise leaves open.
Write(r) ==
  /\ \A e \in written : e.asked.id # r.id
  /\ \E e \in written' : e.asked = r /\ written' = written \cup {e}
  /\ UNCHANGED confirmed

Confirm(r) ==
  /\ \E e \in written : e.asked = r
  /\ confirmed' = confirmed \cup {r}
  /\ UNCHANGED written

Lose ==
  /\ written' \subseteq written
  /\ \A e \in written : e.asked \in confirmed => e \in written'
  /\ UNCHANGED confirmed

ANext == Lose \/ \E r \in Asked : Write(r) \/ Confirm(r)

ASpec == AInit /\ [][ANext]_avars

=============================================================================
