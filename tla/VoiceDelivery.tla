--------------------------- MODULE VoiceDelivery ---------------------------
(***************************************************************************)
(* What the voice pipeline promises, without workers, leases or failures:   *)
(* an accepted message gets exactly one outcome; a transcription meant for   *)
(* a note is appended to it once; then the message is answered, once, and    *)
(* in the order of the messages of its chat.                                 *)
(***************************************************************************)
EXTENDS Integers, Sequences

CONSTANTS Jobs, Chat, MessageID, Mode

VARIABLES
  accepted,  \* messages the bot has taken responsibility for
  outcome,   \* what became of each: "none" until it is decided
  written,   \* the messages whose text was appended to a note, in order
  answered   \* messages whose result the user was given for good

avars == <<accepted, outcome, written, answered>>

Outcomes == {"text", "empty", "failed", "cancelled"}

Before(j) == {k \in Jobs : Chat[k] = Chat[j] /\ MessageID[k] < MessageID[j]}

InNote(j) == \E i \in DOMAIN written : written[i] = j

ToWrite(j) == outcome[j] = "text" /\ Mode[j] = "note"

AInit ==
  /\ accepted \in SUBSET Jobs
  /\ outcome = [j \in Jobs |-> "none"]
  /\ written = <<>>
  /\ answered = {}

AcceptMessage(j) ==
  /\ j \notin accepted
  /\ accepted' = accepted \cup {j}
  /\ UNCHANGED <<outcome, written, answered>>

Decide(j) ==
  /\ j \in accepted
  /\ outcome[j] = "none"
  /\ \E r \in Outcomes : outcome' = [outcome EXCEPT ![j] = r]
  /\ UNCHANGED <<accepted, written, answered>>

Write(j) ==
  /\ ToWrite(j)
  /\ ~InNote(j)
  /\ j \notin answered
  /\ Before(j) \cap accepted \subseteq answered
  /\ written' = Append(written, j)
  /\ UNCHANGED <<accepted, outcome, answered>>

Answer(j) ==
  /\ outcome[j] # "none"
  /\ ToWrite(j) => InNote(j)
  /\ j \notin answered
  /\ Before(j) \cap accepted \subseteq answered
  /\ answered' = answered \cup {j}
  /\ UNCHANGED <<accepted, outcome, written>>

ANext == \E j \in Jobs : AcceptMessage(j) \/ Decide(j) \/ Write(j) \/ Answer(j)

ASpec == AInit /\ [][ANext]_avars

=============================================================================
