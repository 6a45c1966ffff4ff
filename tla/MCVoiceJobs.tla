---------------------------- MODULE MCVoiceJobs ----------------------------
(***************************************************************************)
(* Small instances of VoiceJobs: one message and two workers, or two        *)
(* messages of one chat and one worker.                                     *)
(***************************************************************************)
EXTENDS VoiceJobs

CONSTANTS m1, m2

SameChat  == [j \in Jobs |-> 1]
Numbers   == [j \in Jobs |-> IF j = m1 THEN 1 ELSE 2]
NoteMode  == [j \in Jobs |-> "note"]
MixedMode == [j \in Jobs |-> IF j = m1 THEN "note" ELSE "smart"]
NoLegacy  == {}
OldRow    == {m1}

=============================================================================
