--------------------------- MODULE MCVoiceAccept ---------------------------
(***************************************************************************)
(* Small instances of VoiceAccept: two messages and two concurrent          *)
(* deliveries, or one of each.                                              *)
(***************************************************************************)
EXTENDS VoiceAccept

NoInputs  == {}
SmartOnly == {"smart"}

=============================================================================
