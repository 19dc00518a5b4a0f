--------------------------- MODULE MCVoiceChannel ---------------------------
(***************************************************************************)
(* The two speakers are the threads that call voice_channel_speak.         *)
(***************************************************************************)
EXTENDS VoiceChannel
=============================================================================
