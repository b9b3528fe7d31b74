------------------------------ MODULE MCRecorder ------------------------------
(* Recorder is finite as it stands: the runs only give its bounds. *)
EXTENDS Recorder
=============================================================================
