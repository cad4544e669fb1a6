----------------------------- MODULE MCRecorder -----------------------------
(* Model values and symmetry for the runs of Recorder.                     *)
EXTENDS Recorder, TLC

\* process identifiers are interchangeable (safety runs only)
ProcSymmetry == Permutations(Procs)

=============================================================================
