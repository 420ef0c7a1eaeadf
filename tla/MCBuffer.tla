------------------------------ MODULE MCBuffer ------------------------------
(* Buffer with short inputs, all sequences of two byte values.             *)
EXTENDS Buffer, SequencesExt

CONSTANTS p, q, MaxInput

ShortInputs == BoundedSeq({p, q}, MaxInput)
=============================================================================
