------------------------- MODULE MCArchivePipeline -------------------------
(***************************************************************************)
(* Values for ArchivePipeline: a buffer that fills up, batches smaller     *)
(* than the buffer, and a configuration change that lowers the buffer      *)
(* limit and raises the batch size.                                        *)
(***************************************************************************)
EXTENDS ArchivePipeline

MCConfigs == {[bufferLimit |-> 2, fetchLimit |-> 1],
              [bufferLimit |-> 1, fetchLimit |-> 2]}

=============================================================================
