---------------------------- MODULE MCProcessFits ----------------------------
(* MCProcess with programs that fit.  What ProcessProofs assumes of files and *)
(* build where it shows that frames come back and that nothing panics holds   *)
(* of the constants of this run.                                              *)
EXTENDS MCProcess

ASSUME ProgramsFit == FilesFit /\ FlagFirst = SourceOrder
=============================================================================
