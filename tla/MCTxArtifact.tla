---------------------------- MODULE MCTxArtifact ----------------------------
EXTENDS TxArtifact

Empty == [BIN |-> NoFile, WAV |-> "absent", TMP |-> "absent", JSON |-> "absent", JMP |-> "absent"]
MCFound == {Empty, [Empty EXCEPT !.BIN = 3, !.WAV = "other"]}
=============================================================================
