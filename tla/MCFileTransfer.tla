--------------------------- MODULE MCFileTransfer ---------------------------
(* A small instance of FileTransfer for TLC.                                *)
EXTENDS FileTransfer

TwoFiles == <<2, 1>>
Sizes    == {0, 9}

=============================================================================
