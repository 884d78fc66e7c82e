--------------------------- MODULE MCFileTransfer ---------------------------
(***************************************************************************)
(* An instance of FileTransfer for TLC: one file of at most two blocks,     *)
(* that may be edited into any other.                                      *)
(***************************************************************************)
EXTENDS FileTransfer

CONSTANTS t1, x, y

One == {t1}

\* An empty file, one block, and two files of two blocks that begin alike
\* with neither, so that an edit can cut, extend or alter what was hashed.
Short == {<<>>, <<x>>, <<x, y>>, <<y, y>>}
Anyone == {"sender", "receiver"}
=============================================================================
