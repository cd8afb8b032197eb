--------------------------- MODULE MCCompression ---------------------------
(* Small instances of Compression for TLC; see README.                       *)
EXTENDS CompressionProperties
=============================================================================
