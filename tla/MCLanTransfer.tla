--------------------------- MODULE MCLanTransfer ---------------------------
EXTENDS LanTransfer, TLC

CONSTANTS s1, s2, a, b, d1, d2

(* A file of three chunks and a later version of it, of the same size,     *)
(* that differs in one chunk: the same file_id.                            *)
TwoVersions == {<<a, a, a>>, <<a, b, a>>}
OneShort    == {<<a, b>>}

Interchangeable == Permutations({s1, s2})
=============================================================================
