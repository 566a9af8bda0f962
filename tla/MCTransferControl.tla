------------------------- MODULE MCTransferControl -------------------------
EXTENDS TransferControl, TLC

CONSTANTS j, d, f, g

(* A file on its own, and a folder that holds the same file and another.   *)
FileAndFolder == (j :> <<f>>) @@ (d :> <<f, g>>)
TheirIds      == (j :> f) @@ (d :> d)
OneThenTwo    == <<1, 2>>
=============================================================================
