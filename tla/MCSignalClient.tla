--------------------------- MODULE MCSignalClient ---------------------------
EXTENDS SignalClient, TLC

CONSTANTS start, conn, conf, disc, inv, acc1, acc2, file

KindOf == (start :> "startup") @@ (conn :> "connect") @@ (conf :> "configure")
       @@ (disc :> "disconnect") @@ (inv :> "invite") @@ (file :> "iroh")
       @@ (acc1 :> "accept") @@ (acc2 :> "accept")

(* Codes accepted one after the other and at once, a code given out while  *)
(* another is accepted, a file sent over iroh while the user disconnects,  *)
(* and two ways to connect at the same time.                               *)
Runs == {{start, acc1, acc2, disc}, {start, inv, acc1, acc2}, {start, inv, acc1, disc},
         {start, file, acc1, disc}, {start, conf, acc1},
         {start, conn}, {conn, conf}}
=============================================================================
