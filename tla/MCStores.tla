------------------------------ MODULE MCStores ------------------------------
(***************************************************************************)
(* The stores of a device in one run.  The conversations share nothing     *)
(* with history and shares, so a behaviour is about the ones or the other. *)
(***************************************************************************)
EXTENDS ShareStore, MessageStore, TLC

CONSTANTS r1, r2, l1, p, q, x, a, b

(* The same file received or sent twice, from different places, and added  *)
(* from one of them; one conversation of an old version, one new.          *)
ThePaths    == (r1 :> p) @@ (r2 :> q) @@ (l1 :> q)
TheContents == (r1 :> x) @@ (r2 :> x) @@ (l1 :> x)
OneOld      == (a :> 1) @@ (b :> 0)

VARIABLE about

StoresInit == Init /\ MessagesInit /\ about \in {"shares", "messages"}

StoresNext ==
  \/ about = "shares" /\ Next /\ UNCHANGED <<messageVars, about>>
  \/ about = "messages" /\ MessagesNext /\ UNCHANGED <<vars, about>>

StoresSpec == StoresInit /\ [][StoresNext]_<<vars, messageVars, about>>
=============================================================================
