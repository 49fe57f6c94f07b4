-------------------------- MODULE MCCreateTransfer --------------------------
(* CreateTransfer for TLC.  All requests use key k1 but r5, which has none. *)
(* r1 and r3 have the same body, r2 a different one, and the bodies of r4   *)
(* and r6 to r8 are each refused for another reason.                        *)
EXTENDS CreateTransfer

CONSTANTS r1, r2, r3, r4, r5, r6, r7, r8, k1, alice, bob, carol

MCKey == [r \in Requests |-> IF r = r5 THEN None ELSE k1]

Transfer(src, dst, n) ==
  [json |-> TRUE, ids |-> TRUE, src |-> src, dst |-> dst, amount |-> n]

MCBody ==
  [r \in Requests |->
     CASE r = r2 -> Transfer(alice, bob, 2)
       [] r = r4 -> [Transfer(alice, bob, 1) EXCEPT !.json = FALSE]
       [] r = r6 -> [Transfer(alice, bob, 1) EXCEPT !.ids = FALSE]
       [] r = r7 -> Transfer(alice, carol, 1)
       [] r = r8 -> Transfer(alice, alice, 1)
       [] OTHER  -> Transfer(alice, bob, 1)]
=============================================================================
