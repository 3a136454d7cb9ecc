----------------------------- MODULE GuardedReset -----------------------------
(***************************************************************************)
(* What the deferred reset of ec-flash promises, free of chips, commands   *)
(* and files: the EC is reset into a flash somebody verified.  A promise   *)
(* is made for a range that shows its image, the flash is not written      *)
(* while one stands, and a promise is called in once, for one reset.       *)
(*                                                                         *)
(* "promise" stands for the marker in /run, "called" for the one the       *)
(* shutdown helper took away and acts for, "resetting" for an ec-flash     *)
(* about to send FE.                                                       *)
(***************************************************************************)
EXTENDS Naturals

CONSTANTS
  Blocks,
  Images,
  NoImage,   (* what a block shows that holds no image as a whole          *)
  NoPromise

VARIABLES shown, promise, called, resetting

gvars == <<shown, promise, called, resetting>>

Promise == {p \in [first : Blocks, last : Blocks, image : Images] : p.first <= p.last}
Kept(p) == \A b \in Blocks : p.first <= b /\ b <= p.last => shown[b] = p.image
Free == promise = NoPromise /\ called = NoPromise

-----------------------------------------------------------------------------
GInit ==
  /\ shown \in [Blocks -> Images \cup {NoImage}]
  /\ Free
  /\ resetting = FALSE

Rewrite ==
  /\ Free
  /\ shown' \in [Blocks -> Images \cup {NoImage}]
  /\ UNCHANGED <<promise, called, resetting>>

Give ==
  /\ Free
  /\ promise' \in Promise /\ Kept(promise')
  /\ UNCHANGED <<shown, called, resetting>>

Withdraw == promise' = NoPromise /\ UNCHANGED <<shown, called, resetting>>

CallIn ==
  /\ promise # NoPromise /\ called = NoPromise
  /\ called' = promise /\ promise' = NoPromise
  /\ UNCHANGED <<shown, resetting>>

SendReset ==
  /\ called # NoPromise /\ Kept(called)
  /\ resetting' = TRUE
  /\ UNCHANGED <<shown, promise, called>>

(* Sent, given up or killed: what was called in is spent.                  *)
Spend == called' = NoPromise /\ resetting' = FALSE /\ UNCHANGED <<shown, promise>>

(* A boot forgets everything.                                              *)
Forget ==
  /\ promise' = NoPromise /\ called' = NoPromise /\ resetting' = FALSE
  /\ UNCHANGED shown

GNext == Rewrite \/ Give \/ Withdraw \/ CallIn \/ SendReset \/ Spend \/ Forget

GSpec == GInit /\ [][GNext]_gvars
=============================================================================
