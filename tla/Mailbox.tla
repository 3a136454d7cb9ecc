-------------------------------- MODULE Mailbox --------------------------------
(***************************************************************************)
(* What the doorbell mailbox promises, free of bytes, windows and          *)
(* interrupts: who asks takes down what is posted, a scan is begun on      *)
(* request only, is posted once and as a whole, and what is posted stays   *)
(* as it is.  A reader that reports a completed scan took exactly what     *)
(* was posted.                                                             *)
(*                                                                         *)
(* "posted" and "taken" hold one post or none.                             *)
(***************************************************************************)
EXTENDS Naturals

CONSTANTS
  Slots,     (* the words of a scan                                        *)
  Read       (* those a reader takes                                       *)

VARIABLES
  asked,     (* requests made                                              *)
  begun,     (* scans begun                                                *)
  open,      (* the last one begun is not posted yet                       *)
  posted, taken

mvars == <<asked, begun, open, posted, taken>>

-----------------------------------------------------------------------------
MInit ==
  /\ asked = 0 /\ begun = 0 /\ open = FALSE
  /\ posted = {} /\ taken = {}

(* The answer to an earlier request goes, the scan under way goes on.      *)
Request ==
  /\ asked' = asked + 1 /\ posted' = {}
  /\ UNCHANGED <<begun, open, taken>>

(* A scan under way is given up for the new one.                           *)
Begin ==
  /\ begun < asked /\ posted = {}
  /\ begun' = begun + 1 /\ open' = TRUE
  /\ UNCHANGED <<asked, posted, taken>>

(* The words were fetched by this scan, hence after as many requests as    *)
(* there were scans, and "good" are some whose transaction succeeded.      *)
Whole(post) ==
  /\ post.words \in [Slots -> [scan : {begun}, asked : begun .. asked, ok : BOOLEAN]]
  /\ post.good \subseteq {i \in Slots : post.words[i].ok}

Post ==
  /\ open /\ posted = {}
  /\ \E post \in posted' : posted' = {post} /\ Whole(post)
  /\ open' = FALSE
  /\ UNCHANGED <<asked, begun, taken>>

Part(post) == [words |-> [i \in Read |-> post.words[i]], good |-> post.good \cap Read]
Take ==
  /\ \E post \in posted : taken' = {Part(post)}
  /\ UNCHANGED <<asked, begun, open, posted>>

Drop == taken' = {} /\ UNCHANGED <<asked, begun, open, posted>>

MNext == Request \/ Begin \/ Post \/ Take \/ Drop

MSpec == MInit /\ [][MNext]_mvars
=============================================================================
