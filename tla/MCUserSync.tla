----------------------------- MODULE MCUserSync -----------------------------
(* Small instances of UserSync. *)
EXTENDS UserSync, TLC

CONSTANTS u1, u2, s1, s2, n1, n2, c1, c2, p1

(* A person with card and password, one with a password only, one with     *)
(* neither and another name.                                               *)
ThreeForms == {[name |-> n1, password |-> p1, card |-> c1],
               [name |-> n1, password |-> p1, card |-> NoCard],
               [name |-> n2, password |-> NoPassword, card |-> NoCard]}

(* A person with card and password, and another with a password only: the  *)
(* password that is cleared as soon as the row is shown.                   *)
ImportForms == {[name |-> n1, password |-> p1, card |-> c1],
                [name |-> n2, password |-> p1, card |-> NoCard]}

(* A person with card and password under either name. *)
CardForms == {[name |-> n, password |-> p1, card |-> c1] : n \in Names}

SessionSymmetry == Permutations(Sessions)

(* A person enrolled on the device under a user_id the table may know, and *)
(* another one without a card.                                             *)
TwoEnrolled == {[user_id |-> u1, name |-> n1, password |-> p1, card |-> c1],
                [user_id |-> u2, name |-> n1, password |-> p1, card |-> NoCard]}

NoneEnrolled == {}
=============================================================================
