----------------------------- MODULE CopyShelf -----------------------------
(***************************************************************************)
(* What the offline store of one browser promises to one user, whatever    *)
(* number of tabs work on it: there is at most one copy of the vault, it   *)
(* opens with the keys it names, and a set of hardware keys that was       *)
(* replaced or deleted never comes back.  OfflineCopy implements this      *)
(* module.                                                                 *)
(***************************************************************************)
EXTENDS Naturals

CONSTANT Keysets  \* identities of sets of hardware keys; 0 stands for none

VARIABLES
  copy,     \* the copy on the shelf
  spent     \* the sets of keys that a stored copy had and that were given up

Empty == [there |-> FALSE, keyset |-> 0, opens |-> TRUE]
Copy  == [there : {TRUE}, keyset : Keysets \cup {0}, opens : {TRUE}]

Init == copy \in {Empty} \cup Copy /\ spent = {}

GivenUp(next) == {copy.keyset} \ {0, next.keyset}

\* A new copy takes the place of the one on the shelf.
Replace(c) ==
  /\ c.keyset \notin spent
  /\ copy' = c
  /\ spent' = spent \cup GivenUp(c)

\* The copy is deleted, and its keys with it.
Wipe ==
  /\ copy' = Empty
  /\ spent' = spent \cup GivenUp(Empty)

Next == Wipe \/ \E c \in Copy : Replace(c)

Spec == Init /\ [][Next]_<<copy, spent>>
=============================================================================
