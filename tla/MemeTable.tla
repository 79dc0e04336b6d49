----------------------------- MODULE MemeTable ------------------------------
(***************************************************************************)
(* What the meme handler promises about the stored memes: whole rows are   *)
(* created under ids that grow and are never given out twice, and change   *)
(* or disappear one at a time.                                             *)
(***************************************************************************)
EXTENDS Naturals

CONSTANT Rows

VARIABLES
  memes,    \* id -> row
  last      \* the highest id ever stored

Init == memes = [i \in {} |-> 0] /\ last = 0

Create(i, row) ==
  /\ i > last
  /\ last' = i
  /\ memes' = [j \in DOMAIN memes \cup {i} |-> IF j = i THEN row ELSE memes[j]]

Update(i, row) ==
  /\ i \in DOMAIN memes
  /\ memes' = [memes EXCEPT ![i] = row]
  /\ UNCHANGED last

Delete(i) ==
  /\ i \in DOMAIN memes
  /\ memes' = [j \in DOMAIN memes \ {i} |-> memes[j]]
  /\ UNCHANGED last

Next ==
  \/ \E i \in last + 1 .. last' : \E row \in Rows : Create(i, row)
  \/ \E i \in DOMAIN memes : Delete(i) \/ \E row \in Rows : Update(i, row)

Spec == Init /\ [][Next]_<<memes, last>>

=============================================================================
