----------------------------- MODULE JobLedger ------------------------------
(***************************************************************************)
(* What the job queue promises to those who put work on it, without its    *)
(* table, its locks, its clock or its worker loop: an item is taken by one *)
(* hand at a time, at most MaxAttempts times; a hand that has an item      *)
(* either settles it or puts it back; an item fails because its attempts   *)
(* are used up or because the hand that had it is gone; and what is        *)
(* settled stays settled.                                                  *)
(***************************************************************************)
EXTENDS Naturals

CONSTANTS
  Item,        \* what is put on the queue
  Hand,        \* who works it off
  Nothing,     \* an empty hand; not in Item
  MaxAttempts

VARIABLES
  phase,   \* "none", "waiting", "taken", "done" or "failed", per item
  tries,   \* times each item was taken
  has      \* the item in each hand

ledger == << phase, tries, has >>

Init == /\ phase = [i \in Item |-> "none"]
        /\ tries = [i \in Item |-> 0]
        /\ has   = [h \in Hand |-> Nothing]

InSomeHand(i) == \E h \in Hand : has[h] = i

Submit(i) == /\ phase[i] = "none"
             /\ phase' = [phase EXCEPT ![i] = "waiting"]
             /\ UNCHANGED << tries, has >>

Take(h, i) == /\ has[h] = Nothing
              /\ phase[i] = "waiting"
              /\ ~InSomeHand(i)
              /\ tries[i] < MaxAttempts
              /\ phase' = [phase EXCEPT ![i] = "taken"]
              /\ tries' = [tries EXCEPT ![i] = @ + 1]
              /\ has'   = [has EXCEPT ![h] = i]

\* The hand lets its item go, in one of three ways.
LetGo(h, i, p) == /\ has[h] = i
                  /\ phase[i] = "taken"
                  /\ phase' = [phase EXCEPT ![i] = p]
                  /\ has'   = [has EXCEPT ![h] = Nothing]
                  /\ UNCHANGED tries

Finish(h, i)  == LetGo(h, i, "done")
PutBack(h, i) == tries[i] < MaxAttempts /\ LetGo(h, i, "waiting")
GiveUp(h, i)  == tries[i] = MaxAttempts /\ LetGo(h, i, "failed")

\* The hand is gone; its item stays taken.
Lose(h) == /\ has[h] # Nothing
           /\ has' = [has EXCEPT ![h] = Nothing]
           /\ UNCHANGED << phase, tries >>

\* Items that no hand has are written off, any number of them at once.
WriteOff == /\ \E lost \in SUBSET {i \in Item : phase[i] = "taken" /\ ~InSomeHand(i)} :
                  phase' = [i \in Item |-> IF i \in lost THEN "failed" ELSE phase[i]]
            /\ UNCHANGED << tries, has >>

Next == \/ \E i \in Item : Submit(i)
        \/ \E h \in Hand, i \in Item : \/ Take(h, i)    \/ Finish(h, i)
                                       \/ PutBack(h, i) \/ GiveUp(h, i)
        \/ \E h \in Hand : Lose(h)
        \/ WriteOff

Spec == Init /\ [][Next]_ledger
=============================================================================
