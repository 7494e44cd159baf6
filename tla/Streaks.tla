------------------------------ MODULE Streaks ------------------------------
(***************************************************************************)
(* The bookkeeping behind "a change becomes an event only after two        *)
(* consecutive publishes agree": the last published value, for how many    *)
(* publishes it has been seen, and the value before the current streak.    *)
(* Health events and Signal events both keep one such record.              *)
(***************************************************************************)
EXTENDS Naturals

CONSTANT NoValue  \* no value precedes the current streak

Streak(V) == [last : V, count : Nat, previous : V \union {NoValue}]

FirstStreak(v) == [last |-> v, count |-> 1, previous |-> NoValue]

\* Mutant: a new streak forgets which value it replaced.
BumpKeepsPrevious(st, v) ==
  IF v = st.last
  THEN [st EXCEPT !.count = @ + 1]
  ELSE [last |-> v, count |-> 1, previous |-> st.previous]

Bump(st, v) ==
  IF v = st.last
  THEN [st EXCEPT !.count = @ + 1]
  ELSE [last |-> v, count |-> 1, previous |-> st.last]

\* Mutants: the change is confirmed one publish late, or by every publish of a
\* streak from the second on.
ConfirmsLate(st, v) ==
  v = st.last /\ Bump(st, v).count = 3 /\ Bump(st, v).previous \notin {NoValue, v}
ConfirmsAgain(st, v) ==
  v = st.last /\ Bump(st, v).count >= 2 /\ Bump(st, v).previous \notin {NoValue, v}

\* The publish that moves st to Bump(st, v) confirms a change to v.
Confirms(st, v) ==
  /\ v = st.last
  /\ Bump(st, v).count = 2
  /\ Bump(st, v).previous \notin {NoValue, v}
=============================================================================
