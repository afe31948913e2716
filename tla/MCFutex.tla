------------------------------ MODULE MCFutex ------------------------------
(* Instances of Futex for TLC: guest programs over two words.              *)
EXTENDS Futex

Threads == 1..3
Words == {0, 1}
Values == {0, 1}

\* Two threads wait for word 0 and one for word 1 as well, alone; the third
\* changes and wakes both words, and exits with word 1 as its tid.
SharedWord ==
  <<{Wait(0, 1)},
    {Wait(0, 1), Wait(1, 1)},
    {Store(0, 0), Store(1, 0), Wake(0, 2), Wake(1, 1), SetTid(1), Exit}>>

\* One thread joins another.
Join == <<{Wait(0, 1)}, {}, {Exit}>>

NoTid == <<NoWord, NoWord, NoWord>>
TidOf3 == <<NoWord, NoWord, 0>>
BothOne == [a \in Words |-> 1]
============================================================================
