---------------------------- MODULE MessageChannel ----------------------------
(***************************************************************************)
(* What a flow promises to the application at each end: messages arrive in *)
(* the order in which they were written, each at most once, and only an    *)
(* unreliable one may be passed over (doc/api.rst, "reliable": in a        *)
(* no-reliable case, the packet can be lost).                              *)
(***************************************************************************)
EXTENDS Integers, Sequences

VARIABLES
    written,   \* how many messages were written: they are named from 0 on
    owed,      \* the reliable ones
    received   \* the messages handed to the receiving application, in order

vars == <<written, owed, received>>

Init == written = 0 /\ owed = {} /\ received = <<>>

Write(reliable) ==
    /\ written' = written + 1
    /\ owed' = IF reliable THEN owed \cup {written} ELSE owed
    /\ UNCHANGED received

\* 'all' goes on from 'got' with later messages, in order, leaving out none
\* that is owed and comes before one of them.
GoesOn(got, all) ==
    /\ Len(all) > Len(got)
    /\ SubSeq(all, 1, Len(got)) = got
    /\ \A i \in (Len(got) + 1)..Len(all) :
          /\ all[i] \in 0..(written - 1)
          /\ \A j \in 1..(i - 1) : all[j] < all[i]
          /\ \A n \in owed : n < all[i] => \E j \in 1..i : all[j] = n

\* One packet may complete several messages.
Receive ==
    /\ GoesOn(received, received')
    /\ UNCHANGED <<written, owed>>

Next == (\E reliable \in BOOLEAN : Write(reliable)) \/ Receive

Spec == Init /\ [][Next]_vars
=============================================================================
