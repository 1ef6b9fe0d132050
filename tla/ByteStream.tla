----------------------------- MODULE ByteStream -----------------------------
(***************************************************************************)
(* What reading from the chip promises, whatever the buffering: bytes that *)
(* arrive queue up, and the bytes handed to the client are taken from the  *)
(* front of the queue, each at most once.  Bytes may be forgotten (a       *)
(* failed call, a purge), which never changes the order of the others.     *)
(* Byte number b is the b-th data byte the chip sent.                      *)
(***************************************************************************)
EXTENDS Integers, Sequences

VARIABLES sent,       \* how many data bytes have arrived
          queue,      \* those the library still holds
          delivered   \* those returned to the client

vars == <<sent, queue, delivered>>

Init == /\ sent = 0
        /\ queue = << >>
        /\ delivered = << >>

\* The n bytes that follow byte a.
Run(a, n) == [k \in 1..n |-> a + k]

\* The queue with what arrives in this step.
Grown == queue \o Run(sent, sent' - sent)

Arrive == sent' \in Nat /\ sent' >= sent

Deliver == /\ Arrive
           /\ \E k \in 0..Len(Grown) :
                /\ delivered' = delivered \o SubSeq(Grown, 1, k)
                /\ queue' = SubSeq(Grown, k + 1, Len(Grown))

\* Some stretch of the queue stays, possibly all of it.
Keep == /\ Arrive
        /\ \E j \in 1..Len(Grown) + 1 : \E k \in (j-1)..Len(Grown) :
             queue' = SubSeq(Grown, j, k)
        /\ UNCHANGED delivered

Next == Deliver \/ Keep

Spec == Init /\ [][Next]_vars

-----------------------------------------------------------------------------
TypeOK == /\ sent \in Nat
          /\ queue \in Seq(Nat)
          /\ delivered \in Seq(Nat)

Increasing(s) == \A j, k \in 1..Len(s) : j < k => s[j] < s[k]

\* The client never sees a byte twice or out of order, and what is still held
\* comes after everything it has seen.
InOrder == Increasing(delivered \o queue)
=============================================================================
