------------------------------- MODULE TxFifo -------------------------------
(***************************************************************************)
(* What the transmit path of an interface promises (spec 4.C), without     *)
(* the ring: packets are accepted one at a time and numbered in the order  *)
(* they are accepted; at most Capacity accepted packets wait for the wire  *)
(* at any time; the wire receives them in that order, each exactly once,   *)
(* several at a time.  IoMmapTx is shown to implement it.                  *)
(***************************************************************************)
EXTENDS Naturals, Sequences

CONSTANT Capacity   \* packets that may wait for the wire (the ring size)

VARIABLES
    accepted,  \* packets accepted for transmission so far
    out        \* packet numbers on the wire, in order

fifo_vars == <<accepted, out>>

FifoInit == accepted = 0 /\ out = << >>

(* A packet is accepted while fewer than Capacity are waiting.             *)
Accept ==
    /\ accepted - Len(out) < Capacity
    /\ accepted' = accepted + 1
    /\ UNCHANGED out

(* The oldest k waiting packets go on the wire.                            *)
Transmit ==
    \E k \in 1..(accepted - Len(out)) :
        /\ out' = out \o [j \in 1..k |-> Len(out) + j]
        /\ UNCHANGED accepted

FifoNext == Accept \/ Transmit

FifoSpec == FifoInit /\ [][FifoNext]_fifo_vars

====
