----------------------------- MODULE IpcChannel -----------------------------
(* What one direction of an inter-core channel promises: a bounded queue that *)
(* neither loses, nor duplicates, nor reorders, nor tears a message.          *)
EXTENDS Integers, Sequences

CONSTANTS Msg, NoMsg

VARIABLES queue,   \* the messages on their way, oldest first
          taken    \* the message the receiver took last

vars == << queue, taken >>

TypeOK == queue \in Seq(Msg) /\ taken \in Msg \cup {NoMsg}

Init == queue = << >> /\ taken = NoMsg

Put(m) == /\ queue' = Append(queue, m)
          /\ UNCHANGED taken

Take == /\ queue # << >>
        /\ taken' = Head(queue)
        /\ queue' = Tail(queue)

Next == Take \/ \E m \in Msg : Put(m)

Spec == Init /\ [][Next]_vars
=============================================================================
