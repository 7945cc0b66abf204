------------------------------ MODULE Mailbox ------------------------------
(***************************************************************************)
(* What an actor's mailbox promises to the code around it: messages that   *)
(* any thread sends are handed to the owner one at a time, each exactly    *)
(* once, in the order in which they were accepted, until the owner is      *)
(* destroyed.  There is no lock, no second queue and no counter here;      *)
(* QueueRw shows how queue_rw_t (base/queue_write_read.h) implements it.   *)
(***************************************************************************)
EXTENDS Naturals, Sequences

CONSTANT Data       \* the messages (channel_t::data_t)

VARIABLES
  open,             \* FALSE once the owner was destroyed
  chan,             \* accepted, not yet handed over; oldest first
  got               \* everything handed to the owner so far, in order

mailboxVars == <<open, chan, got>>

TypeOK ==
  /\ open \in BOOLEAN
  /\ chan \in Seq(Data)
  /\ got \in Seq(Data)

Init ==
  /\ open = TRUE
  /\ chan = <<>>
  /\ got = <<>>

Send(d) ==
  /\ open
  /\ chan' = Append(chan, d)
  /\ UNCHANGED <<open, got>>

Deliver ==
  /\ open
  /\ chan # <<>>
  /\ got' = Append(got, Head(chan))
  /\ chan' = Tail(chan)
  /\ UNCHANGED open

\* Destruction drops whatever was not handed over.
Close ==
  /\ open
  /\ open' = FALSE
  /\ chan' = <<>>
  /\ UNCHANGED got

Next ==
  \/ \E d \in Data : Send(d)
  \/ Deliver
  \/ Close

Spec == Init /\ [][Next]_mailboxVars

\* An owner that keeps asking is never refused for ever.
FairSpec == Spec /\ WF_mailboxVars(Deliver)
=============================================================================
