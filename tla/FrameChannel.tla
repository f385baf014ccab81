----------------------------- MODULE FrameChannel -----------------------------
(***************************************************************************)
(* What the audio socket promises its users: messages are accepted whole,  *)
(* kept in order, and each is delivered once, until the channel breaks.    *)
(* What passes through a broken channel is not said.                       *)
(***************************************************************************)
EXTENDS Integers, Sequences

CONSTANT Frames         \* the messages

VARIABLES queue,        \* accepted and not delivered
          delivered,    \* delivered, in order
          broken        \* whether the promise has ended

vars == <<queue, delivered, broken>>

Init == queue = <<>> /\ delivered = <<>> /\ broken = FALSE

Accept(f) ==
  /\ ~broken
  /\ queue' = Append(queue, f)
  /\ UNCHANGED <<delivered, broken>>

Deliver ==
  /\ ~broken
  /\ queue # <<>>
  /\ delivered' = Append(delivered, Head(queue))
  /\ queue' = Tail(queue)
  /\ UNCHANGED broken

Break == broken'

Next == (\E f \in Frames : Accept(f)) \/ Deliver \/ Break

Spec == Init /\ [][Next]_vars /\ WF_vars(Deliver)
=============================================================================
