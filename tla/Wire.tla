-------------------------------- MODULE Wire --------------------------------
(***************************************************************************)
(* What FrameWriter and FrameReader promise the two ends of a stream:      *)
(* whole frames, each once and in the order they were written, and nothing *)
(* after an exit frame.  Session implements it.                            *)
(***************************************************************************)
EXTENDS Naturals, Sequences

CONSTANT Frames

VARIABLES sent, got

Init == sent = <<>> /\ got = <<>>

\* WriteFrame.
Send(f) ==
    /\ \A i \in 1..Len(sent) : sent[i].type # "exit"
    /\ sent' = Append(sent, f)
    /\ UNCHANGED got

\* ReadFrame.
Receive ==
    /\ Len(got) < Len(sent)
    /\ got' = Append(got, sent[Len(got) + 1])
    /\ UNCHANGED sent

Next == (\E f \in Frames : Send(f)) \/ Receive

Spec == Init /\ [][Next]_<<sent, got>>

=============================================================================
