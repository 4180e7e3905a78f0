----------------------------- MODULE CallFrames ----------------------------
(***************************************************************************)
(* What the calls of a virtual machine promise the functions it runs: each *)
(* call has a frame of its own, and an instruction changes the frame of    *)
(* the running function alone, moves its last values to a new frame as     *)
(* arguments, or gives one value back to the caller.                       *)
(***************************************************************************)
EXTENDS Integers, Sequences

VARIABLE frames    \* the values of each call, the running one last

\* A program that takes more than its frame holds gets no promise.
Broken == <<>>

Depth == Len(frames)
Callers == SubSeq(frames, 1, Depth - 1)
Running == frames[Depth]

Init == frames = <<<<>>>>

Work ==
    /\ frames' # Broken
    /\ Len(frames') = Depth
    /\ SubSeq(frames', 1, Depth - 1) = Callers

Call ==
    \E n \in 0..Len(Running) :
        LET kept == Len(Running) - n
        IN  frames' = Callers \o <<SubSeq(Running, 1, kept),
                                   SubSeq(Running, kept + 1, Len(Running))>>

Return ==
    /\ Depth > 1
    /\ Running # <<>>
    /\ frames' = [Callers EXCEPT ![Depth - 1] =
                     Append(@, Running[Len(Running)])]

Next == frames # Broken /\ (Work \/ Call \/ Return \/ frames' = Broken)

Spec == Init /\ [][Next]_frames

=============================================================================
