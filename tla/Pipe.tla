--------------------------------- MODULE Pipe ---------------------------------
(***************************************************************************)
(* What one direction of a forwarded connection promises to its two ends:  *)
(* the receiver gets a prefix of what the sender sent, nothing invented,   *)
(* doubled or reordered, and it is told that the stream has ended only     *)
(* when it has everything, unless the connection broke.                    *)
(***************************************************************************)
EXTENDS Naturals, Sequences

CONSTANT Item       \* what the stream consists of

VARIABLES
    sent,           \* what was taken from the sender
    received,       \* what was handed to the receiver
    ended,          \* the sender has ended its stream
    fin,            \* the receiver was told so
    broken          \* the connection is lost: the rest may not arrive

pipeVars == <<sent, received, ended, fin, broken>>

\* t is the stream s and possibly more.
Extends(t, s) == /\ t \in Seq(Item)
                 /\ Len(s) <= Len(t)
                 /\ \A i \in 1..Len(s) : t[i] = s[i]

Init ==
    /\ sent = <<>> /\ received = <<>>
    /\ ended = FALSE /\ fin = FALSE
    /\ broken \in BOOLEAN

Send ==
    /\ ~ended
    /\ Extends(sent', sent)
    /\ UNCHANGED <<received, ended, fin, broken>>

End ==
    /\ ended' = TRUE
    /\ UNCHANGED <<sent, received, fin, broken>>

Receive ==
    /\ ~fin
    /\ Extends(received', received) /\ Extends(sent, received')
    /\ UNCHANGED <<sent, ended, fin, broken>>

Fin ==
    /\ broken \/ (ended /\ received = sent)
    /\ fin' = TRUE
    /\ UNCHANGED <<sent, received, ended, broken>>

\* The loss may interrupt a send, and both ends may take it for an end.
Break ==
    /\ broken' = TRUE
    /\ IF ended THEN sent' = sent ELSE Extends(sent', sent)
    /\ ended' \in {ended, TRUE} /\ fin' \in {fin, TRUE}
    /\ UNCHANGED received

Next == Send \/ End \/ Receive \/ Fin \/ Break

Spec == Init /\ [][Next]_pipeVars
==============================================================================
