------------------------------ MODULE RelayWire ------------------------------
(***************************************************************************)
(* The wire between the visitor (role B) and the provider (role C) of one  *)
(* IDR pair, as both nodes see it: two FIFO streams of frames through the  *)
(* matcher A, which forwards every frame in order (module RelayServer      *)
(* models A itself).                                                       *)
(*                                                                         *)
(* A frame is the triple the receivers look at: method, uuid and, for      *)
(* DATA, the payload.  Payloads are abstracted to the position of the unit *)
(* in the byte stream it was read from, so that loss, duplication and      *)
(* reordering stay visible.  Frames are appended whole; module AConn       *)
(* examines when the code's aconn_write really puts whole frames on the    *)
(* wire.                                                                   *)
(***************************************************************************)
EXTENDS Naturals, Sequences

CONSTANTS
    Uuid,       \* the session identifiers generate_uuid can return
    NoUuid      \* the absence of a session

ASSUME UuidAssumption == NoUuid \notin Uuid

VARIABLES
    up,         \* frames on their way from B to C
    down,       \* frames on their way from C to B
    linkB,      \* the persistent connection of B to A is up
    linkC       \* the persistent connection of C to A is up

wireVars == <<up, down, linkB, linkC>>

Method == {"NEW_SESSION", "FORWARD_SESSION", "SESSION_OK", "SESSION_ERR",
           "DATA", "DATA_EOF", "SESSION_CLOSE"}

Frame == [method : Method, uuid : Uuid, unit : Nat]

\* A control frame carries the uuid only.
ControlFrame(m, u) == [method |-> m, uuid |-> u, unit |-> 0]

DataFrame(u, n) == [method |-> "DATA", uuid |-> u, unit |-> n]

\* What A's pump makes of a frame that B sent: B announces a session with
\* NEW_SESSION and C hears of it as FORWARD_SESSION.
Translated(f) ==
    IF f.method = "NEW_SESSION" THEN [f EXCEPT !.method = "FORWARD_SESSION"]
                                ELSE f

\* aconn_write by B or by C.  The calls pass through the strand in the order
\* they are made, so the frame takes its place in the stream at the call; the
\* caller resumes in a later step.  A write on a broken connection is silently
\* lost: the error code is never looked at.
aconn_write_up(f) ==
    up' = IF linkB /\ linkC THEN Append(up, Translated(f)) ELSE up

\* Mutant: control frames overtake data.
aconn_write_down_controlFirst(f) ==
    down' = IF ~(linkB /\ linkC) THEN down
            ELSE IF f.method = "DATA" THEN Append(down, f) ELSE <<f>> \o down

aconn_write_down(f) ==
    down' = IF linkB /\ linkC THEN Append(down, f) ELSE down

\* How much the connections buffer is not known: a call may return at once,
\* and must when its frame has been read or the connection is lost.  A
\* coroutine has one call under way; methods are the frames it writes.
MustReturn(stream, u, methods) ==
    linkB /\ linkC => \A i \in DOMAIN stream :
                        stream[i].uuid = u => stream[i].method \notin methods

\* The prefixes of a stream that can still arrive after a connection on its
\* way broke.
Prefixes(s) == {SubSeq(s, 1, k) : k \in 0..Len(s)}

\* A node's connection to A is lost (network failure, a crash at either end,
\* A closing it).  Frames under way may be lost from some point on.  Nothing
\* makes A close the other connection as well.
BreakLink(b, c) ==
    /\ linkB' = b
    /\ linkC' = c
    /\ up' \in Prefixes(up)
    /\ down' \in Prefixes(down)

LinkDown ==
    \/ linkB /\ BreakLink(FALSE, linkC)
    \/ linkC /\ BreakLink(linkB, FALSE)

WireInit ==
    /\ up = <<>>
    /\ down = <<>>
    /\ linkB = TRUE
    /\ linkC = TRUE

WireTypeOK ==
    /\ up \in Seq(Frame)
    /\ down \in Seq(Frame)
    /\ linkB \in BOOLEAN
    /\ linkC \in BOOLEAN
==============================================================================
