----------------------------- MODULE ByteStream -----------------------------
(***************************************************************************)
(* What one direction of a multiplexed channel promises to the two tasks   *)
(* that use it (Sender and Receiver of nexigon-multiplex): the reader gets *)
(* a prefix of the bytes the writer handed over, in order and once each,   *)
(* and is told "end of stream" only after everything that was sent has     *)
(* been read, unless the connection or one of the channel halves went away *)
(* first.  Bytes are abstracted to their positions in the stream, so the   *)
(* prefix handed to the reader is just its length.                         *)
(***************************************************************************)
EXTENDS Naturals

VARIABLES
    accepted,   \* bytes accepted from the writer
    sent,       \* bytes committed to the stream, never taken back
    delivered,  \* bytes handed to the reader
    broken,     \* the connection under the stream is going away
    eof         \* the reader was told that no more bytes follow

vars == <<accepted, sent, delivered, broken, eof>>

Init ==
    /\ accepted = 0
    /\ sent = 0
    /\ delivered = 0
    /\ broken = FALSE
    /\ eof = FALSE

(* The writer hands over some more bytes. *)
Accept ==
    /\ accepted' \in Nat
    /\ accepted' > accepted
    /\ UNCHANGED <<sent, delivered, broken, eof>>

(* Everything accepted so far is committed to the stream. *)
Commit ==
    /\ sent' = accepted
    /\ UNCHANGED <<accepted, delivered, broken, eof>>

(* The reader gets the next bytes of what has been committed. *)
Deliver ==
    /\ ~eof
    /\ delivered' \in Nat
    /\ delivered < delivered' /\ delivered' <= sent
    /\ broken' \in {broken, TRUE}
    /\ UNCHANGED <<accepted, sent, eof>>

(* The connection fails or is terminated. *)
Break ==
    /\ broken' = TRUE
    /\ UNCHANGED <<accepted, sent, delivered, eof>>

(* The reader learns that the stream has ended. *)
EndOfStream ==
    /\ broken \/ delivered = sent
    /\ eof' = TRUE
    /\ UNCHANGED <<accepted, sent, delivered, broken>>

Next == Accept \/ Commit \/ Deliver \/ Break \/ EndOfStream

Spec == Init /\ [][Next]_vars
=============================================================================
