------------------------------ MODULE Uploads ------------------------------
(***************************************************************************)
(* put_attachment (attachments.py): a file outside the library arrives in  *)
(* pieces that are appended to one partial file per path; the last piece   *)
(* brings the digest of the whole, and only if it matches the partial file *)
(* is renamed into place.  Several senders may use one path at once, lose  *)
(* answers and go on, and the server may be killed at any point of a call. *)
(*                                                                         *)
(* A file is the sequence of its bytes, a digest stands for its content.   *)
(* One path is modelled: paths share nothing but the lock.  Calls run      *)
(* under the lock, so a call is one step, or a part of one if it is cut    *)
(* short.  The senders are clients: they follow what the answers tell      *)
(* them (docs/mcp.md), and that is all that is assumed of them.            *)
(***************************************************************************)
EXTENDS Naturals, Sequences

CONSTANTS
    Sender,
    File,        \* [Sender -> sequence of bytes]: what each one sends
    MaxPiece,    \* MAX_CHUNK_BYTES
    MaxCuts,     \* bound on killed servers, lost answers and fresh starts
    Nothing      \* no file

ASSUME UploadsAssumption ==
    /\ MaxPiece \in Nat \ {0} /\ MaxCuts \in Nat
    /\ \A s \in Sender : Len(File[s]) \in Nat /\ File[s] # Nothing

VARIABLES
    target,    \* the attachment
    partial,   \* its .part file
    offset,    \* [Sender -> where the sender goes on]
    answer,    \* [Sender -> "none", or the final answer it got]
    cuts

uploadsVars == <<target, partial, offset, answer, cuts>>

Total(s) == Len(File[s])

UploadsTypeOK ==
    /\ offset \in [Sender -> Nat]
    /\ \A s \in Sender : offset[s] <= Total(s)
    /\ answer \in [Sender -> {"none", "complete", "exists", "given up"}]
    /\ cuts \in 0..MaxCuts

UploadsInit ==
    /\ target = Nothing /\ partial = Nothing
    /\ offset = [s \in Sender |-> 0]
    /\ answer = [s \in Sender |-> "none"]
    /\ cuts = 0

\* The pieces a sender may send next; an empty one only to close the file.
PieceLengths(s) ==
    {n \in 0..MaxPiece : /\ offset[s] + n <= Total(s)
                         /\ n = 0 => offset[s] = Total(s)}

Piece(s, n) == SubSeq(File[s], offset[s] + 1, offset[s] + n)

IsLast(s, n) == offset[s] + n = Total(s)

\* Bytes the server has; a piece at 0 starts over, whatever was there.
Received(s) == IF partial # Nothing /\ offset[s] # 0 THEN Len(partial) ELSE 0

\* The partial file once the first k bytes of the piece are written.
Written(s, k) ==
    IF offset[s] = 0 THEN SubSeq(File[s], 1, k) ELSE partial \o Piece(s, k)

\* Mutant of DigestMatches: the size is enough.
DigestMatchesSize(s, content) == Len(content) = Total(s)

DigestMatches(s, content) == content = File[s]

\* What the call does to the two files: nothing if it is refused.
Effect(s, n) ==
    IF target # Nothing \/ offset[s] # Received(s)
    THEN <<target, partial>>
    ELSE IF Len(Written(s, n)) < Total(s)
         THEN <<target, Written(s, n)>>
         ELSE IF DigestMatches(s, Written(s, n))
              THEN <<Written(s, n), Nothing>>
              ELSE <<target, Nothing>>

\* Where the sender stands after the answer: at the number of bytes the
\* server says it has (from the start if that is more than it wants to send),
\* and at the start after a digest that did not match.
NextOffset(s, n) ==
    IF offset[s] # Received(s)
    THEN IF Received(s) <= Total(s) THEN Received(s) ELSE 0
    ELSE IF IsLast(s, n) /\ ~DigestMatches(s, Written(s, n)) THEN 0 ELSE offset[s] + n

\* An attachment that exists is never overwritten; a sender that names its
\* digest is told that its upload is complete.
FinalAnswer(s, n, named) ==
    IF target # Nothing
    THEN IF named /\ DigestMatches(s, target) THEN "complete" ELSE "exists"
    ELSE IF /\ offset[s] = Received(s) /\ IsLast(s, n)
            /\ DigestMatches(s, Written(s, n))
         THEN "complete" ELSE "none"

PutAttachment(s) ==
    /\ answer[s] = "none"
    /\ \E n \in PieceLengths(s), named \in BOOLEAN :
          /\ IsLast(s, n) => named
          /\ target' = Effect(s, n)[1] /\ partial' = Effect(s, n)[2]
          /\ answer' = [answer EXCEPT ![s] = FinalAnswer(s, n, named)]
          /\ offset' = [offset EXCEPT ![s] = IF target = Nothing THEN NextOffset(s, n) ELSE @]
    /\ UNCHANGED cuts

Fault == cuts < MaxCuts /\ cuts' = cuts + 1

\* The server dies after it wrote the first k bytes of the piece.
KilledWriting(s) ==
    /\ answer[s] = "none" /\ target = Nothing /\ offset[s] = Received(s)
    /\ \E n \in PieceLengths(s) : \E k \in 0..n : partial' = Written(s, k)
    /\ Fault
    /\ UNCHANGED <<target, offset, answer>>

\* The call ends but its answer does not arrive.
AnswerLost(s) ==
    /\ answer[s] = "none"
    /\ \E n \in PieceLengths(s) :
          target' = Effect(s, n)[1] /\ partial' = Effect(s, n)[2]
    /\ Fault
    /\ UNCHANGED <<offset, answer>>

\* A sender starts over, or gives up.
StartOver(s) ==
    /\ answer[s] = "none" /\ offset[s] # 0
    /\ offset' = [offset EXCEPT ![s] = 0]
    /\ Fault
    /\ UNCHANGED <<target, partial, answer>>

GiveUp(s) ==
    /\ answer[s] = "none"
    /\ answer' = [answer EXCEPT ![s] = "given up"]
    /\ UNCHANGED <<target, partial, offset, cuts>>

UploadsNext ==
    \E s \in Sender :
        PutAttachment(s) \/ KilledWriting(s) \/ AnswerLost(s) \/ StartOver(s) \/ GiveUp(s)

UploadsSpec == UploadsInit /\ [][UploadsNext]_uploadsVars

-----------------------------------------------------------------------------
(* Properties *)

\* What is in place is one sender's whole file and not a mixture of two, and
\* a sender that was told so finds its own file there (put_attachment).
WholeFile ==
    /\ target # Nothing => \E s \in Sender : target = File[s]
    /\ \A s \in Sender : answer[s] = "complete" => target = File[s]

=============================================================================
