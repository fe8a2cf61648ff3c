----------------------------- MODULE ByteQueue -----------------------------
(***************************************************************************)
(* What Buffer promises its owner: its readable region is a FIFO of bytes. *)
(* Bytes enter only at the back (append, a read from the socket) and leave *)
(* only from the front (retrieve), or all at once (retrieveAll).           *)
(***************************************************************************)
EXTENDS Naturals, Sequences, SequencesExt

VARIABLE content

\* append(bytes), readFromDescriptor: the old content is a strict prefix.
Put == IsStrictPrefix(content, content')

\* retrieve(n), 0 < n <= readable: the new content is a strict suffix.
Take == \E n \in 1..Len(content) : content' = SubSeq(content, n + 1, Len(content))

\* retrieveAll.
Clear == content # <<>> /\ content' = <<>>

Init == content = <<>>

Next == Put \/ Take \/ Clear

Spec == Init /\ [][Next]_content

=============================================================================
