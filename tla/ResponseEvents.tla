--------------------------- MODULE ResponseEvents ---------------------------
(***************************************************************************)
(* The canonical event builder of backend/response_events.py: the          *)
(* lifecycle and sequencing guard of one assistant response.  A builder is *)
(* a record, an operation of the class an operator on it.  The events it   *)
(* has produced are kept in "sent"; "raised" records that one of its       *)
(* RuntimeErrors was thrown, after which the caller does nothing more with *)
(* it.  Event contents (text, usage, metadata) are left out.               *)
(***************************************************************************)
EXTENDS Integers, Sequences

Block == {"text", "reasoning"}

StartOf == [text |-> "text_start", reasoning |-> "reasoning_start"]
DeltaOf == [text |-> "text_delta", reasoning |-> "reasoning_delta"]
EndOf   == [text |-> "text_end",   reasoning |-> "reasoning_end"]

BlockEvent == {StartOf[k] : k \in Block} \cup {DeltaOf[k] : k \in Block}
                \cup {EndOf[k] : k \in Block}

Terminal == {"message_end", "error"}

\* Events that belong to no block and do not end the response.
PlainEvent == {"tool_start", "tool_input_delta", "tool_end", "tool_result",
               "citation", "artifact", "usage"}

EventType == {"message_start"} \cup BlockEvent \cup PlainEvent \cup Terminal

Event == [type : EventType, sequence : Nat]

Builder == [started : BOOLEAN, terminal : BOOLEAN, open : SUBSET Block,
            sequence : Nat, sent : Seq(Event), raised : BOOLEAN]

NewBuilder == [started |-> FALSE, terminal |-> FALSE, open |-> {},
               sequence |-> 0, sent |-> <<>>, raised |-> FALSE]

-----------------------------------------------------------------------------
Raise(b) == [b EXCEPT !.raised = TRUE]

\* event(), called n times in a row with the same type.
Emit(b, t, n) ==
  IF b.raised \/ b.terminal \/ (t = "message_start") = b.started
  THEN Raise(b)
  ELSE [b EXCEPT !.started  = TRUE,
                 !.sent     = @ \o [i \in 1..n |->
                                      [type |-> t, sequence |-> b.sequence + i - 1]],
                 !.sequence = @ + n,
                 !.terminal = t \in Terminal]

MessageStart(b) == Emit(b, "message_start", 1)

\* text_start / the opening half of reasoning_delta: a no-op on an open block.
BlockStart(b, k) ==
  IF k \in b.open THEN b
  ELSE [Emit(b, StartOf[k], 1) EXCEPT !.open = @ \cup {k}]

\* text_delta, reasoning_delta: the block is opened on the first delta.
BlockDelta(b, k) == Emit(BlockStart(b, k), DeltaOf[k], 1)

\* text_end, reasoning_end: a no-op on a closed block.
BlockEnd(b, k) ==
  IF k \notin b.open THEN b
  ELSE Emit([b EXCEPT !.open = @ \ {k}], EndOf[k], 1)

\* message_end() refuses to end a response with a block open.
MessageEnd(b) == IF b.open # {} THEN Raise(b) ELSE Emit(b, "message_end", 1)

\* error() has no such guard.
ErrorEnd(b) == Emit(b, "error", 1)

-----------------------------------------------------------------------------
(* What a receiver may rely on, stated on the sequence of events alone.    *)

\* A block of kind k has been started and not ended among the first n events.
IsOpen(s, k, n) ==
  \E j \in 1..n : /\ s[j].type = StartOf[k]
                  /\ \A i \in (j + 1)..n : s[i].type # EndOf[k]

\* "sequence" counts from 0 without a gap or a repetition.
Contiguous(s) == \A i \in DOMAIN s : s[i].sequence = i - 1

\* message_start comes first, and once.
StartsOnce(s) == \A i \in DOMAIN s : s[i].type = "message_start" <=> i = 1

\* Nothing follows a terminal event.
EndsOnce(s) == \A i \in DOMAIN s : s[i].type \in Terminal => i = Len(s)

\* Deltas and ends only inside an open block, no block opened twice, and no
\* terminal event (of either kind) while a block is open.
Bracketed(s) ==
  \A i \in DOMAIN s : \A k \in Block :
    /\ s[i].type \in {DeltaOf[k], EndOf[k]} => IsOpen(s, k, i - 1)
    /\ s[i].type \in Terminal \cup {StartOf[k]} => ~IsOpen(s, k, i - 1)
=============================================================================
