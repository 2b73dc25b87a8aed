---------------------- MODULE ResponseControllerProofs ----------------------
(***************************************************************************)
(* The safety properties of ResponseController, for every set of message   *)
(* and tool ids and streams of any length.                                 *)
(***************************************************************************)
EXTENDS ResponseController, SequenceTheorems, TLAPS

Increasing(s) == \A i, j \in DOMAIN s : i < j => s[i] < s[j]
UpTo(s, n)    == \A i \in DOMAIN s : s[i] <= n

\* What has been received is in order, and not beyond lastSequence.
OrderInv ==
  server = "canonical" =>
    \A b \in Block : Increasing(Received(b)) /\ UpTo(Received(b), lastSequence)

\* A tool id is held by an open tool block; an older server opens no block.
OpenInv ==
  /\ currentToolId # None => "tool" \in open
  /\ server = "legacy" => open = {}

\* messageEnd is called once, with no block open, and leaves the controller
\* terminal; beside canonical events legacy frames have lost their effect.
EndInv ==
  \A i \in DOMAIN outcomes : outcomes[i] = "end" =>
    /\ terminal /\ open = {}
    /\ server = "canonical" => sawCanonical
    /\ \A j \in DOMAIN outcomes : outcomes[j] = "end" => j = i

IInv == TypeOK /\ OrderInv /\ ClosedBlocksDrawn /\ NothingStuck /\ OpenInv /\ EndInv

-----------------------------------------------------------------------------
(* Sequences. *)

\* An event after those there are is appended in order.
LEMMA AppendedInOrder ==
  ASSUME NEW s \in Seq(Nat), NEW m \in Int, NEW n \in Nat, m < n, Increasing(s), UpTo(s, m)
  PROVE  Increasing(Append(s, n)) /\ UpTo(Append(s, n), n)
<1> DEFINE t == Append(s, n)
<1>1. DOMAIN s = 1..Len(s) /\ Len(s) \in Nat /\ \A i \in DOMAIN s : s[i] \in Nat
  BY LenProperties, ElementOfSeq
<1>2. t \in Seq(Nat) /\ DOMAIN t = 1..(Len(s) + 1)
  BY <1>1, AppendProperties, LenProperties
<1>3. t[Len(s) + 1] = n /\ \A i \in DOMAIN s : t[i] = s[i]
  BY <1>1, AppendProperties
<1> HIDE DEF t
<1>4. UpTo(t, n)
  BY <1>1, <1>2, <1>3 DEF UpTo
<1>5. ASSUME NEW i \in DOMAIN t, NEW j \in DOMAIN t, i < j PROVE t[i] < t[j]
  <2>1. i \in DOMAIN s
    BY <1>1, <1>2, <1>5
  <2>2. CASE j \in DOMAIN s
    BY <1>3, <1>5, <2>1, <2>2 DEF Increasing
  <2>3. CASE j \notin DOMAIN s
    BY <1>1, <1>2, <1>3, <2>1, <2>3 DEF UpTo
  <2> QED
    BY <2>2, <2>3
<1> QED
  BY <1>4, <1>5 DEF t, Increasing

\* A bound may be raised.
LEMMA UpToWeakens ==
  ASSUME NEW s \in Seq(Nat), NEW m \in Int, NEW n \in Int, m <= n, UpTo(s, m)
  PROVE  UpTo(s, n)
<1>1. \A i \in DOMAIN s : s[i] \in Nat
  BY LenProperties, ElementOfSeq
<1> QED
  BY <1>1 DEF UpTo

\* Appending to the second of two.
LEMMA ConcatAppend ==
  ASSUME NEW s \in Seq(Nat), NEW t \in Seq(Nat), NEW n \in Nat
  PROVE  s \o Append(t, n) = Append(s \o t, n)
<1>1. <<n>> \in Seq(Nat) /\ Append(t, n) = t \o <<n>>
  BY AppendProperties
<1>2. s \o t \in Seq(Nat) /\ Append(s \o t, n) = (s \o t) \o <<n>>
  BY ConcatProperties, AppendProperties
<1> QED
  BY <1>1, <1>2, ConcatAssociative

-----------------------------------------------------------------------------
(* What the steps do to the buffers. *)

\* What was received of a block is a sequence of numbers.
LEMMA ReceivedType ==
  ASSUME TypeOK, NEW b \in Block
  PROVE  Received(b) \in Seq(Nat) /\ shown[b] \in Seq(Nat) /\ buffer[b] \in Seq(Nat)
BY ConcatProperties DEF TypeOK, Received

\* Drawing moves what a buffer holds to the page.
LEMMA Drawing ==
  ASSUME TypeOK, NEW B, Draw(B)
  PROVE  /\ shown' \in [Block -> Seq(Nat)] /\ buffer' \in [Block -> Seq(Nat)]
         /\ \A b \in Block : Received(b)' = Received(b)
         /\ \A b \in Block : buffer'[b] = IF b \in B /\ Drawable(b) THEN <<>> ELSE buffer[b]
         /\ \A b \in Block : buffer[b] = <<>> \/ ~Drawable(b) => shown'[b] = shown[b]
<1>1. \A b \in Block : shown[b] \in Seq(Nat) /\ buffer[b] \in Seq(Nat) /\ Received(b) \in Seq(Nat)
  BY ReceivedType
<1>2. /\ shown' = [b \in Block |-> IF b \in B /\ Drawable(b) THEN Received(b) ELSE shown[b]]
      /\ buffer' = [b \in Block |-> IF b \in B /\ Drawable(b) THEN <<>> ELSE buffer[b]]
  BY DEF Draw, Received
<1>3. <<>> \in Seq(Nat)
  BY EmptySeq
<1>4. shown' \in [Block -> Seq(Nat)] /\ buffer' \in [Block -> Seq(Nat)]
  BY <1>1, <1>2, <1>3
<1>5. ASSUME NEW b \in Block PROVE Received(b)' = Received(b)
  <2>1. Received(b)' = shown'[b] \o buffer'[b]
    BY DEF Received
  <2>2. CASE b \in B /\ Drawable(b)
    BY <1>1, <1>2, <2>1, <2>2, ConcatEmptySeq
  <2>3. CASE ~(b \in B /\ Drawable(b))
    BY <1>2, <2>1, <2>3 DEF Received
  <2> QED
    BY <2>2, <2>3
<1>6. ASSUME NEW b \in Block, buffer[b] = <<>> PROVE Received(b) = shown[b]
  BY <1>1, <1>6, ConcatEmptySeq DEF Received
<1> QED
  BY <1>2, <1>4, <1>5, <1>6

\* flush(): of every block that can be drawn.
LEMMA Flushing ==
  ASSUME TypeOK, Flush
  PROVE  /\ shown' \in [Block -> Seq(Nat)] /\ buffer' \in [Block -> Seq(Nat)]
         /\ \A b \in Block : Received(b)' = Received(b)
         /\ \A b \in Block : buffer'[b] = IF Drawable(b) THEN <<>> ELSE buffer[b]
         /\ \A b \in Block : buffer[b] = <<>> \/ ~Drawable(b) => shown'[b] = shown[b]
         /\ scheduled' = {} /\ finalized' = TRUE /\ callbacks' = callbacks
BY Drawing, Zenon DEF Flush

\* A delta is added to the buffer of its block, and to no other.
LEMMA Buffering ==
  ASSUME TypeOK, NEW b \in Block, NEW n \in Nat, Buffer(b, n)
  PROVE  /\ buffer' \in [Block -> Seq(Nat)]
         /\ Received(b)' = Append(Received(b), n)
         /\ \A c \in Block \ {b} : Received(c)' = Received(c) /\ buffer'[c] = buffer[c]
<1>1. \A c \in Block : shown[c] \in Seq(Nat) /\ buffer[c] \in Seq(Nat)
  BY ReceivedType
<1>2. /\ buffer' = [buffer EXCEPT ![b] = Append(buffer[b], n)] /\ shown' = shown
      /\ buffer \in [Block -> Seq(Nat)]
  BY DEF Buffer, TypeOK
<1>3. Append(buffer[b], n) \in Seq(Nat)
  BY <1>1, AppendProperties
<1>4. buffer' \in [Block -> Seq(Nat)]
  BY <1>2, <1>3
<1>5. Received(b)' = Append(Received(b), n)
  <2>1. Received(b)' = shown[b] \o Append(buffer[b], n)
    BY <1>2 DEF Received
  <2> QED
    BY <1>1, <2>1, ConcatAppend DEF Received
<1>6. \A c \in Block \ {b} : Received(c)' = Received(c) /\ buffer'[c] = buffer[c]
  BY <1>2 DEF Received
<1> QED
  BY <1>4, <1>5, <1>6

-----------------------------------------------------------------------------
(* The kinds of effect a step has on the drawing, and what each preserves. *)

\* The constants of the event types differ.
LEMMA Types ==
  /\ Block = {"text", "reasoning", "tool"}
  /\ StartOf["text"] = "text_start" /\ StartOf["reasoning"] = "reasoning_start"
  /\ EndOf["text"] = "text_end" /\ EndOf["reasoning"] = "reasoning_end" /\ EndOf["tool"] = "tool_end"
  /\ DeltaOf["text"] = "text_delta" /\ DeltaOf["reasoning"] = "reasoning_delta"
  /\ DeltaOf["tool"] = "tool_input_delta"
BY DEF Block, StartOf, EndOf, DeltaOf

\* A step that receives nothing.
LEMMA OrderKept ==
  ASSUME TypeOK, OrderInv, UNCHANGED server,
         lastSequence' \in Int, lastSequence' >= lastSequence,
         \A b \in Block : Received(b)' = Received(b)
  PROVE  OrderInv'
<1> SUFFICES ASSUME server = "canonical", NEW b \in Block
             PROVE  Increasing(Received(b)) /\ UpTo(Received(b), lastSequence')
  BY DEF OrderInv, Increasing, UpTo
<1>1. Increasing(Received(b)) /\ UpTo(Received(b), lastSequence)
  BY DEF OrderInv
<1>2. Received(b) \in Seq(Nat) /\ lastSequence \in Int
  BY ReceivedType DEF TypeOK
<1> QED
  BY <1>1, <1>2, UpToWeakens

\* A step that neither draws nor buffers.
LEMMA DrawingUnchanged ==
  ASSUME UNCHANGED drawing
  PROVE  /\ \A b \in Block : Received(b)' = Received(b)
         /\ shown' = shown /\ buffer' = buffer /\ scheduled' = scheduled
         /\ callbacks' = callbacks /\ finalized' = finalized
BY DEF drawing, Received

\* After a flush nothing waits but the input of a tool of unknown id.
LEMMA FlushLeaves ==
  ASSUME IInv, Flush
  PROVE  ClosedBlocksDrawn' /\ NothingStuck'
<1>1. \A b \in {"text", "reasoning"} : b \in Block /\ Drawable(b)
  BY DEF Block, Drawable
<1>2. \A b \in {"text", "reasoning"} : buffer'[b] = <<>>
  BY <1>1, Flushing DEF IInv
<1>3. scheduled' = {}
  BY DEF Flush
<1> QED
  BY <1>2, <1>3, Types DEF ClosedBlocksDrawn, NothingStuck

\* When messageEnd has been called nothing is left that could be drawn.
LEMMA EndedDrawn ==
  ASSUME IInv, NEW i \in DOMAIN outcomes, outcomes[i] = "end", NEW b \in Block
  PROVE  buffer[b] = <<>> \/ ~Drawable(b)
<1>1. open = {}
  BY DEF IInv, EndInv
<1>2. currentToolId = None
  BY <1>1 DEF IInv, OpenInv
<1> QED
  BY <1>1, <1>2, Types DEF IInv, ClosedBlocksDrawn, Drawable

\* A step that reports nothing.
LEMMA EndKept ==
  ASSUME IInv, UNCHANGED <<outcomes, server>>,
         terminal => terminal' /\ open' \subseteq open, sawCanonical => sawCanonical'
  PROVE  EndInv'
BY DEF IInv, EndInv

\* A step that reports an error.
LEMMA ErrorAdded ==
  ASSUME IInv, outcomes' = Append(outcomes, "error"), UNCHANGED <<server, open>>,
         terminal', sawCanonical => sawCanonical'
  PROVE  EndInv' /\ outcomes' \in Seq({"end", "error"})
<1>1. outcomes \in Seq({"end", "error"})
  BY DEF IInv, TypeOK
<1>2. /\ outcomes' \in Seq({"end", "error"})
      /\ DOMAIN outcomes = 1..Len(outcomes) /\ DOMAIN outcomes' = 1..(Len(outcomes) + 1)
      /\ Len(outcomes) \in Nat
      /\ outcomes'[Len(outcomes) + 1] = "error"
      /\ \A i \in 1..Len(outcomes) : outcomes'[i] = outcomes[i]
  BY <1>1, AppendProperties, LenProperties
<1>3. \A i \in DOMAIN outcomes' : outcomes'[i] = "end" => i \in DOMAIN outcomes /\ outcomes[i] = "end"
  BY <1>2
<1> QED
  BY <1>2, <1>3 DEF IInv, EndInv

\* A step that reports the end.
LEMMA EndAdded ==
  ASSUME IInv, outcomes' = Append(outcomes, "end"), UNCHANGED <<server, open>>,
         terminal', ~terminal, open = {}, server = "canonical" => sawCanonical'
  PROVE  EndInv' /\ outcomes' \in Seq({"end", "error"})
<1>1. outcomes \in Seq({"end", "error"})
  BY DEF IInv, TypeOK
<1>2. /\ outcomes' \in Seq({"end", "error"})
      /\ DOMAIN outcomes = 1..Len(outcomes) /\ DOMAIN outcomes' = 1..(Len(outcomes) + 1)
      /\ Len(outcomes) \in Nat
      /\ \A i \in 1..Len(outcomes) : outcomes'[i] = outcomes[i]
  BY <1>1, AppendProperties, LenProperties
<1>3. \A i \in DOMAIN outcomes : outcomes[i] # "end"
  BY DEF IInv, EndInv
<1>4. \A i \in DOMAIN outcomes' : outcomes'[i] = "end" => i = Len(outcomes) + 1
  BY <1>2, <1>3
<1> QED
  BY <1>2, <1>4 DEF EndInv

-----------------------------------------------------------------------------
(* The steps. *)

\* A controller that is new.
LEMMA InitInv == Init => IInv
<1> SUFFICES ASSUME Init PROVE IInv
  OBVIOUS
<1>1. <<>> \in Seq(Nat) /\ <<>> \in Seq({"end", "error"}) /\ DOMAIN <<>> = {}
  BY EmptySeq
<1>2. buffer \in [Block -> Seq(Nat)] /\ shown \in [Block -> Seq(Nat)] /\ callbacks \in [Block -> Nat]
  BY <1>1 DEF Init
<1>3. lastSequence \in -1..MaxSequence
  BY ControllerAssumption DEF Init
<1>4. TypeOK
  BY <1>1, <1>2, <1>3 DEF Init, TypeOK
<1>5. \A b \in Block : Received(b) = <<>>
  BY <1>1, ConcatEmptySeq DEF Init, Received
<1>6. OrderInv
  BY <1>1, <1>5 DEF OrderInv, Increasing, UpTo
<1>7. ClosedBlocksDrawn /\ NothingStuck /\ OpenInv /\ EndInv
  BY <1>1, Types DEF Init, ClosedBlocksDrawn, NothingStuck, OpenInv, EndInv
<1> QED
  BY <1>4, <1>6, <1>7 DEF IInv

\* What an event does before it is looked at.
LEMMA IdentityType ==
  ASSUME TypeOK, NEW e \in Event
  PROVE  /\ Learn(messageId, e.message) \in Identity \cup {None}
         /\ Learn(requestId, e.request) \in Identity \cup {None}
         /\ e.sequence \in 0..MaxSequence /\ e.sequence \in Nat /\ lastSequence \in Int
         /\ e.tool \in Tool \cup {None}
BY ControllerAssumption DEF Event, Learn, TypeOK

\* An event that is not for this response, or not the next.
LEMMA IgnoreStep ==
  ASSUME IInv, NEW e \in Event, Ignore(e), sawCanonical' = TRUE, UNCHANGED server
  PROVE  IInv'
<1>1. UNCHANGED <<progress, open, tools, drawing, outcomes>>
  BY DEF Ignore
<1>2. /\ lastSequence' = lastSequence /\ terminal' = terminal /\ started' = started
      /\ open' = open /\ currentToolId' = currentToolId /\ toolStarts' = toolStarts
      /\ outcomes' = outcomes
  BY <1>1 DEF progress, tools
<1>3. messageId' \in Identity \cup {None} /\ requestId' \in Identity \cup {None}
  BY IdentityType DEF IInv, TypeOK, Ignore, identity
<1>4. TypeOK'
  BY <1>1, <1>2, <1>3, DrawingUnchanged DEF IInv, TypeOK
<1>5. OrderInv'
  <2>1. lastSequence \in Int
    BY DEF IInv, TypeOK
  <2> QED
    BY <1>1, <1>2, <2>1, OrderKept, DrawingUnchanged DEF IInv
<1>6. EndInv'
  BY <1>2, EndKept
<1>7. ClosedBlocksDrawn' /\ NothingStuck' /\ OpenInv'
  BY <1>1, <1>2, DrawingUnchanged DEF IInv, ClosedBlocksDrawn, NothingStuck, OpenInv
<1> QED
  BY <1>4, <1>5, <1>6, <1>7 DEF IInv

\* requestAnimationFrame() calls back.
LEMMA CallbackStep ==
  ASSUME IInv, NEW b \in Block, Callback(b)
  PROVE  IInv'
<1> USE DEF IInv
<1>1. /\ Draw({b}) /\ callbacks[b] > 0 /\ callbacks' = [callbacks EXCEPT ![b] = callbacks[b] - 1]
      /\ scheduled' = scheduled \ {b} /\ finalized' = finalized
      /\ lastSequence' = lastSequence /\ terminal' = terminal /\ started' = started
      /\ messageId' = messageId /\ requestId' = requestId /\ sawCanonical' = sawCanonical
      /\ open' = open /\ currentToolId' = currentToolId /\ toolStarts' = toolStarts
      /\ outcomes' = outcomes /\ server' = server
  BY DEF Callback, progress, identity, tools
<1>2. /\ shown' \in [Block -> Seq(Nat)] /\ buffer' \in [Block -> Seq(Nat)]
      /\ \A c \in Block : Received(c)' = Received(c)
      /\ \A c \in Block : buffer'[c] = IF c \in {b} /\ Drawable(c) THEN <<>> ELSE buffer[c]
  BY <1>1, Drawing
<1>3. /\ callbacks' \in [Block -> Nat]
      /\ \A c \in Block \ {b} : callbacks'[c] = callbacks[c]
  BY <1>1 DEF TypeOK
<1>4. TypeOK'
  BY <1>1, <1>2, <1>3 DEF TypeOK
<1>5. OrderInv'
  <2>1. lastSequence \in Int
    BY DEF TypeOK
  <2> QED
    BY <1>1, <1>2, <2>1, OrderKept
<1>6. EndInv'
  BY <1>1, EndKept
<1>7. OpenInv'
  BY <1>1 DEF OpenInv
<1>8. ClosedBlocksDrawn'
  BY <1>1, <1>2, Types DEF ClosedBlocksDrawn
<1>9. NothingStuck'
  BY <1>1, <1>2, <1>3, Types DEF NothingStuck, Drawable
<1> QED
  BY <1>4, <1>5, <1>6, <1>7, <1>8, <1>9

\* What holds of every event that is accepted.
Accepted(e) ==
  /\ lastSequence' = e.sequence /\ lastSequence' > lastSequence
  /\ messageId' \in Identity \cup {None} /\ requestId' \in Identity \cup {None}
  /\ sawCanonical' = TRUE /\ server' = server /\ server = "canonical"

\* An event that is taken and holds no content.
LEMMA AcceptOrder ==
  ASSUME IInv, NEW e \in Event, Accepted(e), \A b \in Block : Received(b)' = Received(b)
  PROVE  OrderInv'
<1>1. lastSequence \in Int /\ e.sequence \in Int
  BY IdentityType DEF IInv
<1>2. lastSequence' \in Int /\ lastSequence' >= lastSequence
  BY <1>1 DEF Accepted
<1> QED
  BY <1>2, OrderKept DEF IInv, Accepted

\* Events that open blocks or change nothing.
LEMMA OpeningStep ==
  ASSUME IInv, NEW e \in Event, Accepted(e),
         MessageStart(e) \/ BlockStart(e) \/ ToolStart(e) \/ Other(e), ~terminal
  PROVE  IInv'
<1> USE DEF IInv
<1>1. /\ UNCHANGED drawing /\ terminal' = terminal /\ outcomes' = outcomes
      /\ started' \in BOOLEAN
  BY DEF MessageStart, BlockStart, ToolStart, Other, TypeOK
<1>2. /\ open \subseteq open' /\ open' \subseteq Block
      /\ currentToolId' \in Tool \cup {None} /\ toolStarts' \in Nat
      /\ currentToolId' # None => "tool" \in open'
  <2>1. CASE MessageStart(e) \/ Other(e)
    BY <2>1 DEF MessageStart, Other, TypeOK, OpenInv, tools
  <2>2. CASE BlockStart(e)
    BY <2>2, Types DEF BlockStart, TypeOK, OpenInv, tools
  <2>3. CASE ToolStart(e)
    <3>1. CASE UNCHANGED <<open, tools>>
      BY <3>1 DEF TypeOK, OpenInv, tools
    <3>2. CASE /\ open' = open \cup {"tool"} /\ currentToolId' = e.tool
               /\ toolStarts' = toolStarts + 1
      <4>1. e.tool \in Tool \cup {None}
        BY IdentityType
      <4> QED
        BY <3>2, <4>1, Types DEF TypeOK
    <3> QED
      BY <2>3, <3>1, <3>2 DEF ToolStart
  <2> QED
    BY <2>1, <2>2, <2>3
<1>3. /\ shown' = shown /\ buffer' = buffer /\ scheduled' = scheduled
      /\ callbacks' = callbacks /\ finalized' = finalized
      /\ \A b \in Block : Received(b)' = Received(b)
  BY <1>1, DrawingUnchanged
<1>4. TypeOK'
  <2>1. e.sequence \in -1..MaxSequence
    BY IdentityType, ControllerAssumption
  <2> QED
    BY <1>1, <1>2, <1>3, <2>1 DEF TypeOK, Accepted
<1>5. OrderInv'
  BY <1>3, AcceptOrder
<1>6. EndInv'
  BY <1>1 DEF EndInv
<1>7. OpenInv'
  BY <1>2 DEF OpenInv, Accepted
<1>8. ClosedBlocksDrawn' /\ NothingStuck'
  BY <1>2, <1>3 DEF ClosedBlocksDrawn, NothingStuck
<1> QED
  BY <1>4, <1>5, <1>6, <1>7, <1>8

\* A delta.
LEMMA DeltaStep ==
  ASSUME IInv, NEW e \in Event, Accepted(e), Delta(e)
  PROVE  IInv'
<1> USE DEF IInv
<1>1. /\ terminal' = terminal /\ started' = started /\ open' = open /\ outcomes' = outcomes
      /\ currentToolId' = currentToolId /\ toolStarts' = toolStarts
  BY DEF Delta, tools
<1>2. EndInv'
  BY <1>1, EndKept DEF Accepted
<1>3. OpenInv'
  BY <1>1 DEF OpenInv, Accepted
<1>4. e.sequence \in Nat /\ lastSequence \in Int /\ e.sequence \in -1..MaxSequence
  BY IdentityType, ControllerAssumption
<1>5. PICK b \in Block : IF b \in open /\ ~e.empty THEN Buffer(b, e.sequence) ELSE UNCHANGED drawing
  BY DEF Delta
<1>6. CASE UNCHANGED drawing
  <2>1. /\ shown' = shown /\ buffer' = buffer /\ scheduled' = scheduled
        /\ callbacks' = callbacks /\ finalized' = finalized
        /\ \A c \in Block : Received(c)' = Received(c)
    BY <1>6, DrawingUnchanged
  <2>2. TypeOK'
    BY <1>1, <1>4, <2>1 DEF TypeOK, Accepted
  <2>3. OrderInv'
    BY <2>1, AcceptOrder
  <2>4. ClosedBlocksDrawn' /\ NothingStuck'
    BY <1>1, <2>1 DEF ClosedBlocksDrawn, NothingStuck
  <2> QED
    BY <1>2, <1>3, <2>2, <2>3, <2>4
<1>7. CASE b \in open /\ Buffer(b, e.sequence)
  <2>1. /\ scheduled' = scheduled \cup {b} /\ shown' = shown /\ finalized' = finalized
        /\ callbacks' = IF b \in scheduled THEN callbacks
                        ELSE [callbacks EXCEPT ![b] = callbacks[b] + 1]
    BY <1>7 DEF Buffer
  <2>2. /\ buffer' \in [Block -> Seq(Nat)]
        /\ Received(b)' = Append(Received(b), e.sequence)
        /\ \A c \in Block \ {b} : Received(c)' = Received(c) /\ buffer'[c] = buffer[c]
    BY <1>4, <1>7, Buffering
  <2>3. /\ callbacks' \in [Block -> Nat]
        /\ \A c \in Block \ {b} : callbacks'[c] = callbacks[c]
        /\ b \notin scheduled => callbacks'[b] > 0
        /\ b \in scheduled => callbacks'[b] = callbacks[b]
    BY <2>1 DEF TypeOK
  <2>4. TypeOK'
    BY <1>1, <1>4, <2>1, <2>2, <2>3 DEF TypeOK, Accepted
  <2>5. OrderInv'
    <3> SUFFICES ASSUME NEW c \in Block
                 PROVE  Increasing(Received(c)') /\ UpTo(Received(c)', e.sequence)
      BY DEF OrderInv, Increasing, UpTo, Accepted
    <3>1. Increasing(Received(c)) /\ UpTo(Received(c), lastSequence) /\ Received(c) \in Seq(Nat)
      BY ReceivedType DEF OrderInv, Accepted
    <3>2. lastSequence < e.sequence
      BY <1>4 DEF Accepted
    <3>3. CASE c = b
      BY <1>4, <2>2, <3>1, <3>2, <3>3, AppendedInOrder
    <3>4. CASE c # b
      <4>1. UpTo(Received(c), e.sequence)
        BY <1>4, <3>1, <3>2, UpToWeakens
      <4> QED
        BY <2>2, <3>1, <3>4, <4>1
    <3> QED
      BY <3>3, <3>4
  <2>6. ClosedBlocksDrawn'
    BY <1>1, <1>7, <2>2, Types DEF ClosedBlocksDrawn
  <2>7. NothingStuck'
    <3> SUFFICES ASSUME NEW c \in Block
                 PROVE  /\ c \in scheduled' => callbacks'[c] > 0
                        /\ c # "tool" /\ buffer'[c] # <<>> => c \in scheduled'
      BY DEF NothingStuck
    <3>1. /\ c \in scheduled => callbacks[c] > 0
          /\ c # "tool" /\ buffer[c] # <<>> => c \in scheduled
      BY DEF NothingStuck
    <3> QED
      BY <2>1, <2>2, <2>3, <3>1
  <2> QED
    BY <1>2, <1>3, <2>4, <2>5, <2>6, <2>7
<1> QED
  BY <1>5, <1>6, <1>7

\* The end of a block.
LEMMA BlockEndStep ==
  ASSUME IInv, NEW e \in Event, Accepted(e), BlockEnd(e)
  PROVE  IInv'
<1> USE DEF IInv
<1>1. terminal' = terminal /\ started' = started /\ outcomes' = outcomes /\ toolStarts' = toolStarts
  BY DEF BlockEnd
<1>2. PICK b \in Block : /\ open' = open \ {b}
                         /\ currentToolId' = IF b = "tool" THEN None ELSE currentToolId
                         /\ IF b \in open THEN Flush ELSE UNCHANGED drawing
  BY DEF BlockEnd
<1>3. EndInv'
  BY <1>1, <1>2, EndKept DEF Accepted
<1>4. OpenInv'
  BY <1>2 DEF OpenInv, Accepted
<1>5. e.sequence \in -1..MaxSequence
  BY IdentityType, ControllerAssumption
<1>6. /\ shown' \in [Block -> Seq(Nat)] /\ buffer' \in [Block -> Seq(Nat)]
      /\ scheduled' \subseteq Block /\ finalized' \in BOOLEAN /\ callbacks' = callbacks
      /\ \A c \in Block : Received(c)' = Received(c)
      /\ \A c \in Block : buffer'[c] = <<>> \/ buffer'[c] = buffer[c]
  <2>1. CASE Flush
    BY <2>1, Flushing
  <2>2. CASE UNCHANGED drawing
    BY <2>2, DrawingUnchanged DEF TypeOK
  <2> QED
    BY <1>2, <2>1, <2>2
<1>7. TypeOK'
  BY <1>1, <1>2, <1>5, <1>6 DEF TypeOK, Accepted
<1>8. OrderInv'
  BY <1>6, AcceptOrder
<1>9. ClosedBlocksDrawn' /\ NothingStuck'
  <2>1. CASE b \in open /\ Flush
    <3>1. \A c \in {"text", "reasoning"} : buffer'[c] = <<>>
      BY <2>1, Flushing, Types DEF Drawable
    <3>2. scheduled' = {}
      BY <2>1 DEF Flush
    <3> QED
      BY <3>1, <3>2, Types DEF ClosedBlocksDrawn, NothingStuck
  <2>2. CASE b \notin open /\ UNCHANGED drawing
    BY <1>2, <2>2, DrawingUnchanged DEF ClosedBlocksDrawn, NothingStuck
  <2> QED
    BY <1>2, <2>1, <2>2
<1> QED
  BY <1>3, <1>4, <1>7, <1>8, <1>9

\* What every flush keeps, whatever else the step does.
LEMMA FlushKeeps ==
  ASSUME IInv, Flush
  PROVE  /\ shown' \in [Block -> Seq(Nat)] /\ buffer' \in [Block -> Seq(Nat)]
         /\ scheduled' \subseteq Block /\ finalized' \in BOOLEAN /\ callbacks' \in [Block -> Nat]
         /\ \A c \in Block : Received(c)' = Received(c)
         /\ ClosedBlocksDrawn' /\ NothingStuck'
BY Flushing, FlushLeaves DEF IInv, TypeOK

\* What a step that leaves the drawing and the open blocks alone keeps.
LEMMA StillKeeps ==
  ASSUME IInv, UNCHANGED drawing, UNCHANGED open
  PROVE  /\ shown' \in [Block -> Seq(Nat)] /\ buffer' \in [Block -> Seq(Nat)]
         /\ scheduled' \subseteq Block /\ finalized' \in BOOLEAN /\ callbacks' \in [Block -> Nat]
         /\ \A c \in Block : Received(c)' = Received(c)
         /\ ClosedBlocksDrawn' /\ NothingStuck'
BY DrawingUnchanged DEF IInv, TypeOK, ClosedBlocksDrawn, NothingStuck

\* message_end or error.
LEMMA EndingStep ==
  ASSUME IInv, NEW e \in Event, Accepted(e),
         (MessageEnd(e) /\ ~terminal) \/ Error(e)
  PROVE  IInv'
<1>1. terminal' = TRUE /\ UNCHANGED <<started, open, tools>>
  BY DEF MessageEnd, Error
<1>2. Flush \/ UNCHANGED drawing
  BY DEF MessageEnd, Error
<1>3. /\ shown' \in [Block -> Seq(Nat)] /\ buffer' \in [Block -> Seq(Nat)]
      /\ scheduled' \subseteq Block /\ finalized' \in BOOLEAN /\ callbacks' \in [Block -> Nat]
      /\ \A c \in Block : Received(c)' = Received(c)
      /\ ClosedBlocksDrawn' /\ NothingStuck'
  BY <1>1, <1>2, FlushKeeps, StillKeeps
<1>4. EndInv' /\ outcomes' \in Seq({"end", "error"})
  <2>1. CASE outcomes' = Append(outcomes, "error")
    BY <1>1, <2>1, ErrorAdded DEF Accepted
  <2>2. CASE outcomes' = Append(outcomes, "end") /\ open = {} /\ ~terminal
    BY <1>1, <2>2, EndAdded DEF Accepted
  <2> QED
    BY <2>1, <2>2 DEF MessageEnd, Error
<1>5. TypeOK'
  <2>1. e.sequence \in -1..MaxSequence
    BY IdentityType, ControllerAssumption DEF IInv
  <2> QED
    BY <1>1, <1>3, <1>4, <2>1 DEF IInv, TypeOK, Accepted, tools
<1>6. OrderInv'
  BY <1>3, AcceptOrder
<1>7. OpenInv'
  BY <1>1 DEF IInv, OpenInv, Accepted, tools
<1> QED
  BY <1>3, <1>4, <1>5, <1>6, <1>7 DEF IInv

\* Every canonical event.
LEMMA CanonicalStep ==
  ASSUME IInv, server = "canonical", NEW e \in Event, HandleCanonical(e)
  PROVE  IInv'
<1>1. sawCanonical' = TRUE /\ UNCHANGED server
  BY DEF HandleCanonical
<1>2. CASE Ignore(e)
  BY <1>1, <1>2, IgnoreStep
<1>3. CASE Accept(e)
  <2>1. Accepted(e)
    BY <1>1, <1>3, IdentityType DEF IInv, Accept, Accepted
  <2>2. e.type = "error" \/ ~terminal
    BY <1>3 DEF Accept, Foreign
  <2>3. CASE e.type = "error"
    <3>1. Error(e)
      BY <1>3, <2>3, Types
         DEF Accept, MessageStart, BlockStart, ToolStart, Delta, BlockEnd, MessageEnd, Error, Other
    <3> QED
      BY <2>1, <3>1, EndingStep
  <2>4. CASE ~terminal
    BY <1>3, <2>1, <2>4, OpeningStep, DeltaStep, BlockEndStep, EndingStep DEF Accept
  <2> QED
    BY <2>2, <2>3, <2>4
<1> QED
  BY <1>2, <1>3 DEF HandleCanonical

\* A frame that leaves identity and blocks alone and ends the response.
LEMMA LegacyEnd ==
  ASSUME IInv, UNCHANGED <<lastSequence, started, sawCanonical, identity, open, tools, server>>,
         terminal' \in BOOLEAN, Flush \/ UNCHANGED drawing,
         EndInv', outcomes' \in Seq({"end", "error"})
  PROVE  IInv'
<1>1. /\ shown' \in [Block -> Seq(Nat)] /\ buffer' \in [Block -> Seq(Nat)]
      /\ scheduled' \subseteq Block /\ finalized' \in BOOLEAN /\ callbacks' \in [Block -> Nat]
      /\ \A c \in Block : Received(c)' = Received(c)
      /\ ClosedBlocksDrawn' /\ NothingStuck'
  BY FlushKeeps, StillKeeps
<1>2. TypeOK'
  BY <1>1 DEF IInv, TypeOK, identity, tools
<1>3. OrderInv'
  <2>1. lastSequence \in Int
    BY DEF IInv, TypeOK
  <2> QED
    BY <1>1, <2>1, OrderKept DEF IInv
<1>4. OpenInv'
  BY DEF IInv, OpenInv, tools
<1> QED
  BY <1>1, <1>2, <1>3, <1>4 DEF IInv

\* A token of the older protocol.
LEMMA TokenStep ==
  ASSUME IInv, LegacyToken(0), server = "canonical" => sawCanonical
  PROVE  IInv'
<1>1. UNCHANGED <<progress, sawCanonical, identity, open, tools, buffer, scheduled,
                  finalized, callbacks, outcomes, server>>
  BY DEF LegacyToken
<1>2. CASE sawCanonical
  <2>1. UNCHANGED drawing
    BY <1>1, <1>2 DEF LegacyToken, drawing
  <2>2. EndInv' /\ outcomes' \in Seq({"end", "error"}) /\ terminal' \in BOOLEAN
    BY <1>1, EndKept DEF IInv, TypeOK, progress
  <2> QED
    BY <1>1, <2>1, <2>2, LegacyEnd DEF progress
<1>3. CASE ~sawCanonical
  <2>1. shown' = [shown EXCEPT !["text"] = Append(shown["text"], 0)]
    BY <1>3 DEF LegacyToken
  <2>2. shown \in [Block -> Seq(Nat)] /\ Append(shown["text"], 0) \in Seq(Nat)
    BY Types, AppendProperties DEF IInv, TypeOK
  <2>3. shown' \in [Block -> Seq(Nat)]
    BY <2>1, <2>2
  <2>4. TypeOK'
    BY <1>1, <2>3 DEF IInv, TypeOK, progress, identity, tools
  <2>5. OrderInv'
    BY <1>1, <1>3 DEF OrderInv
  <2>6. EndInv'
    BY <1>1, EndKept DEF progress
  <2>7. ClosedBlocksDrawn' /\ NothingStuck' /\ OpenInv'
    BY <1>1 DEF IInv, ClosedBlocksDrawn, NothingStuck, OpenInv, tools
  <2> QED
    BY <2>4, <2>5, <2>6, <2>7 DEF IInv
<1> QED
  BY <1>2, <1>3

\* LegacyDone and LegacyError, and Malformed frames.
LEMMA TerminalFrame ==
  ASSUME IInv, server = "legacy" => ~terminal,
         \/ Malformed \/ LegacyError
         \/ LegacyDone /\ (server = "canonical" => sawCanonical)
  PROVE  IInv'
<1>1. UNCHANGED <<lastSequence, started, sawCanonical, identity, open, tools, server>>
  BY DEF Malformed, LegacyError, LegacyDone
<1>2. (Flush \/ UNCHANGED drawing) /\ terminal' \in BOOLEAN
  BY DEF IInv, TypeOK, Malformed, LegacyError, LegacyDone
<1>3. EndInv' /\ outcomes' \in Seq({"end", "error"})
  <2>1. CASE Malformed \/ LegacyError
    BY <1>1, <2>1, ErrorAdded DEF Malformed, LegacyError
  <2>2. CASE LegacyDone /\ sawCanonical
    BY <1>1, <2>2, EndKept DEF IInv, TypeOK, LegacyDone
  <2>3. CASE LegacyDone /\ ~sawCanonical /\ server # "canonical"
    <3>1. server = "legacy"
      BY <2>3 DEF IInv, TypeOK
    <3>2. open = {} /\ ~terminal
      BY <3>1 DEF IInv, OpenInv
    <3> QED
      BY <1>1, <2>3, <3>1, <3>2, EndAdded DEF LegacyDone
  <2> QED
    BY <2>1, <2>2, <2>3
<1> QED
  BY <1>1, <1>2, <1>3, LegacyEnd

\* Nothing.
LEMMA StutterStep ==
  ASSUME IInv, UNCHANGED vars
  PROVE  IInv'
BY DEF IInv, vars, progress, identity, drawing, tools, TypeOK, OrderInv, Received,
       ClosedBlocksDrawn, NothingStuck, OpenInv, EndInv

-----------------------------------------------------------------------------
(* The theorems. *)

\* The strengthening of the invariants is inductive.
THEOREM Invariance == Spec => []IInv
<1>1. IInv /\ [Next]_vars => IInv'
  <2> SUFFICES ASSUME IInv, [Next]_vars PROVE IInv'
    OBVIOUS
  <2>1. CASE Receive
    <3>1. CASE server = "canonical" /\ \E e \in Event : HandleCanonical(e)
      BY <3>1, CanonicalStep
    <3>2. CASE server = "canonical" /\ Malformed
      BY <3>2, TerminalFrame
    <3>3. CASE server = "canonical" /\ sawCanonical /\ (LegacyToken(0) \/ LegacyDone \/ LegacyError)
      BY <3>3, TokenStep, TerminalFrame
    <3>4. CASE server = "legacy" /\ ~terminal /\ (LegacyToken(0) \/ LegacyDone \/ LegacyError)
      BY <3>4, TokenStep, TerminalFrame
    <3> QED
      BY <2>1, <3>1, <3>2, <3>3, <3>4 DEF Receive
  <2>2. CASE \E b \in Block : Callback(b)
    BY <2>2, CallbackStep
  <2>3. CASE UNCHANGED vars
    BY <2>3, StutterStep
  <2> QED
    BY <2>1, <2>2, <2>3 DEF Next
<1> QED
  BY InitInv, <1>1, PTL DEF Spec

\* Every variable of the controller keeps its type.
THEOREM TypeInvariant == Spec => []TypeOK
BY Invariance, PTL DEF IInv

\* Whatever frames are repeated, delayed or foreign and whenever callbacks run,
\* the page and the buffer of a block hold increasing deltas, each once.
THEOREM PageInOrder == Spec => []InOrder
<1>1. OrderInv => InOrder
  BY DEF OrderInv, InOrder, Increasing
<1> QED
  BY Invariance, <1>1, PTL DEF IInv

\* The text and the reasoning of a closed block are on the page.
THEOREM ClosedBlocksAreDrawn == Spec => []ClosedBlocksDrawn
BY Invariance, PTL DEF IInv

\* A buffer that holds anything has a callback coming for it.
THEOREM NothingIsStuck == Spec => []NothingStuck
BY Invariance, PTL DEF IInv

\* After messageEnd nothing is drawn any more and messageEnd is not called again.
THEOREM QuietAfterEnd == Spec => NothingAfterEnd
<1>1. IInv /\ [Next]_vars /\ IInv' =>
        [\A i \in DOMAIN outcomes : outcomes[i] = "end" =>
           /\ shown' = shown
           /\ \A j \in DOMAIN outcomes' : j # i => outcomes'[j] # "end"]_vars
  <2> SUFFICES ASSUME IInv, Next, IInv', NEW i \in DOMAIN outcomes, outcomes[i] = "end"
               PROVE  /\ shown' = shown
                      /\ \A j \in DOMAIN outcomes' : j # i => outcomes'[j] # "end"
    OBVIOUS
  <2>1. \A b \in Block : buffer[b] = <<>> \/ ~Drawable(b)
    BY EndedDrawn
  <2>2. ASSUME NEW B, Draw(B) PROVE shown' = shown
    <3>1. shown' \in [Block -> Seq(Nat)] /\ \A b \in Block : shown'[b] = shown[b]
      BY <2>1, <2>2, Drawing DEF IInv
    <3> QED
      BY <3>1 DEF IInv, TypeOK
  <2>3. terminal /\ (server = "canonical" => sawCanonical)
    BY DEF IInv, EndInv
  <2>4. shown' = shown
    <3>1. CASE UNCHANGED drawing
      BY <3>1 DEF drawing
    <3>2. CASE Flush
      BY <2>2, <3>2 DEF Flush
    <3>3. CASE \E b \in Block : Callback(b)
      BY <2>2, <3>3 DEF Callback
    <3>4. CASE Receive
      <4>1. ASSUME NEW e \in Event, HandleCanonical(e) PROVE shown' = shown
        <5>1. CASE Ignore(e)
          BY <3>1, <5>1 DEF Ignore
        <5>2. CASE Accept(e)
          <6>1. Error(e)
            BY <2>3, <5>2, Types
               DEF Accept, Foreign, MessageStart, BlockStart, ToolStart, Delta, BlockEnd,
                   MessageEnd, Error, Other
          <6> QED
            BY <3>2, <6>1 DEF Error
        <5> QED
          BY <4>1, <5>1, <5>2 DEF HandleCanonical
      <4>2. CASE Malformed \/ LegacyDone \/ LegacyError
        BY <3>1, <3>2, <4>2 DEF Malformed, LegacyDone, LegacyError
      <4>3. CASE sawCanonical /\ LegacyToken(0)
        BY <4>3 DEF LegacyToken
      <4> QED
        BY <2>3, <3>4, <4>1, <4>2, <4>3 DEF Receive
    <3> QED
      BY <3>3, <3>4 DEF Next
  <2>5. i \in DOMAIN outcomes' /\ outcomes'[i] = "end"
    <3>1. \/ outcomes' = outcomes
          \/ outcomes' = Append(outcomes, "end") \/ outcomes' = Append(outcomes, "error")
      <4>1. ASSUME NEW e \in Event, HandleCanonical(e)
            PROVE  \/ outcomes' = outcomes
                   \/ outcomes' = Append(outcomes, "end") \/ outcomes' = Append(outcomes, "error")
        BY <4>1 DEF HandleCanonical, Ignore, Accept, MessageStart, BlockStart, ToolStart, Delta,
                    BlockEnd, MessageEnd, Error, Other
      <4>2. ASSUME NEW b \in Block, Callback(b) PROVE outcomes' = outcomes
        BY <4>2 DEF Callback
      <4> QED
        BY <4>1, <4>2 DEF Next, Receive, Malformed, LegacyToken, LegacyDone, LegacyError
    <3>2. outcomes \in Seq({"end", "error"})
      BY DEF IInv, TypeOK
    <3> QED
      BY SMTT(30), <3>1, <3>2, AppendProperties, LenProperties
  <2>6. \A j \in DOMAIN outcomes' : j # i => outcomes'[j] # "end"
    BY <2>5 DEF IInv, EndInv
  <2> QED
    BY <2>4, <2>6
<1> QED
  BY Invariance, <1>1, PTL DEF Spec, NothingAfterEnd
=============================================================================
