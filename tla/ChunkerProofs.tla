--------------------------- MODULE ChunkerProofs ---------------------------
(***************************************************************************)
(* Proofs about Chunker, for every length of a text, every chunk size and  *)
(* every overlap smaller than it.  The invariant of the loop says how the  *)
(* last chunk relates to start_char: without fragments it started one      *)
(* stride before, and once there is a fragment every window is one.        *)
(***************************************************************************)
EXTENDS Chunker, TLAPS

z == Len(chunks)

Loops == pc = "cut" =>
    /\ Tokens(len) > tokens
    /\ chunks = << >> => at = 0
    /\ chunks # << >> =>
        /\ chunks[z].to = Least(chunks[z].from + size, len)
        /\ chunks[z].also = {} => chunks[z].from = at - stride
        /\ chunks[z].also # {} => len - at < CharsPerToken * MinTokens
    /\ \A p \in 0 .. len - 1 : p < at => \E i \in DOMAIN chunks : Covers(chunks[i], p)

Starts == pc = "called" => at = 0 /\ chunks = << >>

IInv == TypeOK /\ Starts /\ Loops /\ SizesAreKept /\ NeighboursOverlap /\ NothingIsLost

-----------------------------------------------------------------------------
\* What an action needs to know of the lengths it computes with.
LEMMA Lengths ==
    ASSUME TypeOK
    PROVE  /\ size \in Nat /\ stride \in Nat /\ 0 < stride /\ stride <= size
           /\ MinTokens * CharsPerToken <= size
           /\ MinTokens <= tokens /\ tokens \in Nat /\ MinTokens \in Nat \ {0}
           /\ len \in 0 .. MaxLen /\ len \in Nat /\ at \in Nat /\ overlap \in Nat
           /\ overlap < size
BY TokensAssumption, MaxLenAssumption DEF TypeOK, Called, size, stride, CharsPerToken

LEMMA Rounding ==
    ASSUME NEW n \in Nat, NEW m \in Nat
    PROVE  /\ Tokens(n) < m <=> n < m * CharsPerToken
           /\ Tokens(n) \in Nat
BY DEF Tokens, CharsPerToken

\* A window that is a fragment reaches the end of the text, and is never the
\* first one of a text that is cut.
LEMMA FragmentEnds ==
    ASSUME TypeOK, at < len
    PROVE  /\ WindowEnd \in at + 1 .. len
           /\ WindowEnd - at <= size
           /\ IsFragment <=> WindowEnd - at < MinTokens * CharsPerToken
           /\ IsFragment => WindowEnd = len
           /\ IsFragment /\ Tokens(len) > tokens => at > 0
           /\ WindowEnd < at + stride => WindowEnd = len
           /\ ~IsFragment => Tokens(WindowEnd - at) \in MinTokens .. tokens
<1>1. /\ WindowEnd \in at + 1 .. len
      /\ WindowEnd - at <= size
      /\ WindowEnd = len \/ WindowEnd = at + size
  BY Lengths DEF WindowEnd, Least
<1>2. WindowEnd - at \in Nat
  BY <1>1, Lengths
<1>3. IsFragment <=> WindowEnd - at < MinTokens * CharsPerToken
  BY <1>2, Lengths, Rounding DEF IsFragment
<1>4. IsFragment => WindowEnd = len
  BY <1>1, <1>3, Lengths DEF CharsPerToken
<1>5. Tokens(len) > tokens => len > size
  BY Lengths, Rounding DEF Tokens, CharsPerToken, size
<1>6. IsFragment /\ Tokens(len) > tokens => at > 0
  BY <1>1, <1>3, <1>4, <1>5, Lengths DEF CharsPerToken
<1>7. ~IsFragment => Tokens(WindowEnd - at) \in MinTokens .. tokens
  <2>1. Tokens(WindowEnd - at) < tokens + 1
    BY <1>1, <1>2, Lengths, Rounding DEF size, CharsPerToken
  <2> QED
    BY <2>1, <1>2, Lengths, Rounding DEF IsFragment
<1> QED
  BY <1>1, <1>3, <1>4, <1>6, <1>7, Lengths DEF CharsPerToken

-----------------------------------------------------------------------------
LEMMA InitOK == Init => IInv
BY Lengths DEF Init, IInv, TypeOK, Called, Starts, Loops, SizesAreKept, NeighboursOverlap,
   NothingIsLost, Chunk

\* One more chunk is cut from the window at start_char.
LEMMA CutStep == IInv /\ CutChunk => IInv'
<1> SUFFICES ASSUME IInv, CutChunk PROVE IInv'
  OBVIOUS
<1> DEFINE c == [from |-> at, to |-> WindowEnd, also |-> {}]
<1>1. TypeOK /\ Loops /\ SizesAreKept /\ NeighboursOverlap
  BY DEF IInv
<1>2. /\ pc = "cut" /\ pc' = "cut" /\ at < len /\ ~IsFragment
      /\ chunks' = Append(chunks, c) /\ at' = at + stride
      /\ len' = len /\ tokens' = tokens /\ overlap' = overlap
      /\ size' = size /\ stride' = stride
  BY DEF CutChunk, Advance, call, size, stride
<1>3. /\ WindowEnd \in at + 1 .. len /\ WindowEnd - at <= size
      /\ Tokens(WindowEnd - at) \in MinTokens .. tokens
      /\ WindowEnd < at + stride => WindowEnd = len
  BY <1>1, <1>2, FragmentEnds
<1>4. chunks \in Seq(Chunk) /\ c \in Chunk
  <2>1. at \in Positions /\ WindowEnd \in Positions
    BY <1>1, <1>2, <1>3, Lengths, MaxLenAssumption DEF Positions
  <2> QED
    BY <1>1, <2>1 DEF TypeOK, Chunk
<1>5. /\ z \in Nat /\ Len(chunks') = z + 1 /\ DOMAIN chunks' = 1 .. z + 1
      /\ DOMAIN chunks = 1 .. z
      /\ \A i \in 1 .. z : chunks'[i] = chunks[i] /\ chunks[i] \in Chunk
      /\ chunks'[z + 1] = c
      /\ chunks = << >> <=> z = 0
      /\ chunks' # << >>
  BY <1>2, <1>4 DEF z
<1> HIDE DEF c
<1>6. c.from = at /\ c.to = WindowEnd /\ c.also = {}
  BY DEF c
<1>7. TypeOK'
  BY <1>1, <1>2, <1>4, Lengths DEF TypeOK, Called
<1>8. Starts' /\ NothingIsLost'
  BY <1>2 DEF Starts, NothingIsLost
<1>9. Loops'
  <2>1. Tokens(len)' > tokens'
    BY <1>1, <1>2 DEF Loops
  <2>2. z' = z + 1 /\ c.to = Least(c.from + size, len)
    BY <1>5, <1>6 DEF z, WindowEnd
  <2>3. c.from = at' - stride
    BY <1>1, <1>2, <1>6, Lengths
  <2>4. ASSUME NEW p \in 0 .. len - 1, p < at'
        PROVE  \E i \in DOMAIN chunks' : Covers(chunks'[i], p)
    <3>1. CASE p < at
      <4>1. PICK i \in 1 .. z : Covers(chunks[i], p)
        BY <1>1, <1>2, <1>5, <3>1 DEF Loops
      <4> QED
        BY <4>1, <1>5
    <3>2. CASE p >= at
      <4>1. Between(p, c.from, c.to)
        BY <1>1, <1>2, <1>3, <1>6, <2>4, <3>2, Lengths DEF Between
      <4> QED
        BY <4>1, <1>5 DEF Covers
    <3> QED
      BY <3>1, <3>2, <1>1, Lengths
  <2> QED
    BY <1>2, <1>5, <1>6, <2>1, <2>2, <2>3, <2>4 DEF Loops
<1>10. chunks # << >> => chunks[z].also = {}
  BY <1>1, <1>2, <1>3, FragmentEnds, Lengths DEF Loops, IsFragment, CharsPerToken, WindowEnd, Least
<1>11. SizesAreKept'
  BY <1>1, <1>2, <1>3, <1>5, <1>6, <1>10 DEF SizesAreKept, z
<1>12. NeighboursOverlap'
  <2>1. ASSUME z > 0
        PROVE  /\ chunks[z].from < c.from
               /\ chunks[z].to - c.from = Least(overlap, c.to - c.from)
    <3>1. chunks[z].from = at - stride /\ chunks[z].to = Least(chunks[z].from + size, len)
      BY <1>1, <1>2, <1>5, <1>10, <2>1 DEF Loops
    <3> QED
      BY <3>1, <1>1, <1>2, <1>6, Lengths DEF Least, WindowEnd, stride
  <2>2. ASSUME NEW i \in 1 .. z
        PROVE  /\ chunks'[i].from < chunks'[i + 1].from
               /\ chunks'[i].to - chunks'[i + 1].from
                    = Least(overlap, chunks'[i + 1].to - chunks'[i + 1].from)
    <3>1. CASE i = z
      BY <3>1, <2>1, <1>5
    <3>2. CASE i # z
      <4>1. i \in 1 .. z - 1 /\ i + 1 \in 1 .. z
        BY <3>2, <1>5
      <4>2. /\ chunks[i].from < chunks[i + 1].from
            /\ chunks[i].to - chunks[i + 1].from
                 = Least(overlap, chunks[i + 1].to - chunks[i + 1].from)
        BY <4>1, <1>1 DEF NeighboursOverlap, z
      <4> QED
        BY <4>1, <4>2, <1>5
    <3> QED
      BY <3>1, <3>2
  <2> QED
    BY <2>2, <1>2, <1>5 DEF NeighboursOverlap
<1> QED
  BY <1>7, <1>8, <1>9, <1>11, <1>12 DEF IInv

\* A fragment is appended to the last chunk.
LEMMA FragmentStep == IInv /\ AppendFragment => IInv'
<1> SUFFICES ASSUME IInv, AppendFragment PROVE IInv'
  OBVIOUS
<1> DEFINE more == chunks[z].also \cup {<<at, WindowEnd>>}
<1>1. TypeOK /\ Loops /\ SizesAreKept /\ NeighboursOverlap
  BY DEF IInv
<1>2. /\ pc = "cut" /\ pc' = "cut" /\ at < len /\ IsFragment
      /\ at' = at + stride
      /\ len' = len /\ tokens' = tokens /\ overlap' = overlap
      /\ size' = size /\ stride' = stride
  BY DEF AppendFragment, Advance, call, size, stride
<1>3. /\ WindowEnd = len /\ len - at < MinTokens * CharsPerToken /\ at > 0
  BY <1>1, <1>2, FragmentEnds DEF Loops
<1>4. /\ chunks \in Seq(Chunk) /\ chunks # << >> /\ z \in Nat \ {0}
      /\ DOMAIN chunks = 1 .. z /\ \A i \in 1 .. z : chunks[i] \in Chunk
  BY <1>1, <1>2, <1>3 DEF TypeOK, Loops, z
<1>5. chunks' = [chunks EXCEPT ![z].also = more]
  BY <1>4 DEF AppendFragment, z
<1>6. more \in SUBSET (Positions \X Positions) /\ <<at, len>> \in more
  <2>1. at \in Positions /\ len \in Positions
    BY <1>1, <1>2, Lengths, MaxLenAssumption DEF Positions
  <2>2. chunks[z] \in Chunk
    BY <1>4
  <2>3. chunks[z].also \in SUBSET (Positions \X Positions)
    BY <2>2 DEF Chunk
  <2> QED
    BY <1>3, <2>1, <2>3
<1> HIDE DEF more
<1>7. /\ chunks' \in Seq(Chunk) /\ Len(chunks') = z /\ DOMAIN chunks' = 1 .. z
      /\ \A i \in 1 .. z : /\ chunks'[i].from = chunks[i].from
                           /\ chunks'[i].to = chunks[i].to
                           /\ i # z => chunks'[i].also = chunks[i].also
      /\ chunks'[z].also = more
      /\ chunks' # << >>
  BY <1>4, <1>5, <1>6 DEF Chunk
<1>8. TypeOK'
  BY <1>1, <1>2, <1>7, Lengths DEF TypeOK, Called
<1>9. Starts' /\ NothingIsLost'
  BY <1>2 DEF Starts, NothingIsLost
<1>10. Loops'
  <2>1. Tokens(len)' > tokens'
    BY <1>1, <1>2 DEF Loops
  <2>2. /\ z' = z
        /\ chunks'[z].to = Least(chunks'[z].from + size, len)
        /\ chunks'[z].also # {}
        /\ len - at' < CharsPerToken * MinTokens
    <3>1. z' = z /\ chunks'[z].also # {}
      BY <1>6, <1>7 DEF z
    <3>2. chunks'[z].to = Least(chunks'[z].from + size, len)
      BY <1>1, <1>2, <1>4, <1>7 DEF Loops
    <3>3. len - at' < CharsPerToken * MinTokens
      BY <1>1, <1>2, <1>3, Lengths DEF CharsPerToken
    <3> QED
      BY <3>1, <3>2, <3>3
  <2>3. ASSUME NEW p \in 0 .. len - 1
        PROVE  \E i \in DOMAIN chunks' : Covers(chunks'[i], p)
    <3>1. CASE p < at
      <4>1. PICK i \in 1 .. z : Covers(chunks[i], p)
        BY <1>1, <1>2, <1>4, <3>1 DEF Loops
      <4>2. chunks[i].also \subseteq chunks'[i].also
        BY <1>4, <1>7 DEF more
      <4> QED
        BY <4>1, <4>2, <1>7 DEF Covers
    <3>2. CASE p >= at
      <4>1. Between(p, <<at, len>>[1], <<at, len>>[2])
        BY <1>1, <2>3, <3>2, Lengths DEF Between
      <4> QED
        BY <4>1, <1>4, <1>6, <1>7 DEF Covers
    <3> QED
      BY <3>1, <3>2, <1>1, Lengths
  <2> QED
    BY <1>2, <1>7, <2>1, <2>2, <2>3 DEF Loops
<1>11. SizesAreKept'
  BY <1>1, <1>2, <1>4, <1>7 DEF SizesAreKept, z
<1>12. NeighboursOverlap'
  <2>1. ASSUME NEW i \in 1 .. z - 1
        PROVE  /\ i \in 1 .. z /\ i + 1 \in 1 .. z
               /\ chunks[i].from < chunks[i + 1].from
               /\ chunks[i].to - chunks[i + 1].from
                    = Least(overlap, chunks[i + 1].to - chunks[i + 1].from)
    BY <1>1, <1>4 DEF NeighboursOverlap, z
  <2>2. ASSUME NEW i \in 1 .. z - 1
        PROVE  /\ chunks'[i].from < chunks'[i + 1].from
               /\ chunks'[i].to - chunks'[i + 1].from
                    = Least(overlap, chunks'[i + 1].to - chunks'[i + 1].from)
    BY <2>1, <1>7
  <2> QED
    BY <2>2, <1>2, <1>7 DEF NeighboursOverlap
<1> QED
  BY <1>8, <1>9, <1>10, <1>11, <1>12 DEF IInv

LEMMA Step == IInv /\ [Next]_vars => IInv'
<1> SUFFICES ASSUME IInv, [Next]_vars PROVE IInv'
  OBVIOUS
<1> USE DEF IInv, Starts, NothingIsLost, call
<1>1. CASE PassThrough
  <2> DEFINE c == [from |-> 0, to |-> len, also |-> {}]
  <2>1. chunks' = <<c>> /\ pc' = "returned" /\ UNCHANGED <<len, tokens, overlap, at>>
    BY <1>1 DEF PassThrough
  <2>2. c \in Chunk
    <3>1. 0 \in Positions /\ len \in Positions
      BY Lengths, MaxLenAssumption DEF Positions
    <3> QED
      BY <3>1 DEF Chunk
  <2>3. TypeOK'
    BY <2>1, <2>2 DEF TypeOK, Called, size
  <2>4. \A p \in 0 .. len - 1 : Covers(c, p)
    <3>1. c.from = 0 /\ c.to = len
      OBVIOUS
    <3>2. \A p \in 0 .. len - 1 : Between(p, 0, len)
      BY Lengths DEF Between
    <3> QED
      BY <3>1, <3>2 DEF Covers
  <2>5. NothingIsLost'
    <3>1. 1 \in DOMAIN chunks' /\ chunks'[1] = c /\ len' = len
      BY <2>1
    <3> HIDE DEF c
    <3> QED
      BY <2>4, <3>1
  <2>6. NeighboursOverlap'
    BY <2>1 DEF NeighboursOverlap
  <2> QED
    BY <2>1, <2>3, <2>5, <2>6 DEF Loops, SizesAreKept
<1>2. CASE BeginLoop
  BY <1>2, Lengths DEF BeginLoop, TypeOK, Called, size, Loops, SizesAreKept, NeighboursOverlap
<1>3. CASE CutChunk
  BY <1>3, CutStep
<1>4. CASE AppendFragment
  BY <1>4, FragmentStep
<1>5. CASE Return
  <2>1. /\ \A p \in 0 .. len - 1 : \E i \in DOMAIN chunks : Covers(chunks[i], p)
        /\ pc' = "returned" /\ UNCHANGED <<len, tokens, overlap, at, chunks>>
    <3>1. \A p \in 0 .. len - 1 : p < at
      BY <1>5, Lengths DEF Return
    <3> QED
      BY <1>5, <3>1 DEF Return, Loops
  <2> QED
    BY <2>1 DEF TypeOK, Called, size, Loops, SizesAreKept, NeighboursOverlap
<1>6. CASE CallAgain
  BY <1>6 DEF CallAgain, TypeOK, Called, size, Loops, SizesAreKept, NeighboursOverlap, Chunk
<1>7. CASE UNCHANGED vars
  BY <1>7 DEF vars, TypeOK, Called, size, stride, Loops, SizesAreKept, NeighboursOverlap, z
<1> QED
  BY <1>1, <1>2, <1>3, <1>4, <1>5, <1>6, <1>7 DEF Next

-----------------------------------------------------------------------------
LEMMA Inductive == Spec => []IInv
<1>1. Init => IInv
  BY InitOK
<1>2. IInv /\ [Next]_vars => IInv'
  BY Step
<1> QED
  BY <1>1, <1>2, PTL DEF Spec

\* Lengths, positions and chunks keep their types.
THEOREM TypeCorrect == Spec => []TypeOK
BY Inductive, PTL DEF IInv

\* chunk_document loses no character of a text, whatever its length, the chunk
\* size and the overlap.
THEOREM EveryCharacterIsKept == Spec => []NothingIsLost
BY Inductive, PTL DEF IInv

\* Every chunk that is cut has a size between the two limits, and only the last
\* one has fragments appended.
THEOREM SizesKept == Spec => []SizesAreKept
BY Inductive, PTL DEF IInv

\* Neighbouring chunks overlap by overlap_chars, as far as the text goes.
THEOREM Overlaps == Spec => []NeighboursOverlap
BY Inductive, PTL DEF IInv
-----------------------------------------------------------------------------
\* A document that was chunked has chunks.
ChunksAreThere == pc = "returned" => chunks # << >>

\* Every document has a chunk, also one without text: the pipeline never has an empty
\* list of vectors to write (ItemsAssumption of Pipeline).
THEOREM SomeChunk == Spec => []ChunksAreThere
<1>1. Init => ChunksAreThere
  BY DEF Init, ChunksAreThere
<1>2. IInv /\ ChunksAreThere /\ [Next]_vars => ChunksAreThere'
  <2> SUFFICES ASSUME IInv, ChunksAreThere, Next, pc' = "returned" PROVE chunks' # << >>
    BY DEF ChunksAreThere, vars
  <2>1. CASE PassThrough
    BY <2>1 DEF PassThrough
  <2>2. CASE Return
    <3>1. Tokens(len) > tokens /\ (chunks = << >> => at = 0) /\ at >= len /\ chunks' = chunks
      BY <2>2 DEF Return, IInv, Loops
    <3>2. len > 0
      BY <3>1, Lengths DEF IInv, Tokens, CharsPerToken
    <3> QED
      BY <3>1, <3>2, Lengths DEF IInv
  <2>3. ~BeginLoop /\ ~CutChunk /\ ~AppendFragment /\ ~CallAgain
    BY DEF BeginLoop, CutChunk, AppendFragment, CallAgain
  <2> QED
    BY <2>1, <2>2, <2>3 DEF Next
<1> QED
  BY <1>1, <1>2, Inductive, PTL DEF Spec
=============================================================================
