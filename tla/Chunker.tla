------------------------------ MODULE Chunker ------------------------------
(***************************************************************************)
(* How a text becomes chunks (services/ingestion/chunker.py).  A text is   *)
(* its length and a chunk the interval of positions it was cut from, with  *)
(* the intervals that were appended to it afterwards.  One action per      *)
(* branch of chunk_document and per turn of its loop.                      *)
(***************************************************************************)
EXTENDS Integers, Sequences

CONSTANTS
    MinTokens,      \* a window of fewer tokens is not a chunk of its own (10)
    ChunkTokens,    \* the values of chunk_size_tokens
    MaxLen          \* bound: of the length of a text

CharsPerToken == 4
Tokens(n) == n \div CharsPerToken

\* A chunk size no longer than the fragments that are skipped would skip the
\* whole text; the pipeline calls with the default, 500.
ASSUME TokensAssumption ==
    /\ MinTokens \in Nat \ {0}
    /\ ChunkTokens \subseteq {n \in Nat : n >= MinTokens}
ASSUME MaxLenAssumption == MaxLen \in Nat

VARIABLES
    pc,         \* "called", "cut" (in the loop) or "returned"
    len,        \* len(document.text)
    tokens,     \* chunk_size_tokens
    overlap,    \* overlap_chars: chunk size in characters times overlap_percent
    at,         \* start_char of the next window
    chunks      \* the chunks so far

call == <<len, tokens, overlap>>
vars == <<pc, len, tokens, overlap, at, chunks>>

size == tokens * CharsPerToken
stride == size - overlap

Least(a, b) == IF a <= b THEN a ELSE b

\* Any text and chunk size, and an overlap_percent below 1.
Called ==
    /\ len \in 0 .. MaxLen
    /\ tokens \in ChunkTokens
    /\ overlap \in 0 .. size - 1

Init ==
    /\ pc = "called"
    /\ Called
    /\ at = 0
    /\ chunks = << >>

-----------------------------------------------------------------------------
\* A short document is its only chunk.
PassThrough ==
    /\ pc = "called"
    /\ Tokens(len) <= tokens
    /\ chunks' = << [from |-> 0, to |-> len, also |-> {}] >>
    /\ pc' = "returned"
    /\ UNCHANGED <<call, at>>

BeginLoop ==
    /\ pc = "called"
    /\ Tokens(len) > tokens
    /\ pc' = "cut"
    /\ UNCHANGED <<call, at, chunks>>

\* Mutant: the window ends where the next one starts.
WindowEndNoOverlap == Least(at + stride, len)

WindowEnd == Least(at + size, len)

\* Mutant: a fragment of one token less than the limit becomes a chunk.
IsFragmentOffByOne == Tokens(WindowEnd - at) < MinTokens - 1

IsFragment == Tokens(WindowEnd - at) < MinTokens

\* Mutant: the next window starts after a gap.
AdvancePastWindow == at' = at + size + 1

Advance == at' = at + stride

CutChunk ==
    /\ pc = "cut"
    /\ at < len
    /\ ~IsFragment
    /\ chunks' = Append(chunks, [from |-> at, to |-> WindowEnd, also |-> {}])
    /\ Advance
    /\ UNCHANGED <<pc, call>>

\* A fragment is appended, after a blank, to the last chunk, if there is one.
AppendFragment ==
    /\ pc = "cut"
    /\ at < len
    /\ IsFragment
    /\ chunks' = IF chunks = << >> THEN chunks
                 ELSE [chunks EXCEPT ![Len(chunks)].also = @ \cup {<<at, WindowEnd>>}]
    /\ Advance
    /\ UNCHANGED <<pc, call>>

Return ==
    /\ pc = "cut"
    /\ at >= len
    /\ pc' = "returned"
    /\ UNCHANGED <<call, at, chunks>>

\* The next document is chunked.
CallAgain ==
    /\ pc = "returned"
    /\ pc' = "called"
    /\ len' \in 0 .. MaxLen
    /\ tokens' \in ChunkTokens
    /\ overlap' \in 0 .. tokens' * CharsPerToken - 1
    /\ at' = 0
    /\ chunks' = << >>

Next == PassThrough \/ BeginLoop \/ CutChunk \/ AppendFragment \/ Return \/ CallAgain

Spec == Init /\ [][Next]_vars

-----------------------------------------------------------------------------
Positions == 0 .. MaxLen
Chunk == [from : Positions, to : Positions, also : SUBSET (Positions \X Positions)]

\* Every variable has the type of the Python value it stands for.
TypeOK ==
    /\ pc \in {"called", "cut", "returned"}
    /\ Called
    /\ at \in Nat
    /\ chunks \in Seq(Chunk)

Between(p, from, to) == from <= p /\ p < to

Covers(c, p) ==
    \/ Between(p, c.from, c.to)
    \/ \E f \in c.also : Between(p, f[1], f[2])

\* No character of the text is lost to the embedding: each is in some chunk,
\* although the fragments at the end do not become chunks.
NothingIsLost ==
    pc = "returned" =>
        \A p \in 0 .. len - 1 : \E i \in DOMAIN chunks : Covers(chunks[i], p)

\* A chunk that was cut has the promised size: no less than the smallest one
\* worth embedding, no more than chunk_size_tokens.  Only the last one, which
\* reaches the end of the text, has fragments appended.
SizesAreKept ==
    pc = "cut" =>
        \A i \in DOMAIN chunks :
            /\ Tokens(chunks[i].to - chunks[i].from) \in MinTokens .. tokens
            /\ chunks[i].also # {} => i = Len(chunks)

\* Neighbours share overlap_chars characters, or, at the end of the text, as
\* many as the later one has; a later chunk starts later.
NeighboursOverlap ==
    \A i \in 1 .. Len(chunks) - 1 :
        LET a == chunks[i]
            b == chunks[i + 1]
        IN  /\ a.from < b.from
            /\ a.to - b.from = Least(overlap, b.to - b.from)
=============================================================================
