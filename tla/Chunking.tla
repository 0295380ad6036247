------------------------------ MODULE Chunking ------------------------------
(***************************************************************************)
(* How the text of a page is cut into overlapping chunks (split_text in     *)
(* services/api/store.py). Of a text only the places of its blanks matter:  *)
(* blank[i] tells whether the character at position i is one.               *)
(***************************************************************************)
EXTENDS Integers, Sequences, FiniteSetsExt

Length(blank) == Cardinality(DOMAIN blank)

\* A page of extract_pages, which leaves the empty ones out.
IsText(blank) == Length(blank) \in Nat \ {0} /\ DOMAIN blank = 0..(Length(blank) - 1)

\* A chunk ends at the size, or at the last blank of its second half.
ChunkEnd(blank, size, start) ==
    LET end == Min({start + size, Length(blank)})
        boundaries == {i \in (start + size \div 2)..(end - 1) : blank[i] /\ i > start}
    IN  IF end < Length(blank) /\ boundaries # {} THEN Max(boundaries) ELSE end

Strip(blank, start, end) ==
    LET text == {i \in start..(end - 1) : ~blank[i]}
    IN  IF text = {} THEN <<>> ELSE << Min(text)..Max(text) >>

\* Fault for checking: the next chunk begins behind the last one.
NextStartAfter(start, end, overlap) == end + 1

NextStart(start, end, overlap) == Max({end - overlap, start + 1})

\* The chunks of a text, as intervals of positions.
SplitText(blank, size, overlap) ==
    LET split[start \in 0..Length(blank)] ==
            IF start >= Length(blank) THEN <<>>
            ELSE LET end == ChunkEnd(blank, size, start)
                     rest == IF end >= Length(blank) THEN <<>>
                             ELSE split[NextStart(start, end, overlap)]
                 IN  Strip(blank, start, end) \o rest
    IN  split[0]
=============================================================================
