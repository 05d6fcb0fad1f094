------------------------------ MODULE Chunking ------------------------------
(***************************************************************************)
(* How the text of a document becomes chunks (ingest.py): sections by      *)
(* heading, each with the path of the headings it is under; a section too  *)
(* long for one chunk cut at blank lines, a code block or a table too long *)
(* cut so that every piece repeats its fences or its head; consecutive     *)
(* chunks overlapping; tiny ones joined to a neighbour of their section.   *)
(* One action is one turn of one of these loops.                           *)
(*                                                                         *)
(* A line has a kind, a heading level (0: none) and a length in tokens.    *)
(* Headings of one level have one title, so a path is a set of levels; the *)
(* stack of headings is always in the order of the levels.  A section and  *)
(* a block are lines in a row.                                             *)
(* Tokens add up, a blank line or a paragraph break counting one; the      *)
(* code's encoder need not be additive, and it cuts at a token what is cut *)
(* here at a token.  MIN_CHUNK_CHARS is in tokens too.                     *)
(***************************************************************************)
EXTENDS Integers, Sequences, Functions

CONSTANTS
    Alphabet,      \* sets of lines; a document is made of the lines of one
    MaxLines,      \* bound: lines of a document
    ChunkSize, ChunkOverlap,  \* settings.chunk_size, settings.chunk_overlap
    TinyBelow      \* MIN_CHUNK_CHARS

Kind == {"heading", "prose", "blank", "break", "fence", "row", "rule"}

ASSUME ChunkingAssumption ==
    /\ ChunkSize \in Nat \ {0, 1} /\ {ChunkOverlap, TinyBelow} \subseteq Nat
    /\ \A l \in UNION Alphabet :
          /\ l.kind \in Kind /\ l.tokens \in Nat \ {0}
          /\ l.level \in Nat /\ (l.level > 0 <=> l.kind = "heading")

VARIABLES
    markdown,  \* the lines of the document
    progress,  \* the loop that runs, "write" before the first and "done"
    line,      \* the next line of the loop
    outline,   \* [stack, fenced, pending, current]: the first line of each part
    sections,  \* [path, first, last]; the first is the one being cut
    block,     \* [first, kind]: the block begun, 0 if none
    blocks,    \* [first, last]; the first is the one being cut
    gathered,  \* buf, rows: the pieces gathered of a block too long
    parts,     \* paragraphs not yet in a chunk, sequences of pieces
    open,      \* current_parts
    chunks,    \* [path, parts]
    at         \* _merge_tiny_chunks: i

chunkingVars == <<markdown, progress, line, outline, sections, block, blocks, gathered, parts,
                  open, chunks, at>>

NoBlock == [first |-> 0, kind |-> "plain"]

ChunkingInit ==
    /\ markdown = <<>> /\ progress = "write" /\ line = 1 /\ at = 1
    /\ outline = [stack |-> {}, fenced |-> FALSE, pending |-> 1, current |-> 1]
    /\ sections = <<>> /\ block = NoBlock /\ blocks = <<>> /\ gathered = <<>>
    /\ parts = <<>> /\ open = <<>> /\ chunks = <<>>

IsKind(i, kind) == markdown[i].kind = kind
Bare(i) == IsKind(i, "blank") \/ IsKind(i, "break")
HasBar(i) == IsKind(i, "row") \/ IsKind(i, "rule")
----------------------------------------------------------------------------
(* Pieces of text: the tokens from + 1 .. to of the line at; 0 is the      *)
(* fence that closes what the document leaves open.                        *)

Span(i, from, to) == [at |-> i, from |-> from, to |-> to]
Whole(i) == Span(i, 0, markdown[i].tokens)
Lines(first, last) == [k \in 1 .. last - first + 1 |-> Whole(first + k - 1)]
ClosingFence == Span(0, 0, 1)

Total(numbers) ==
    LET upto[k \in 0 .. Len(numbers)] == IF k = 0 THEN 0 ELSE upto[k - 1] + numbers[k]
    IN upto[Len(numbers)]

Tokens(pieces) == Total([k \in DOMAIN pieces |-> pieces[k].to - pieces[k].from])
\* "\n\n".join
Joined(paragraphs) ==
    Total([k \in DOMAIN paragraphs |-> Tokens(paragraphs[k])])
    + (IF paragraphs = <<>> THEN 0 ELSE Len(paragraphs) - 1)
HasText(paragraphs) ==
    \E part \in Range(paragraphs) : \E p \in Range(part) : p.at = 0 \/ ~IsKind(p.at, "blank")

\* A line too long, in pieces of at most width.
Cuts(i, width) ==
    LET n == markdown[i].tokens
    IN [k \in 1 .. (n + width - 1) \div width |->
           Span(i, (k - 1) * width, IF k * width < n THEN k * width ELSE n)]
----------------------------------------------------------------------------
WriteLine(l) ==
    /\ progress = "write" /\ Len(markdown) < MaxLines
    /\ markdown' = Append(markdown, l)
    /\ \E lines \in Alphabet : Range(markdown') \subseteq lines
    /\ UNCHANGED <<progress, line, outline, sections, block, blocks, gathered, parts, open, chunks, at>>

\* chunk_markdown_hierarchical begins.
SplitSections ==
    /\ progress = "write" /\ markdown # <<>>
    /\ progress' = "split"
    /\ UNCHANGED <<markdown, line, outline, sections, block, blocks, gathered, parts, open, chunks, at>>

Flushed ==
    Append(sections, [path |-> outline.stack, first |-> outline.pending, last |-> line - 1])

\* flush(): a heading without a body goes to the section of its first child.
IsParent(level) ==
    /\ outline.stack # {} /\ \A other \in outline.stack : other < level
    /\ \A i \in outline.current + 1 .. line - 1 : Bare(i)

TakeLine ==
    /\ progress = "split" /\ line \in DOMAIN markdown
    /\ line' = line + 1
    /\ LET fenced == IF IsKind(line, "fence") THEN ~outline.fenced ELSE outline.fenced
           level == markdown[line].level
           kept == outline.current = line \/ IsParent(level)
       IN IF fenced \/ level = 0
          THEN outline' = [outline EXCEPT !.fenced = fenced] /\ UNCHANGED sections
          ELSE /\ sections' = IF kept THEN sections ELSE Flushed
               /\ outline' = [stack |-> {other \in outline.stack : other < level} \cup {level},
                              fenced |-> fenced,
                              pending |-> IF kept THEN outline.pending ELSE line,
                              current |-> line]
    /\ UNCHANGED <<markdown, progress, block, blocks, gathered, parts, open, chunks, at>>

EndSections ==
    /\ progress = "split" /\ line \notin DOMAIN markdown
    /\ sections' = Flushed
    /\ progress' = "chunk"
    /\ UNCHANGED <<markdown, line, outline, block, blocks, gathered, parts, open, chunks, at>>
----------------------------------------------------------------------------
(* _chunk_text on the first of the sections.                               *)

Section == Head(sections)

SectionEnds(paragraphs) ==
    /\ chunks' = IF HasText(paragraphs)
                 THEN Append(chunks, [path |-> Section.path, parts |-> paragraphs]) ELSE chunks
    /\ sections' = Tail(sections)
    /\ progress' = IF sections' = <<>> THEN "merge" ELSE "chunk"

KeepSection ==
    /\ progress = "chunk" /\ Tokens(Lines(Section.first, Section.last)) <= ChunkSize
    /\ SectionEnds(<<Lines(Section.first, Section.last)>>)
    /\ UNCHANGED <<markdown, line, outline, block, blocks, gathered, parts, open, at>>

CutSection ==
    /\ progress = "chunk" /\ Tokens(Lines(Section.first, Section.last)) > ChunkSize
    /\ progress' = "blocks" /\ line' = Section.first
    /\ UNCHANGED <<markdown, outline, sections, block, blocks, gathered, parts, open, chunks, at>>

(* Blank lines end a paragraph; a code block and a table are one block.    *)
(* Without a bar or a fence, split("\n\n").                                *)
StartsTable(i) == HasBar(i) /\ i < Section.last /\ IsKind(i + 1, "rule")
KindAt(i) == IF IsKind(i, "fence") THEN "fence" ELSE IF StartsTable(i) THEN "table" ELSE "plain"
Continues ==
    \/ block.kind = "fence" /\ ~IsKind(line, "fence")
    \/ block.kind = "table" /\ HasBar(line)
    \/ /\ block.kind = "plain" /\ block.first > 0
       /\ KindAt(line) = "plain" /\ ~IsKind(line, "blank")
BlocksTo(last) ==
    IF block.first = 0 THEN blocks ELSE Append(blocks, [first |-> block.first, last |-> last])

TakeBlockLine ==
    /\ progress = "blocks" /\ line <= Section.last
    /\ line' = line + 1
    /\ \/ Continues /\ UNCHANGED <<block, blocks>>
       \/ /\ block.kind = "fence" /\ IsKind(line, "fence")
          /\ block' = NoBlock /\ blocks' = BlocksTo(line)
       \/ /\ block.kind # "fence" /\ ~Continues
          /\ block' = IF IsKind(line, "blank") THEN NoBlock ELSE [first |-> line, kind |-> KindAt(line)]
          /\ blocks' = BlocksTo(line - 1)
    /\ UNCHANGED <<markdown, progress, outline, sections, gathered, parts, open, chunks, at>>

EndBlocks ==
    /\ progress = "blocks" /\ line > Section.last
    /\ block' = NoBlock /\ blocks' = BlocksTo(Section.last)
    /\ progress' = "parts"
    /\ UNCHANGED <<markdown, line, outline, sections, gathered, parts, open, chunks, at>>

Block == Head(blocks)

\* What every piece of a block repeats before and after its rows.
IsFenced == IsKind(Block.first, "fence")
IsTable == Block.last > Block.first /\ IsKind(Block.first + 1, "rule")
IsClosed == Block.last > Block.first /\ IsKind(Block.last, "fence")
Before == Lines(Block.first, IF IsFenced THEN Block.first ELSE Block.first + 1)
After ==
    IF ~IsFenced THEN <<>> ELSE IF IsClosed THEN Lines(Block.last, Block.last) ELSE <<ClosingFence>>

\* max_tokens less the prefix and the suffix.
RowRoom == ChunkSize - Tokens(Before) - Tokens(After)
IsStructured == (IsFenced \/ IsTable) /\ RowRoom > 0

TakeBlock ==
    /\ progress = "parts" /\ blocks # <<>>
    /\ IF Tokens(Lines(Block.first, Block.last)) <= ChunkSize
       THEN /\ parts' = Append(parts, Lines(Block.first, Block.last))
            /\ blocks' = Tail(blocks) /\ UNCHANGED <<progress, line>>
       ELSE /\ progress' = IF IsStructured THEN "rows" ELSE "lines"
            /\ line' = Block.first + (IF IsStructured THEN Len(Before) ELSE 0)
            /\ UNCHANGED <<parts, blocks>>
    /\ UNCHANGED <<markdown, outline, sections, block, gathered, open, chunks, at>>

(* _split_oversized_paragraph ("lines") and _split_structured_block        *)
(* ("rows"): lines gathered up to the room there is; one that is over it   *)
(* alone is cut.                                                           *)
Room == IF progress = "rows" THEN RowRoom ELSE ChunkSize
LastLine == IF progress = "rows" /\ IsFenced /\ IsClosed THEN Block.last - 1 ELSE Block.last
Wrapped(rows) == IF progress = "rows" THEN Before \o rows \o After ELSE rows
Ended == IF gathered = <<>> THEN parts ELSE Append(parts, Wrapped(gathered))
Fits == Tokens(Append(gathered, Whole(line))) <= Room
IsLong == markdown[line].tokens > Room

GatherLine == Fits /\ gathered' = Append(gathered, Whole(line)) /\ UNCHANGED parts
NextPart == ~Fits /\ ~IsLong /\ parts' = Ended /\ gathered' = <<Whole(line)>>
CutLine ==
    /\ progress = "lines" /\ IsLong
    /\ LET cuts == Cuts(line, ChunkSize - 1)
       IN parts' = Ended \o [k \in DOMAIN cuts |-> <<cuts[k]>>]
    /\ gathered' = <<>>
CutRow ==
    /\ progress = "rows" /\ IsLong
    /\ LET cuts == Cuts(line, Room)
       IN /\ parts' = Ended \o [k \in 1 .. Len(cuts) - 1 |-> Wrapped(<<cuts[k]>>)]
          /\ gathered' = <<cuts[Len(cuts)]>>

TakeRow ==
    /\ progress \in {"lines", "rows"} /\ line <= LastLine
    /\ line' = line + 1
    /\ GatherLine \/ NextPart \/ CutLine \/ CutRow
    /\ UNCHANGED <<markdown, progress, outline, sections, block, blocks, open, chunks, at>>

EndRows ==
    /\ progress \in {"lines", "rows"} /\ line > LastLine
    /\ parts' = Ended /\ gathered' = <<>>
    /\ blocks' = Tail(blocks) /\ progress' = "parts"
    /\ UNCHANGED <<markdown, line, outline, sections, block, open, chunks, at>>

\* The last parts that fit the overlap, unless the next part does not fit then.
CarriedOverLimit(paragraphs, next) ==
    LET rest(k) == SubSeq(paragraphs, k, Len(paragraphs))
        fits(k) == Total([j \in DOMAIN rest(k) |-> Tokens(rest(k)[j])]) <= ChunkOverlap
    IN rest(CHOOSE k \in 1 .. Len(paragraphs) + 1 :
                fits(k) /\ \A other \in 1 .. k - 1 : ~fits(other))

Carried(paragraphs, next) ==
    LET kept == CarriedOverLimit(paragraphs, next)
    IN IF Joined(Append(kept, next)) > ChunkSize THEN <<>> ELSE kept

TakePart ==
    /\ progress = "parts" /\ blocks = <<>> /\ parts # <<>>
    /\ parts' = Tail(parts)
    /\ IF open # <<>> /\ Joined(Append(open, Head(parts))) > ChunkSize
       THEN /\ open' = Append(Carried(open, Head(parts)), Head(parts))
            /\ chunks' = IF HasText(open)
                         THEN Append(chunks, [path |-> Section.path, parts |-> open]) ELSE chunks
       ELSE open' = Append(open, Head(parts)) /\ UNCHANGED chunks
    /\ UNCHANGED <<markdown, progress, line, outline, sections, block, blocks, gathered, at>>

EndParts ==
    /\ progress = "parts" /\ blocks = <<>> /\ parts = <<>>
    /\ SectionEnds(open)
    /\ open' = <<>>
    /\ UNCHANGED <<markdown, line, outline, block, blocks, gathered, parts, at>>
----------------------------------------------------------------------------
(* _merge_tiny_chunks: with the next chunk of the section, or else with    *)
(* the one before, when the two fit one chunk.                             *)
IsTiny(k) == Len(chunks) > 1 /\ Joined(chunks[k].parts) < TinyBelow
SamePath(k, j) == j \in DOMAIN chunks /\ chunks[j].path = chunks[k].path
Both(k) == chunks[k].parts \o chunks[k + 1].parts

\* The chunks k and k + 1 become one.
Join(k) ==
    chunks' = SubSeq(chunks, 1, k - 1)
              \o << [chunks[k] EXCEPT !.parts = Both(k)] >>
              \o SubSeq(chunks, k + 2, Len(chunks))

FitsNext(k) == IsTiny(k) /\ SamePath(k, k + 1) /\ Joined(Both(k)) <= ChunkSize
FitsBack(k) ==
    /\ IsTiny(k) /\ ~SamePath(k, k + 1)
    /\ SamePath(k, k - 1) /\ Joined(Both(k - 1)) <= ChunkSize

MergeChunk ==
    /\ progress = "merge" /\ at \in DOMAIN chunks
    /\ \/ FitsNext(at) /\ Join(at) /\ UNCHANGED at
       \/ FitsBack(at) /\ Join(at - 1) /\ at' = at - 1
       \/ ~FitsNext(at) /\ ~FitsBack(at) /\ at' = at + 1 /\ UNCHANGED chunks
    /\ UNCHANGED <<markdown, progress, line, outline, sections, block, blocks, gathered, parts, open>>

Chunked ==
    /\ progress = "merge" /\ at \notin DOMAIN chunks
    /\ progress' = "done"
    /\ UNCHANGED <<markdown, line, outline, sections, block, blocks, gathered, parts, open, chunks, at>>

ChunkingNext ==
    \/ \E l \in UNION Alphabet : WriteLine(l)
    \/ SplitSections \/ TakeLine \/ EndSections
    \/ KeepSection \/ CutSection \/ TakeBlockLine \/ EndBlocks
    \/ TakeBlock \/ TakeRow \/ EndRows \/ TakePart \/ EndParts
    \/ MergeChunk \/ Chunked

ChunkingSpec == ChunkingInit /\ [][ChunkingNext]_chunkingVars
----------------------------------------------------------------------------
PiecesOf(chunk) == UNION {Range(part) : part \in Range(chunk.parts)}
\* The fences among pieces.
Fences(pieces) ==
    Total([k \in DOMAIN pieces |->
              IF pieces[k].at = 0 \/ IsKind(pieces[k].at, "fence") THEN 1 ELSE 0])
Fenced(i) == Fences(Lines(1, i)) % 2 = 1
Heading(i) == IsKind(i, "heading") /\ ~Fenced(i)

\* The headings line i is under: those no later one of their level or above ends.
PathOf(i) ==
    LET above == {j \in 1 .. i : Heading(j) /\ \A k \in j + 1 .. i :
                                    Heading(k) => markdown[k].level > markdown[j].level}
    IN {markdown[j].level : j \in above}

\* No chunk is longer than the embedding model and the reranker read.
WithinSize(chunk) == Joined(chunk.parts) <= ChunkSize

\* Every token of a line with text is in a chunk.
NothingLost ==
    \A i \in DOMAIN markdown : ~IsKind(i, "blank") =>
        \A n \in 1 .. markdown[i].tokens :
            \E c \in Range(chunks) : \E p \in PiecesOf(c) : p.at = i /\ n \in p.from + 1 .. p.to

\* A chunk holds only text under the headings of its path; what is under fewer
\* of them is a heading whose body is only its subsections.
InPlace(chunk) ==
    \A p \in PiecesOf(chunk) : p.at = 0 \/
        LET own == PathOf(p.at)
        IN /\ own \subseteq chunk.path
           /\ own # chunk.path => Heading(p.at) \/ Bare(p.at)

\* Code that the document closes, between fences that leave room in a chunk, is
\* closed in every chunk that has some of it.
FencesFit ==
    \A i, j \in {k \in DOMAIN markdown : IsKind(k, "fence")} :
        markdown[i].tokens + markdown[j].tokens < ChunkSize
Balanced(chunk) ==
    ~Fenced(Len(markdown)) /\ FencesFit =>
        Total([k \in DOMAIN chunk.parts |-> Fences(chunk.parts[k])]) % 2 = 0

(* Whatever a document looks like, what is indexed of it is all of it, each *)
(* chunk within the limit, under its own headings and with its code closed  *)
(* (ingest.py, chunk_markdown_hierarchical).                                *)
ChunksFaithful ==
    /\ progress \in {"merge", "done"} => \A c \in Range(chunks) : WithinSize(c)
    /\ progress = "done" => NothingLost /\ \A c \in Range(chunks) : InPlace(c) /\ Balanced(c)
============================================================================
