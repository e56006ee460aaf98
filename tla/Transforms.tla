----------------------------- MODULE Transforms -----------------------------
(***************************************************************************)
(* The transforms that turn raw rows into what a model is trained on or    *)
(* what is put into the vector store: a split goes through the transforms  *)
(* of its pipeline one after another (DataModule._apply_transforms), and   *)
(* the last step collates it to a batch.  Each transform drops or rewrites *)
(* rows knowing nothing of the others, so what becomes of a row depends on *)
(* their order.                                                            *)
(*                                                                         *)
(* A text is a sequence of words, white space apart; a word is a token.    *)
(* Near duplicates are a relation of texts (MinHash approximates it).      *)
(***************************************************************************)
EXTENDS Naturals, Sequences, FiniteSets

CONSTANTS
  Width,         \* Width[w]: the characters of word w
  Urls,          \* the words that the cleaners remove
  Near(_, _),    \* whether MinHash takes two texts for near duplicates
  Template,      \* the words a prompt template adds
  Metadata,      \* the words of a document's metadata, once injected
  Bench,         \* the texts of the benchmark
  ChunkSize, ChunkOverlap,  \* of OverlappingChunkingTransform, in characters
  MinText,       \* characters of the shortest text that validation keeps
  MaxLength,     \* max_length, in tokens
  Inputs(_)      \* Inputs(kind): the raw datasets

Kinds == {"rag", "decoder", "index"}

Text == Seq(DOMAIN Width)

\* a negative document that is null
None == <<"none">>

RawRow == [key : Text, doc : Text, neg : Text \cup {None}, meta : BOOLEAN]

ASSUME TransformsAssumption ==
  /\ Width \in [DOMAIN Width -> Nat \ {0}]
  /\ Urls \subseteq DOMAIN Width
  /\ {Template, Metadata} \subseteq Text
  /\ ChunkSize \in Nat \ {0} /\ ChunkOverlap \in 0..ChunkSize - 1
  /\ MinText \in Nat /\ MaxLength \in Nat \ {0}
  /\ \A kind \in Kinds : Inputs(kind) \subseteq Seq(RawRow)

VARIABLES
  pipe,    \* the pipeline, the deduplication it uses, the task of its tokenization,
          \* and the tokenizer: whether it adds BOS, merges a separator with the word
          \* after it, and pads on the right
  input,  \* the raw rows
  todo,   \* the transforms left to apply
  rows,   \* the rows: where each is from, which words of its document it holds,
          \* its key (query, prompt or text), its document (positive or target), its
          \* negative, and its tokens with prompt_len
  seen,   \* the rows as the deduplication found them
  batch   \* "none", "made" or "failed"

transforms == <<pipe, input, todo, rows, seen, batch>>

Pipelines ==
  [kind : {"decoder"}, near : BOOLEAN, task : {"sft", "sft_with_template"},
   bos : BOOLEAN, merges : BOOLEAN, right : BOOLEAN]
  \cup
  [kind : {"rag", "index"}, near : BOOLEAN, task : {"encode"},
   bos : {TRUE}, merges : {FALSE}, right : {TRUE}]

\* The order of the keys of transforms in train_rag, train_decoder and index_rag.
Order(kind) ==
  CASE kind = "rag" ->
         <<"cleaning", "deduplication", "exclusion", "validation", "tokenization", "length",
           "collate">>
    [] kind = "decoder" ->
         <<"cleaning", "deduplication", "exclusion", "validation", "prompt_formatting",
           "tokenization", "length", "collate">>
    [] kind = "index" ->
         <<"cleaning", "chunking", "metadata", "deduplication", "validation", "tokenization",
           "length", "collate">>

Raw(i) ==
  [src |-> i, from |-> 1, to |-> Len(input[i].key),
   key |-> input[i].key, doc |-> input[i].doc, neg |-> input[i].neg,
   meta |-> input[i].meta, ids |-> <<>>, plen |-> 0]

TransformsInit ==
  /\ pipe \in Pipelines
  /\ input \in Inputs(pipe.kind)
  /\ todo = Order(pipe.kind)
  /\ rows = [i \in DOMAIN input |-> Raw(i)]
  /\ seen = <<>>
  /\ batch = "none"

Map(F(_), s) == [i \in DOMAIN s |-> F(s[i])]

\* A transform takes the rows to new ones, and the next is applied to these.
Apply(name, result) ==
  /\ todo # <<>> /\ Head(todo) = name
  /\ rows' = result
  /\ todo' = Tail(todo)
  /\ UNCHANGED <<pipe, input>>

\* What s holds at the positions I, in the order of s.
Kept(s, I) ==
  [n \in 1..Cardinality(I) |->
     s[CHOOSE i \in I : Cardinality({j \in I : j < i}) = n - 1]]

Such(s, P(_)) == Kept(s, {i \in DOMAIN s : P(s[i])})

\* Where each word of a text ends, the separator after it included.
Ends(text) ==
  LET end[n \in 0..Len(text)] == IF n = 0 THEN 0 ELSE end[n - 1] + Width[text[n]] + 1
  IN  end

Chars(text) == IF text = <<>> THEN 0 ELSE Ends(text)[Len(text)] - 1
-----------------------------------------------------------------------------
(* CleaningTransform                                                       *)

Clean(text) == Such(text, LAMBDA w : w \notin Urls)

\* Negatives are not among the columns to clean.
Cleaned(r) ==
  LET key == Clean(r.key)
  IN  [r EXCEPT !.key = key, !.doc = Clean(@), !.to = Len(key)]

Cleaning ==
  /\ Apply("cleaning", Map(Cleaned, rows))
  /\ UNCHANGED <<seen, batch>>
-----------------------------------------------------------------------------
(* OverlappingChunkingTransform                                            *)

\* Words count with the separator after them.
Cost(words, from, to) == Ends(words)[to] - Ends(words)[from - 1]

\* The first of the words up to `to` that the next chunk repeats: as many from
\* the end as chunk_overlap has room for.
Repeated(words, from, to) ==
  CHOOSE i \in from..to + 1 :
    /\ Cost(words, i, to) <= ChunkOverlap
    /\ i > from => Cost(words, i - 1, to) > ChunkOverlap

\* A word that does not fit any more ends a chunk.
AddWord(words, c, w) ==
  IF c.from < w /\ Cost(words, c.from, w) > ChunkSize
    THEN [from |-> Repeated(words, c.from, w - 1), out |-> Append(c.out, <<c.from, w - 1>>)]
    ELSE c

\* The chunks after each word, as intervals of words, and where the next begins.
Cuts(words) ==
  LET cut[w \in 0..Len(words)] ==
        IF w = 0 THEN [from |-> 1, out |-> <<>>] ELSE AddWord(words, cut[w - 1], w)
  IN  cut

\* Mutant of Chunks: what is left after the last word is not emitted.
ChunksNoTail(words) ==
  LET cut == Cuts(words)[Len(words)]
  IN  IF cut.out = <<>> THEN <<<<1, Len(words)>>>> ELSE cut.out

\* What is left is the last chunk; an empty text is one empty chunk.
Chunks(words) ==
  LET cut == Cuts(words)[Len(words)]
  IN  Append(cut.out, <<cut.from, Len(words)>>)

\* The other columns are repeated for every chunk.
Chunked(r) ==
  Map(LAMBDA c : [r EXCEPT !.from = c[1], !.to = c[2], !.key = SubSeq(r.key, c[1], c[2])],
      Chunks(r.key))

\* One list after the other.
Joined(lists) ==
  LET joined[n \in 0..Len(lists)] == IF n = 0 THEN <<>> ELSE joined[n - 1] \o lists[n]
  IN  joined[Len(lists)]

Chunking ==
  /\ Apply("chunking", Joined(Map(Chunked, rows)))
  /\ UNCHANGED <<seen, batch>>
-----------------------------------------------------------------------------
(* MetadataInjectorTransform                                               *)

\* Also into a chunk that has no text.
Injected(r) == IF r.meta THEN [r EXCEPT !.key = Metadata \o @] ELSE r

MetadataInjector ==
  /\ Apply("metadata", Map(Injected, rows))
  /\ UNCHANGED <<seen, batch>>
-----------------------------------------------------------------------------
(* ExactDeduplicationTransform and MinHashDeduplicationTransform           *)

\* by the key alone: the other columns may differ
Similar(a, b) == IF pipe.near THEN Near(a.key, b.key) ELSE a.key = b.key

\* Mutant of Deduplicated: a row is compared with all rows before it.
DeduplicatedOfAll(s) ==
  Kept(s, {i \in DOMAIN s : \A j \in 1..i - 1 : ~ Similar(s[j], s[i])})

\* The index holds the rows that were kept: a row like none of them is kept.
Originals(s) ==
  LET kept[n \in 0..Len(s)] ==
        IF n = 0 THEN {}
        ELSE kept[n - 1] \cup (IF \E i \in kept[n - 1] : Similar(s[i], s[n]) THEN {} ELSE {n})
  IN  kept[Len(s)]

Deduplicated(s) == Kept(s, Originals(s))

Deduplication ==
  /\ Apply("deduplication", Deduplicated(rows))
  /\ seen' = rows
  /\ UNCHANGED batch
-----------------------------------------------------------------------------
(* BenchmarkExclusionTransform                                             *)

\* The benchmark holds raw texts, the row a cleaned one.
Exclusion ==
  /\ Apply("exclusion", Such(rows, LAMBDA r : r.key \notin Bench))
  /\ UNCHANGED <<seen, batch>>
-----------------------------------------------------------------------------
(* RAGValidationTransform and DecoderValidationTransform                   *)

Long(text) == Chars(text) >= MinText

RAGTrainingRecord(r) ==
  /\ Long(r.key) /\ Long(r.doc)
  /\ r.neg # None => Long(r.neg) /\ r.neg # r.doc

RawDatasetRecord(r) == Long(r.key) /\ r.doc # <<>>

RAGIndexingRecord(r) == Long(r.key)

Valid(r) ==
  CASE pipe.kind = "rag"     -> RAGTrainingRecord(r)
    [] pipe.kind = "decoder" -> RawDatasetRecord(r)
    [] pipe.kind = "index"   -> RAGIndexingRecord(r)

\* The columns of an invalid row are emptied, and then the filter drops it.
Validation ==
  /\ Apply("validation", Such(rows, Valid))
  /\ UNCHANGED <<seen, batch>>
-----------------------------------------------------------------------------
(* PromptFormattingTransform, and the tokenization                         *)

Formatted(r) == [r EXCEPT !.key = Template \o @]

PromptFormatting ==
  /\ Apply("prompt_formatting", Map(Formatted, rows))
  /\ UNCHANGED <<seen, batch>>

Times(token, n) == [i \in 1..n |-> token]
Truncated(s) == SubSeq(s, 1, IF Len(s) < MaxLength THEN Len(s) ELSE MaxLength)

\* Full text with special tokens; a separator that is merged is in the first
\* token of the answer.
Ids(r) ==
  Truncated(Times("bos", IF pipe.bos THEN 1 ELSE 0) \o Times("prompt", Len(r.key))
            \o Times("sep", IF pipe.merges THEN 0 ELSE 1) \o Times("answer", Len(r.doc)))

\* Mutant of PromptLen: the prompt is measured before it was formatted.
PromptLenRaw(r) == Len(Truncated(Times("prompt", Len(r.key) - Len(Template)) \o <<"sep">>))

\* The prompt with its separator, on its own and without special tokens.
PromptLen(r) == Len(Truncated(Times("prompt", Len(r.key)) \o <<"sep">>))

\* The chat template ends the answer, and its prompt alone ends where the answer
\* begins.
TemplateIds(r, target) ==
  Truncated(Times("prompt", Len(r.key)) \o <<"sep">>
            \o IF target THEN Times("answer", Len(r.doc)) \o <<"eos">> ELSE <<>>)

\* The encoder's texts take BOS and are truncated one by one.
TextIds(text) == Truncated(<<"bos">> \o Times("prompt", Len(text)))

Tokenized(r) ==
  CASE pipe.task = "sft" -> [r EXCEPT !.ids = Ids(r), !.plen = PromptLen(r)]
    [] pipe.task = "sft_with_template" ->
         [r EXCEPT !.ids = TemplateIds(r, TRUE), !.plen = Len(TemplateIds(r, FALSE))]
    [] pipe.task = "encode" -> [r EXCEPT !.ids = TextIds(r.key)]

Tokenization ==
  /\ Apply("tokenization", Map(Tokenized, rows))
  /\ UNCHANGED <<seen, batch>>

\* LengthFilterTransform, which comes after the truncation.
LengthFilter ==
  /\ Apply("length", Such(rows, LAMBDA r : Len(r.ids) <= MaxLength))
  /\ UNCHANGED <<seen, batch>>
-----------------------------------------------------------------------------
(* The collators                                                           *)

Longest == CHOOSE n \in 0..MaxLength :
             /\ \A i \in DOMAIN rows : Len(rows[i].ids) <= n
             /\ n = 0 \/ \E i \in DOMAIN rows : Len(rows[i].ids) = n

\* InstructionDataCollator: the tokens of a row the loss is about.  The first
\* prompt_len places of the padded row are masked, and the padding.
Trained(r) ==
  LET pad == IF pipe.right THEN 0 ELSE Longest - Len(r.ids)
  IN  {i \in DOMAIN r.ids : i + pad > r.plen}

\* ContrastiveDataCollator: there is a column of negatives as soon as one row has
\* one, and padding fails on a row that has none.
Mixed == \E i, j \in DOMAIN rows : rows[i].neg = None /\ rows[j].neg # None

Collate ==
  /\ Apply("collate", rows)
  /\ batch' = IF rows = <<>> THEN "none"
              ELSE IF pipe.kind = "rag" /\ Mixed THEN "failed" ELSE "made"
  /\ UNCHANGED seen

TransformsNext ==
  \/ Cleaning \/ Chunking \/ MetadataInjector \/ Deduplication \/ Exclusion
  \/ Validation \/ PromptFormatting \/ Tokenization \/ LengthFilter \/ Collate

TransformsSpec == TransformsInit /\ [][TransformsNext]_transforms
-----------------------------------------------------------------------------
(* Properties                                                              *)

Survives(r) == \E i \in DOMAIN rows : <<rows[i].src, rows[i].to>> = <<r.src, r.to>>

\* Why a row that the deduplication kept may be missing in the end.
Rejected(r) == ~Valid(r) \/ (pipe.kind # "index" /\ r.key \in Bench)

(* Nothing is lost without a reason, and nothing is kept twice.  Each row  *)
(* (or chunk) is in the result, or was rejected, or is like an earlier one *)
(* for which one of the two is so: never like one that was itself dropped  *)
(* as a duplicate.  (An original that is then rejected takes its           *)
(* duplicates with it.)  No two rows of the result are duplicates.         *)
DropsExplained ==
  todo = <<>> =>
    /\ \A i \in DOMAIN seen :
         \/ Survives(seen[i])
         \/ Rejected(seen[i])
         \/ \E j \in 1..i - 1 :
              Similar(seen[j], seen[i]) /\ (Survives(seen[j]) \/ Rejected(seen[j]))
    /\ \A i, j \in DOMAIN seen :
         i < j /\ Survives(seen[i]) /\ Survives(seen[j]) => ~Similar(seen[i], seen[j])

(* The chunks of a document cover its words in their order, each with the *)
(* words of its own, after the metadata if there are some.  Each ends      *)
(* after the one before it, repeats at most chunk_overlap characters of it *)
(* (which may be all of it), and exceeds chunk_size by less than its last  *)
(* word, as the docstring of the transform says.                           *)
ChunksCover ==
  pipe.kind = "index" /\ seen # <<>> =>
    \A d \in DOMAIN input :
      LET words == Clean(input[d].key)
          chunks == Such(seen, LAMBDA r : r.src = d)
          N == Len(chunks)
      IN  /\ N > 0 /\ chunks[1].from = 1 /\ chunks[N].to = Len(words)
          /\ \A c \in 1..N :
               LET k == chunks[c]
               IN  /\ k.key = (IF k.meta THEN Metadata ELSE <<>>) \o SubSeq(words, k.from, k.to)
                   /\ k.from <= k.to =>
                        Cost(words, k.from, k.to) - 1 < ChunkSize + Width[words[k.to]]
          /\ \A c \in 1..N - 1 :
               LET next == chunks[c + 1]
               IN  /\ next.from \in chunks[c].from..chunks[c].to + 1
                   /\ chunks[c].to < next.to
                   /\ Cost(words, next.from, chunks[c].to) <= ChunkOverlap

(* With padding on the right, the loss is about the answer: about no token *)
(* of the prompt, and about every token of the answer.  Its first may be   *)
(* missing without a chat template, when the tokenizer adds no BOS and     *)
(* merges it with the separator, which the prompt's length counts.         *)
LossOnAnswer ==
  pipe.kind = "decoder" /\ pipe.right /\ batch = "made" =>
    \A i \in DOMAIN rows :
      LET r == rows[i]
          Of(token) == {n \in DOMAIN r.ids : r.ids[n] = token}
      IN  /\ Trained(r) \cap (Of("prompt") \cup Of("bos")) = {}
          /\ \A n \in Of("answer") \ Trained(r) :
               pipe.task = "sft" /\ ~pipe.bos /\ pipe.merges /\ n - 1 \notin Of("answer")
-----------------------------------------------------------------------------
(* What the documentation says and the code does not keep.                 *)

(* "the separator is part of the prompt and is not trained" (the docstring *)
(* of TokenizationTransform).                                              *)
SeparatorNotTrained ==
  pipe.kind = "decoder" /\ pipe.right /\ batch = "made" =>
    \A i \in DOMAIN rows :
      {n \in DOMAIN rows[i].ids : rows[i].ids[n] = "sep"} \cap Trained(rows[i]) = {}

(* "negative_doc must not be the positive_doc" (RAGTrainingRecord), as     *)
(* raw texts.                                                              *)
NegativeDiffers ==
  pipe.kind = "rag" /\ batch = "made" =>
    \A i \in DOMAIN rows : input[rows[i].src].neg # input[rows[i].src].doc
=============================================================================
