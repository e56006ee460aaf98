---------------------------- MODULE MCTransforms ----------------------------
(***************************************************************************)
(* Words of one, three and six characters and a URL.  Keys of one or two   *)
(* words of which the first is like the second and the second like the     *)
(* third; documents of up to four words, so that a chunk of nine           *)
(* characters holds one to three of them and repeats at most one.          *)
(***************************************************************************)
EXTENDS Transforms

MCWidth == [a |-> 3, b |-> 3, x |-> 1, l |-> 6, url |-> 5]
MCUrls == {"url"}

Words(text) == {text[i] : i \in DOMAIN text}
MCNear(s, t) ==
  2 * Cardinality(Words(s) \cap Words(t)) >= Cardinality(Words(s) \cup Words(t))

MCTemplate == <<"x">>
MCMetadata == <<"l">>
MCBench == {<<"b">>, <<"url", "a">>}

Keys == {<<"a">>, <<"a", "b">>, <<"b">>, <<"url", "a">>, <<"x">>}
Row(keys, docs, negs, metas) == [key : keys, doc : docs, neg : negs, meta : metas]

MCInputs(kind) ==
  CASE kind = "rag" ->
         LET r == Row(Keys, {<<"a">>, <<"url", "a">>}, {None, <<"url", "a">>}, {FALSE})
         IN  [1..3 -> r]
    [] kind = "decoder" ->
         LET r == Row(Keys, {<<"a">>, <<"b", "a", "b">>, <<"url">>}, {None}, {FALSE})
         IN  [1..2 -> r]
    [] kind = "index" ->
         LET Texts == UNION {[1..n -> {"x", "a", "l"}] : n \in 0..4}
             r == Row(Texts, {<<>>}, {None}, BOOLEAN)
         IN  {<<d>> : d \in r} \cup
             {<<d, e>> : d \in r, e \in Row({<<"a">>, <<"x", "a">>, <<"l", "a", "x">>},
                                            {<<>>}, {None}, {FALSE})}
=============================================================================
