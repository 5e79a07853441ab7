---------------------------- MODULE EvidenceText ----------------------------
(***************************************************************************)
(* What is done with evidence on its way into a prompt, as functions of    *)
(* their input: the choice of the headlines of a brief (_select_diverse of *)
(* services/news_research.py), and the split of a filing's excerpt into    *)
(* chunks for the summariser and the merge of what it says of them         *)
(* (_chunks, _merge of services/filing_briefs.py).                         *)
(*                                                                         *)
(* A headline is its category, its place the rank of its score.  A         *)
(* paragraph is its length.  An answer of the summariser is what it says   *)
(* about the fields that are merged; a key point is a model value.         *)
(***************************************************************************)
EXTENDS Integers, Sequences, SequencesExt, FiniteSets

CONSTANTS Categories, MaxRows, MaxLimit,   \* bounds on the input
          ParagraphLengths, MaxParagraphs, ChunkSizes,
          PointLists, MaxAnswers,
          PointLimit   \* key points of a brief

ASSUME TextAssumption ==
    /\ {MaxRows, MaxLimit, MaxParagraphs, MaxAnswers} \subseteq Nat /\ PointLimit \in Nat \ {0}
    /\ ParagraphLengths \subseteq Nat /\ ChunkSizes \subseteq Nat \ {0}
    /\ \A list \in PointLists : list \in Seq(ToSet(list))

Guidance == {"raised", "lowered", "maintained", "none", "unknown"}
Tones == {"positive", "neutral", "negative"}

\* What the model may say: no JSON or another status, too little text, or a summary
\* with a guidance and a tone that may be none of the known ones.
Answers ==
    [status : {"other", "insufficient_text"}]
    \cup [status : {"ok"}, guidance : (Guidance \ {"unknown"}) \cup {"invented"},
          points : PointLists, tone : (Tones \ {"neutral"}) \cup {"invented"}]

VARIABLE text    \* the input

TextInit ==
    \/ text \in [of : {"rows"}, rows : BoundedSeq(Categories, MaxRows), limit : 0..MaxLimit]
    \/ text \in [of : {"excerpt"}, size : ChunkSizes,
                 paragraphs : BoundedSeq(ParagraphLengths, MaxParagraphs) \ {<<>>}]
    \/ text \in [of : {"answers"}, answers : BoundedSeq(Answers, MaxAnswers) \ {<<>>}]

-----------------------------------------------------------------------------
(* _select_diverse *)

\* The first pass: the best item of each category, or everything if it fits.
TakesFirst(rows, limit, chosen, i) ==
    /\ Len(chosen) < limit
    /\ (\A j \in ToSet(chosen) : rows[j] # rows[i]) \/ Len(rows) <= limit

\* What is selected after each number of rows, by the first pass and by the second.
FirstPass(rows, limit) ==
    LET selected[n \in 0..Len(rows)] ==
            IF n = 0 THEN <<>>
            ELSE LET before == selected[n - 1]
                 IN  IF TakesFirst(rows, limit, before, n) THEN Append(before, n) ELSE before
    IN  selected

SecondPass(rows, limit) ==
    LET selected[n \in 0..Len(rows)] ==
            IF n = 0 THEN FirstPass(rows, limit)[Len(rows)]
            ELSE LET before == selected[n - 1]
                 IN  IF Len(before) < limit /\ ~Contains(before, n) THEN Append(before, n) ELSE before
    IN  selected

SelectDiverse(rows, limit) == SecondPass(rows, limit)[Len(rows)]
-----------------------------------------------------------------------------
(* _chunks *)

\* _hard_split
HardSplit(length, size) ==
    LET full == length \div size
        pieces == [i \in 1..full |-> size]
    IN  IF length % size = 0 THEN pieces ELSE Append(pieces, length % size)

Pieces(paragraphs, size) ==
    FlattenSeq([i \in DOMAIN paragraphs |->
        IF paragraphs[i] <= size THEN <<paragraphs[i]>> ELSE HardSplit(paragraphs[i], size)])

SumOf(seq) ==
    LET sum[n \in 0..Len(seq)] == IF n = 0 THEN 0 ELSE sum[n - 1] + seq[n]
    IN  sum[Len(seq)]

\* Every piece is counted with a line break after it.
Overflows(current, piece, size) ==
    current # <<>> /\ SumOf(current) + Len(current) + piece + 1 > size

Pack(chunks, piece, size) ==
    IF Overflows(chunks.current, piece, size)
    THEN [done |-> Append(chunks.done, chunks.current), current |-> <<piece>>]
    ELSE [chunks EXCEPT !.current = Append(@, piece)]

\* The chunks after each number of pieces.
Packed(pieces, size) ==
    LET packed[n \in 0..Len(pieces)] ==
            IF n = 0 THEN [done |-> <<>>, current |-> <<>>] ELSE Pack(packed[n - 1], pieces[n], size)
    IN  packed

Chunks(paragraphs, size) ==
    LET pieces == Pieces(paragraphs, size)
        packed == Packed(pieces, size)[Len(pieces)]
    IN  IF packed.current = <<>> THEN packed.done ELSE Append(packed.done, packed.current)

\* The length of the pieces joined by line breaks.
Joined(chunk) == SumOf(chunk) + Len(chunk) - 1
-----------------------------------------------------------------------------
(* _summarize: one answer for each chunk *)

\* _validate, bounded lists included; an answer that is rejected is left out.
Rejected(answer) == answer.status = "other" \/ (answer.status = "ok" /\ answer.points = <<>>)

\* No list is longer than a brief may have.
Bounded(points) == SubSeq(points, 1, IF Len(points) < PointLimit THEN Len(points) ELSE PointLimit)

Valid(answer) ==
    IF answer.status # "ok" THEN answer
    ELSE [answer EXCEPT !.guidance = IF @ \in Guidance THEN @ ELSE "unknown",
                        !.points = Bounded(@),
                        !.tone = IF @ \in Tones THEN @ ELSE "neutral"]

\* _merge_guidance
MergeGuidance(values) ==
    CASE {"raised", "lowered"} \subseteq values -> "unknown"
      [] "raised" \in values /\ "lowered" \notin values -> "raised"
      [] "lowered" \in values /\ "raised" \notin values -> "lowered"
      [] values \cap {"raised", "lowered"} = {} ->
            IF "maintained" \in values THEN "maintained"
            ELSE IF "none" \in values THEN "none" ELSE "unknown"

\* _merge_tone
MergeTone(answers, oks) ==
    LET count(tone) == Cardinality({i \in oks : Valid(answers[i]).tone = tone})
    IN  IF count("positive") > count("negative") THEN "positive"
        ELSE IF count("negative") > count("positive") THEN "negative" ELSE "neutral"

\* _dedupe: the first of what is the same but for its case.
Dedupe(items) ==
    LET seen[n \in 0..Len(items)] ==
            IF n = 0 THEN <<>>
            ELSE LET before == seen[n - 1]
                 IN  IF Contains(before, items[n]) THEN before ELSE Append(before, items[n])
    IN  seen[Len(items)]

\* _merge, of the parts that have a summary, in their order
Merge(answers, oks) ==
    LET said == FlattenSeq([i \in DOMAIN answers |-> IF i \in oks THEN Valid(answers[i]).points ELSE <<>>])
    IN  IF oks = {} THEN [status |-> "insufficient_text"]
        ELSE [status |-> "ok", guidance |-> MergeGuidance({Valid(answers[i]).guidance : i \in oks}),
              points |-> Bounded(Dedupe(said)), tone |-> MergeTone(answers, oks)]

Accepted(answers) == {i \in DOMAIN answers : ~Rejected(answers[i])}

Usable(answers) == {i \in Accepted(answers) : answers[i].status = "ok"}

Summary(answers) ==
    IF Accepted(answers) = {} THEN [status |-> "metadata_only"]
    ELSE IF Cardinality(Accepted(answers)) = 1
         THEN Valid(answers[CHOOSE i \in Accepted(answers) : TRUE])
         ELSE Merge(answers, Usable(answers))
-----------------------------------------------------------------------------
\* A brief holds as many headlines as it may and as there are, each once; it covers
\* as many kinds of events as it can; and a headline is passed over for one with a
\* lower score only if that one is the best of its kind and the headline is not.
SelectionIsDiverse(rows, limit) ==
    LET chosen == ToSet(SelectDiverse(rows, limit))
        Best(i) == \A j \in 1..(i - 1) : rows[j] # rows[i]
        least(a, b) == IF a < b THEN a ELSE b
    IN  /\ Len(SelectDiverse(rows, limit)) = least(Len(rows), limit)
        /\ Cardinality(chosen) = least(Len(rows), limit)
        /\ Cardinality({rows[i] : i \in chosen}) = least(Cardinality(ToSet(rows)), limit)
        /\ \A i \in chosen : \A j \in 1..(i - 1) :
              j \notin chosen => Best(i) /\ ~Best(j)

\* No part of an excerpt is lost, repeated or moved by the split, and the summariser
\* is never given more than the size it was promised.
ChunksFit(paragraphs, size) ==
    LET chunks == Chunks(paragraphs, size)
    IN  /\ FlattenSeq(chunks) = Pieces(paragraphs, size)
        /\ SumOf(Pieces(paragraphs, size)) = SumOf(paragraphs)
        /\ \A i \in DOMAIN chunks : chunks[i] # <<>> /\ Joined(chunks[i]) <= size

\* A brief of a filing says no more than its parts do: it has a summary when one of them
\* has; its points are theirs, in their order, no more than a brief may have, all of them
\* unless it is full, and each once if there are parts to merge; a guidance is one that a
\* part gave and no other contradicts; and neither the guidance nor the tone depends on
\* the order of the parts.
SummaryIsSound(answers) ==
    LET brief == Summary(answers)
        usable == Usable(answers)
        Points(i) == ToSet(Valid(answers[i]).points)
        said == {answers[i].guidance : i \in usable}
    IN  /\ brief.status = "ok" <=> usable # {}
        /\ brief.status = "metadata_only" <=> Accepted(answers) = {}
        /\ brief.status = "ok" =>
              /\ brief.points # <<>> /\ Len(brief.points) <= PointLimit
              /\ Cardinality(Accepted(answers)) > 1 => IsInjective(brief.points)
              /\ ToSet(brief.points) \subseteq UNION {Points(i) : i \in usable}
              /\ Len(brief.points) < PointLimit => UNION {Points(i) : i \in usable} \subseteq ToSet(brief.points)
              /\ \A k, l \in DOMAIN brief.points : k < l =>
                    \E i \in usable : /\ brief.points[k] \in Points(i)
                                      /\ \A j \in usable : brief.points[l] \in Points(j) => i <= j
              /\ brief.guidance \in said \cup {"unknown"}
              /\ brief.guidance = "raised" => "lowered" \notin said
              /\ brief.guidance = "lowered" => "raised" \notin said
              /\ brief.guidance = "none" => said \subseteq {"none", "invented"}
              /\ brief.guidance = Summary(Reverse(answers)).guidance
              /\ brief.tone = Summary(Reverse(answers)).tone

\* All three, for every input there is.
TextIsFit ==
    /\ text.of = "rows" => SelectionIsDiverse(text.rows, text.limit)
    /\ text.of = "excerpt" => ChunksFit(text.paragraphs, text.size)
    /\ text.of = "answers" => SummaryIsSound(text.answers)
=============================================================================
