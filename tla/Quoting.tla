------------------------------ MODULE Quoting -------------------------------
(***************************************************************************)
(* The words of a passage: which part numbers a text contains (domain.py),  *)
(* where its sentences are, which of them to quote, and where in the        *)
(* document a quote is (citations.py).                                      *)
(*                                                                          *)
(* A text is a sequence of letters.  " " is a space, "|" the end of a line, *)
(* "." a full stop.  A part number is "P", its two letters and hyphen,      *)
(* directly followed by "Q" or "R", the rest of it.  Any other letter is a  *)
(* whole word; words next to one another with nothing between make none of  *)
(* the texts used here.  Offsets count from zero and an end is exclusive.   *)
(***************************************************************************)
EXTENDS Integers, Sequences, FiniteSets

CONSTANTS
    MaxQuoteSentences,   \* MAX_QUOTE_SENTENCES, 3 in the code
    MaxQuoteChars        \* MAX_QUOTE_CHARS, 480 in the code

ASSUME QuotingAssumption == MaxQuoteSentences \in Nat \ {0} /\ MaxQuoteChars \in Nat \ {0}

LineEnd == "|"
Blank == {" ", LineEnd}
Tails == {"Q", "R"}

\* What may follow or come before a part number: \b, so no letter of a word.
Boundary(text, i) == i \notin DOMAIN text \/ text[i] \in Blank \union {"."}

\* "P" ends in a hyphen, so a number may follow another's beginning.
PartNumbersIn(text) ==
    {<<text[i], text[i + 1]>> :
       i \in {j \in 1..(Len(text) - 1) : /\ text[j] = "P" /\ text[j + 1] \in Tails
                                         /\ Boundary(text, j - 1) \/ text[j - 1] = "P"
                                         /\ Boundary(text, j + 2)}}

TokensIn(text) == {text[i] : i \in DOMAIN text} \ (Blank \union {"."})

Slice(text, span) == SubSeq(text, span.start + 1, span.end)

-----------------------------------------------------------------------------
(* What to quote *)

\* Where the sentence that begins at an offset ends: after a full stop that white space or the
\* end of the text follows, or where its line ends.
SentenceEnd(text, start) ==
    LET ends == {end \in (start + 1)..Len(text) :
                   \/ end = Len(text) \/ text[end + 1] = LineEnd
                   \/ end > start + 1 /\ text[end] = "." /\ text[end + 1] \in Blank}
    IN  CHOOSE end \in ends : \A other \in ends : end <= other

Visible(text, from) == {at \in from..(Len(text) - 1) : text[at + 1] \notin Blank}

\* The sentence that begins with the first visible letter left.
NextSentence(text, from) ==
    LET first == CHOOSE at \in Visible(text, from) : \A other \in Visible(text, from) : at <= other
    IN  [start |-> first, end |-> SentenceEnd(text, first)]

\* The sentences left at every offset, one after another.
SpansFrom(text) ==
    LET spans[from \in 0..Len(text)] ==
            IF Visible(text, from) = {}
              THEN <<>>
              ELSE <<NextSentence(text, from)>> \o spans[NextSentence(text, from).end]
    IN  spans

SentenceSpans(text) == SpansFrom(text)[0]

CoveredTerms(window, terms) == Cardinality(terms \intersect TokensIn(window))

\* One sentence, or a few that together stay under the cap.
QuoteWindows(text) ==
    LET spans == SentenceSpans(text)
    IN  {[start |-> spans[window[1]].start, end |-> spans[window[2]].end] :
           window \in {w \in (DOMAIN spans) \X (DOMAIN spans) :
                           /\ w[1] <= w[2] /\ w[2] < w[1] + MaxQuoteSentences
                           /\ w[1] = w[2] \/ spans[w[2]].end - spans[w[1]].start <= MaxQuoteChars}}

\* Most terms first, then the shorter, then the earlier.  A text with no sentence is a blank one:
\* any other has at least the rest of its line, so the fallback never has anything to cut.
SelectQuoteSpan(text, terms) ==
    LET covered(w) == CoveredTerms(Slice(text, w), terms)
        length(w) == w.end - w.start
        better(v, w) == \/ covered(v) > covered(w)
                        \/ covered(v) = covered(w) /\ length(v) < length(w)
                        \/ covered(v) = covered(w) /\ length(v) = length(w) /\ v.start < w.start
    IN  IF QuoteWindows(text) = {}
          THEN [start |-> 0, end |-> 0]
          ELSE CHOOSE w \in QuoteWindows(text) : \A v \in QuoteWindows(text) : ~better(v, w)

-----------------------------------------------------------------------------
(* Where it is *)

\* Mutant: the offset into the passage is published as one into the document.
CitationInThePassage(c, terms) ==
    LET span == SelectQuoteSpan(c.text, terms)
    IN  [chunk_id |-> c.chunk_id, document_id |-> c.document_id, quote |-> Slice(c.text, span),
         start_offset |-> span.start, end_offset |-> span.end]

BuildCitation(c, terms) ==
    LET span == SelectQuoteSpan(c.text, terms)
    IN  [chunk_id |-> c.chunk_id, document_id |-> c.document_id, quote |-> Slice(c.text, span),
         start_offset |-> c.start_offset + span.start, end_offset |-> c.start_offset + span.end]

\* One for every passage, in their order; the revision each is labelled with is in Ask.
BuildCitations(chunks, terms) == [i \in DOMAIN chunks |-> BuildCitation(chunks[i], terms)]

\* Where the passage says it is has room for its text; a citation is refused otherwise.
Located(c) == c.end_offset - c.start_offset = Len(c.text)

VerifyCitation(citation, document_text) ==
    /\ 0 <= citation.start_offset /\ citation.start_offset <= citation.end_offset
    /\ citation.end_offset <= Len(document_text)
    /\ Slice(document_text, [start |-> citation.start_offset, end |-> citation.end_offset])
         = citation.quote

\* A document that was not supplied counts against its citations.
UnfaithfulCitations(citations, document_text) ==
    {c \in citations : \/ c.document_id \notin DOMAIN document_text
                       \/ ~VerifyCitation(c, document_text[c.document_id])}
=============================================================================
