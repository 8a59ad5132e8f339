----------------------------- MODULE ScrapedText -----------------------------
(***************************************************************************)
(* The texts a scrape produces and what the formatters make of them        *)
(* (src/scraper/utils, src/scraper/formatters).                            *)
(*                                                                         *)
(* A text is a sequence of words, bars and line breaks.  Blanks are left   *)
(* out, so " | " is a bar and trimming only takes line breaks off.  The    *)
(* formatters' output is kept as a table: quoting, padding and rulers are  *)
(* layout.                                                                 *)
(***************************************************************************)
EXTENDS Naturals, Sequences, SequencesExt

Bar == "|"
NL  == "\n"

\* What is left of s without the elements of S, in order.
Without(s, S) == FlattenSeq([i \in DOMAIN s |-> IF s[i] \in S THEN <<>> ELSE <<s[i]>>])

\* String.split and Array.join.
Split(text, sep) ==
    LET parts[i \in 0..Len(text)] ==
            IF i = 0 THEN << <<>> >>
            ELSE LET before == parts[i - 1]
                 IN  IF text[i] = sep THEN Append(before, <<>>)
                     ELSE [before EXCEPT ![Len(before)] = Append(@, text[i])]
    IN  parts[Len(text)]

Join(parts, sep) ==
    IF parts = <<>> THEN <<>>
    ELSE Tail(FlattenSeq([i \in DOMAIN parts |-> <<sep>> \o parts[i]]))

NonEmpty(texts) == Without(texts, {<<>>})

Trim(text) ==
    LET Visible(c) == c # NL
        first == SelectInSeq(text, Visible)
    IN  IF first = 0 THEN <<>>
        ELSE SubSeq(text, first, SelectLastInSeq(text, Visible))

normalizeScrapedText(raw) == Join(NonEmpty(Split(raw, NL)), NL)

Cell(cells, i) == IF i <= Len(cells) THEN cells[i] ELSE <<>>

\* Row i holds the i-th text of every column; a column that has ended gives
\* empty cells.
zipColumns(columns) ==
    LET rowCount == Max({Len(columns[c]) : c \in DOMAIN columns} \cup {0})
    IN  Join([i \in 1..rowCount |->
                 Join([c \in DOMAIN columns |-> Cell(columns[c], i)], Bar)], NL)

parseRows(raw) ==
    LET lines == NonEmpty(Split(raw, NL))
    IN  [i \in DOMAIN lines |-> Split(lines[i], Bar)]

-----------------------------------------------------------------------------
\* The formatters.  All but CSV take the layout from the first row.

Label(fieldNames, c) ==
    IF c <= Len(fieldNames) THEN fieldNames[c] ELSE <<"field", c>>

isMultiField(rows) == Len(rows[1]) > 1
FirstCells(rows)   == [i \in DOMAIN rows |-> rows[i][1]]
colCount(rows)     == Max({Len(rows[i]) : i \in DOMAIN rows})
Padded(rows)       == [i \in DOMAIN rows |->
                          [c \in 1..colCount(rows) |-> Cell(rows[i], c)]]

\* More names than columns widen the header alone.
CsvFormat(rows, fieldNames) ==
    LET width == Max({colCount(rows), Len(fieldNames)})
    IN  <<[c \in 1..width |-> Label(fieldNames, c)]>> \o Padded(rows)

\* Object.fromEntries: of two cells under one name the later stays.
JsonFormat(rows, fieldNames) ==
    IF ~isMultiField(rows) THEN FirstCells(rows)
    ELSE [i \in DOMAIN rows |->
             [name \in {Label(fieldNames, c) : c \in DOMAIN rows[i]} |->
                 rows[i][Max({c \in DOMAIN rows[i] :
                                     Label(fieldNames, c) = name})]]]

MdFormat(rows, fieldNames) ==
    IF ~isMultiField(rows) THEN FirstCells(rows)
    ELSE <<[c \in 1..colCount(rows) |-> Label(fieldNames, c)]>> \o Padded(rows)

TxtFormat(rows, fieldNames) ==
    IF ~isMultiField(rows) THEN FirstCells(rows)
    ELSE [i \in DOMAIN rows |->
             [c \in DOMAIN rows[i] |-> <<Label(fieldNames, c), rows[i][c]>>]]

OutputFormats == {"CSV", "JSON", "MD", "TXT"}

\* FormatterFactoryService.get(format, fieldNames).format(raw).
Format(format, raw, fieldNames) ==
    LET rows == parseRows(raw)
    IN  IF rows = <<>> THEN <<>>
        ELSE CASE format = "CSV"  -> CsvFormat(rows, fieldNames)
               [] format = "JSON" -> JsonFormat(rows, fieldNames)
               [] format = "MD"   -> MdFormat(rows, fieldNames)
               [] OTHER           -> TxtFormat(rows, fieldNames)

\* What a reader of the output, who knows how many fields there are and how
\* they are called, finds in row i and column c.
Headed(format, fields) == format = "CSV" \/ (format = "MD" /\ fields > 1)

ReadCell(format, out, fieldNames, fields, i, c) ==
    IF Headed(format, fields) THEN out[i + 1][c]
    ELSE IF fields = 1 THEN out[i]
    ELSE IF format = "JSON" THEN out[i][Label(fieldNames, c)]
    ELSE out[i][c][2]

ReadRows(format, out, fields) ==
    IF out = <<>> THEN 0
    ELSE IF Headed(format, fields) THEN Len(out) - 1
    ELSE Len(out)
=============================================================================
