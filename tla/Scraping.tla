------------------------------- MODULE Scraping -------------------------------
(***************************************************************************)
(* One scrape of one site, by BasicScraperService (pages fetched and       *)
(* parsed) or by SmartScraperService (a page of a browser that is shared   *)
(* with the scrapes before and after).  Each await is a step.              *)
(*                                                                         *)
(* A site is what the extractor finds at each address: for every selector  *)
(* the texts of its elements, and where the pagination selector (next) and *)
(* the smart scraper's fallback selectors (alt) lead.  Cheerio, axios and  *)
(* Puppeteer are external: their calls answer or reject.                   *)
(***************************************************************************)
EXTENDS ScrapedText

CONSTANTS
    Words,       \* what texts are made of, beside bars and line breaks
    Pages,       \* addresses
    Sites,       \* sites, see Site
    Requests,    \* what a scrape can be asked for, see Request
    NameLists,   \* fieldNames of datapoints, <<>> if there are none
    None,        \* null
    MaxFaults    \* bound: calls that reject although the browser is there

Text == Seq(Words \cup {Bar, NL})
Site == [Pages -> [columns : Seq(Seq(Text)), next : Pages \cup {None},
                   disabled : BOOLEAN, alt : Pages \cup {None}]]

\* maxPages is 0 for a request without pagination.
Request == [kind : {"BASIC", "SMART"}, start : Pages, maxPages : Nat]

\* The selectors are those of the datapoint, the same on every page, and there
\* is one at least: a path of commas alone is left out.
ASSUME ScrapingAssumption ==
    /\ Sites \subseteq Site /\ Requests \subseteq Request
    /\ \A site \in Sites, p, q \in Pages :
          site[p].columns # <<>> /\ Len(site[p].columns) = Len(site[q].columns)
    /\ {Bar, NL} \cap Words = {} /\ None \notin Pages
    /\ MaxFaults \in Nat

VARIABLES
    request, site,   \* what is asked for, and what is out there
    pc,              \* the await the scrape is at
    at,              \* the page it is on
    page,            \* pages extracted
    rows,            \* the pages whose text it has kept (allRows)
    result,          \* what the scrape will do once its page is closed
    browser,         \* the shared browser
    open,            \* pages open in it
    faults           \* how much of the bound is used

inputs == <<request, site>>
work   == <<at, page, rows>>
shared == <<browser, open>>
vars   == <<inputs, pc, work, result, shared, faults>>

Ended == {"done", "failed", "abandoned"}

TypeOK ==
    /\ request \in Request /\ site \in Site
    /\ pc \in {"start", "newPage", "setup", "load", "extract", "next", "close"}
              \cup Ended
    /\ at \in Pages
    /\ page \in 0..request.maxPages
    /\ rows \in Seq(Pages)
    /\ result \in {"done", "failed", None}
    /\ browser \in {"none", "up", "lost"}
    /\ open \in 0..1
    /\ faults \in 0..MaxFaults

\* An earlier scrape may have left the browser running, or lost it; a basic
\* one does not look.
Init ==
    /\ request \in Requests /\ site \in Sites
    /\ pc = IF request.kind = "SMART" THEN "start" ELSE "load"
    /\ at = request.start
    /\ page = 0 /\ rows = <<>>
    /\ result = None
    /\ browser \in IF request.kind = "SMART" THEN {"none", "up", "lost"} ELSE {"none"}
    /\ open = 0 /\ faults = 0
-----------------------------------------------------------------------------
Smart == request.kind = "SMART"
Paged == request.maxPages > 0

Goto(here, there) == pc = here /\ pc' = there

\* scrape returns or rejects; SmartScraperService closes its page first.
Finish(verdict) ==
    /\ pc' = IF Smart THEN "close" ELSE verdict
    /\ result' = verdict

\* getBrowser: launched when there is none, or none that is connected.
GetBrowser ==
    /\ Goto("start", "newPage")
    /\ browser' = "up"
    /\ UNCHANGED <<inputs, work, result, open, faults>>

NewPage ==
    /\ Goto("newPage", "setup")
    /\ browser = "up"
    /\ open' = open + 1
    /\ UNCHANGED <<inputs, work, result, browser, faults>>

\* Mutant: a page is set up on a second page.
SetUpAnother ==
    /\ Goto("setup", "newPage")
    /\ browser = "up"
    /\ UNCHANGED <<inputs, work, result, shared, faults>>

SetUpPage ==
    /\ Goto("setup", "load")
    /\ browser = "up"
    /\ UNCHANGED <<inputs, work, result, shared, faults>>

\* fetchHtml and navigate.  The smart scraper has gone on to the next page
\* when it finds that it has extracted enough.
Load ==
    /\ pc = "load"
    /\ Smart => browser = "up"
    /\ IF Paged /\ page = request.maxPages
       THEN Finish("done")
       ELSE pc' = "extract" /\ UNCHANGED result
    /\ UNCHANGED <<inputs, at, page, rows, shared, faults>>

-----------------------------------------------------------------------------
\* extract.

\* Mutant: elements without a text are kept.
Unfiltered(column) == [i \in DOMAIN column |-> Trim(column[i])]

\* The trimmed texts of the elements a selector matches.
Texts(column) == NonEmpty([i \in DOMAIN column |-> Trim(column[i])])
Columns(p)    == [c \in DOMAIN site[p].columns |-> Texts(site[p].columns[c])]

\* With a single selector, a page on which it finds no text is an error.
Missing(p) == Columns(p) = << <<>> >>

Extracted(p) ==
    IF Len(Columns(p)) = 1 THEN Join(Columns(p)[1], NL) ELSE zipColumns(Columns(p))

ExtractNothing ==
    /\ pc = "extract" /\ Missing(at)
    /\ Smart => browser = "up"
    /\ Finish("failed")
    /\ UNCHANGED <<inputs, work, shared, faults>>

\* Mutant: a page is kept once its successor is known, the last one never.
KeepUnlessLast(p) == IF site[p].next = None THEN rows ELSE Append(rows, p)

\* A page on which none of several selectors finds a text is left out.
Keep(p) == IF Range(Columns(p)) = {<<>>} THEN rows ELSE Append(rows, p)

ExtractOnly ==
    /\ pc = "extract" /\ ~Paged /\ ~Missing(at)
    /\ Smart => browser = "up"
    /\ Finish("done")
    /\ rows' = Keep(at)
    /\ UNCHANGED <<inputs, at, page, shared, faults>>

ExtractPage ==
    /\ Goto("extract", "next")
    /\ Paged /\ ~Missing(at)
    /\ Smart => browser = "up"
    /\ rows' = Keep(at)
    /\ UNCHANGED <<inputs, at, page, result, shared, faults>>

\* The text returned.  Without pagination the smart scraper does not normalise
\* several columns.
Returned ==
    LET raw == Join([i \in DOMAIN rows |-> Extracted(rows[i])], NL)
    IN  IF Smart /\ ~Paged /\ Len(Columns(at)) > 1 THEN raw
        ELSE normalizeScrapedText(raw)

-----------------------------------------------------------------------------
\* The next page.

\* The basic scraper takes the href as it is; the smart one skips a link that
\* is disabled and tries its fallbacks.
NextPage(kind, p) ==
    IF kind = "SMART" /\ (site[p].disabled \/ site[p].next = None)
    THEN site[p].alt ELSE site[p].next

\* Both loops end when there is no next page; the basic one also when it has
\* maxPages pages, which it finds before it fetches another.
Follow(p) ==
    /\ IF p = None
       THEN /\ Finish("done")
            /\ UNCHANGED <<at, page>>
       ELSE /\ at' = p
            /\ page' = page + 1
            /\ IF ~Smart /\ page' = request.maxPages
               THEN Finish("done")
               ELSE pc' = "load" /\ UNCHANGED result
    /\ UNCHANGED <<inputs, rows, shared>>

\* With the browser gone, every lookup of the smart scraper rejects and its
\* catch block takes that for a missing link.
FollowNext ==
    /\ pc = "next"
    /\ Follow(IF Smart /\ browser # "up" THEN None
              ELSE NextPage(request.kind, at))
    /\ UNCHANGED faults

\* The same catch block swallows a lookup that fails for another reason, as
\* when a script navigates meanwhile.
LookupFails ==
    /\ pc = "next" /\ Smart
    /\ faults < MaxFaults
    /\ faults' = faults + 1
    /\ \E p \in {site[at].alt, None} : Follow(p)

\* The finally block.
ClosePage ==
    /\ pc = "close" /\ browser = "up"
    /\ pc' = result
    /\ open' = 0
    /\ UNCHANGED <<inputs, work, result, browser, faults>>

-----------------------------------------------------------------------------
\* Rejected calls, and the browser.

\* The calls outside the try block, of which openPage comes first: what it has
\* opened when it fails stays open.
Unguarded == {"start", "newPage", "setup", "close"}

\* Mutant: the page is closed where scrape returns, not in a finally block.
RejectUnclosed ==
    /\ pc \in Unguarded \cup {"load", "extract"} \/ (pc = "next" /\ ~Smart)
    /\ pc' = IF pc \in Unguarded THEN "abandoned" ELSE "failed"
    /\ UNCHANGED <<inputs, work, result, shared>>

Reject ==
    /\ pc \in Unguarded \cup {"load", "extract"} \/ (pc = "next" /\ ~Smart)
    /\ IF pc \in Unguarded
       THEN pc' = "abandoned" /\ UNCHANGED result
       ELSE Finish("failed")
    /\ UNCHANGED <<inputs, work, shared>>

CallFails ==
    /\ faults < MaxFaults
    /\ faults' = faults + 1
    /\ Reject

\* Mutant: calls wait for the browser to come back.
BrowserAwaited == Smart /\ browser # "up" /\ pc # "start" /\ UNCHANGED vars

\* Every call on a browser that is gone rejects; the next scrape launches one.
BrowserGone ==
    /\ Smart /\ browser # "up" /\ pc # "start"
    /\ Reject
    /\ UNCHANGED faults

\* The browser crashes, or onModuleDestroy closes it.
LoseBrowser(why) ==
    /\ browser = "up"
    /\ browser' = why
    /\ open' = 0
    /\ UNCHANGED <<inputs, pc, work, result, faults>>

Stop == pc \in Ended /\ UNCHANGED vars

Scrape ==
    \/ GetBrowser \/ NewPage \/ SetUpPage \/ Load
    \/ ExtractNothing \/ ExtractOnly \/ ExtractPage
    \/ FollowNext \/ ClosePage \/ BrowserGone

Next ==
    \/ Scrape
    \/ CallFails \/ LookupFails
    \/ LoseBrowser("lost") \/ LoseBrowser("none")
    \/ Stop

Spec == Init /\ [][Next]_vars

\* The worker keeps driving the scrape; every call has a timeout of its own.
FairSpec == Spec /\ WF_vars(Scrape)
-----------------------------------------------------------------------------
\* Properties.

\* The pages a scrape is to read, and what a reader of the site sees there:
\* row by row the texts of the columns, blank ones left out.
Limit == IF Paged THEN request.maxPages ELSE 1
Chain[k \in 1..Limit] ==
    IF k = 1 THEN request.start
    ELSE IF Chain[k - 1] = None THEN None
    ELSE NextPage(request.kind, Chain[k - 1])
Read == Without(Chain, {None})
Blank == Seq({NL})
PageTable(p) ==
    LET columns == [c \in DOMAIN site[p].columns |->
                       Without(site[p].columns[c], Blank)]
        height  == Max({Len(columns[c]) : c \in DOMAIN columns} \cup {0})
    IN  [i \in 1..height |-> [c \in DOMAIN columns |-> Cell(columns[c], i)]]
Table == LET read == Read
         IN  FlattenSeq([k \in DOMAIN read |-> PageTable(read[k])])

Complete == pc = "done" /\ faults = 0

\* A scrape that reports success without a failed lookup has all the words of
\* all its pages, in order: line breaks and bars inside a text may move cells
\* but lose none, and a browser that is lost on the way never passes for a
\* site that has no next page (BasicScraperService, SmartScraperService).
WordsKept == Complete =>
    Without(Returned, {Bar, NL}) = Without(FlattenSeq(FlattenSeq(Table)), {Bar, NL})

\* When no text but a blank one holds a line break, and none a bar, the row a
\* text was on and the column of its selector survive joining, normalising,
\* parsing and formatting, in every output format and under any field names
\* that tell the columns apart (scraper-text.ts, parse-rows.ts, the formatters).
Plain == \A p \in Pages : \A c \in DOMAIN site[p].columns :
    \A i \in DOMAIN site[p].columns[c] : site[p].columns[c][i] \in Seq(Words) \cup Blank
Fields == Len(site[request.start].columns)
Distinct(names) == \A c, d \in 1..Fields :
    Label(names, c) = Label(names, d) => c = d
TableKept == Complete /\ Plain =>
    LET table == Table  out == Returned IN
    \A format \in OutputFormats, names \in {l \in NameLists : Distinct(l)} :
        LET text == Format(format, out, names)
        IN  /\ ReadRows(format, text, Fields) = Len(table)
            /\ \A i \in DOMAIN table, c \in 1..Fields :
                   ReadCell(format, text, names, Fields, i, c) = table[i][c]

\* However a scrape ends, it leaves no page open in the browser it shares,
\* except when opening or closing the page is what failed.
PageClosed ==
    /\ pc \in {"done", "failed"} => open = 0
    /\ pc = "abandoned" /\ faults = 0 => open = 0

\* A scrape ends, also when the browser is lost at any step and when the links
\* of the site form a cycle.
ScrapeEnds == <>(pc \in Ended)
=============================================================================
