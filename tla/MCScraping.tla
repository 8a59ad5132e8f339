------------------------------ MODULE MCScraping ------------------------------
(***************************************************************************)
(* Instances of Scraping for TLC: up to three pages, one or two selectors, *)
(* and the contents and links that the scrapers treat differently.         *)
(***************************************************************************)
EXTENDS Scraping

MCWords == {"a", "b"}
MCPages == 1..3

\* An element's text: plain, blank, or broken by a line break or a bar.
a == <<"a">>
b == <<"b">>
blank == <<NL>>
broken == <<NL, "a", NL, "b">>
barred == <<"a", Bar, "b">>

OneColumn  == { << <<a, b>> >>, << <<b>> >>, << << <<>>, blank>> >>,
                << <<broken, a>> >>, << <<barred>> >> }
TwoColumns == { << <<a, b>>, <<b>> >>, << <<>>, <<a>> >>, << <<blank>>, <<>> >>,
                << <<barred>>, <<broken>> >>, << <<blank, b>>, <<a>> >> }

\* Straight, cyclic, a page without a link, a disabled one, fallbacks.
Link(n, d, f) == [next |-> n, disabled |-> d, alt |-> f]
Links == {
    <<Link(2, FALSE, None), Link(3, FALSE, None), Link(None, FALSE, None)>>,
    <<Link(2, FALSE, 2), Link(1, FALSE, 1), Link(None, FALSE, None)>>,
    <<Link(2, FALSE, None), Link(3, TRUE, None), Link(1, FALSE, None)>>,
    <<Link(None, FALSE, 2), Link(None, FALSE, None), Link(None, FALSE, None)>>,
    <<Link(2, TRUE, 3), Link(None, FALSE, None), Link(3, FALSE, 3)>> }

MCSites == { [p \in MCPages |->
                 [columns |-> content[p], next |-> links[p].next,
                  disabled |-> links[p].disabled, alt |-> links[p].alt]] :
             content \in [MCPages -> OneColumn] \cup [MCPages -> TwoColumns],
             links \in Links }

MCRequests == [kind : {"BASIC", "SMART"}, start : {1}, maxPages : {0, 2, 3}]

\* None, fewer than the columns, more, two alike, and one that a generated
\* name would equal.
MCNameLists == { <<>>, << <<"x", 0>> >>, << <<"x", 0>>, <<"y", 0>>, <<"z", 0>> >>,
                 << <<"x", 0>>, <<"x", 0>> >>, << <<"field", 2>> >> }
=============================================================================
