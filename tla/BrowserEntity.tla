---------------------------- MODULE BrowserEntity ----------------------------
(***************************************************************************)
(* The browser entity: the actions it registers, the pilot profile that    *)
(* exposes them, the router that picks an executor, and the two executors  *)
(* that work without a browser.  The reader of fetched pages scans the     *)
(* text for one tag at a time; here a page is a sequence of tokens, and a  *)
(* position in it an index.  Of the six levels of headings two stand for   *)
(* all, and of the meta tags the title's; labels of images are left out.   *)
(***************************************************************************)
EXTENDS Naturals, Sequences, FiniteSets, SequencesExt

CONSTANTS Markup,    \* the kinds of pieces that pages are made of
          MaxPieces  \* bound: pieces of a page

VARIABLES page,   \* the pieces the page at the URL has
          answer  \* of the last action, if it was asked for one

hvars == <<page, answer>>

-----------------------------------------------------------------------------
(* Tokens.  The value of an opening tag is its src, href, class, content   *)
(* or lang attribute, 0 for none; of a text, the text, 0 if it is blank.   *)
Open(tag, value) == [is |-> "open", tag |-> tag, value |-> value]
Close(tag) == [is |-> "close", tag |-> tag, value |-> 0]
UpperClose(tag) == [is |-> "CLOSE", tag |-> tag, value |-> 0]
Text(value) == [is |-> "text", tag |-> "", value |-> value]
Data == 99  \* a data: address
Cut == 98   \* the end of a text that was cut

\* "<tag" is found where a longer name begins with it, too.
begins(name, tag) == name = tag \/ <<tag, name>> \in {<<"p", "pre">>, <<"th", "thead">>, <<"a", "article">>}

The(option) == CHOOSE x \in option : TRUE
Else(option, default) == IF option = {} THEN default ELSE The(option)

\* What lies between the next opening tag and the first closing one after it,
\* in either case: one content, or none.
find_next_tag_content(html, tag, start) ==
  LET opens == {i \in start..Len(html) : html[i].is = "open" /\ begins(html[i].tag, tag)}
      closes == {j \in (Min(opens) + 1)..Len(html) : html[j] \in {Close(tag), UpperClose(tag)}}
  IN IF opens = {} THEN {} ELSE IF closes = {} THEN {} ELSE {SubSeq(html, Min(opens) + 1, Min(closes) - 1)}

\* A scan goes on after the next closing tag in lower case, wherever it belongs.
next_position(html, tag, pos) ==
  LET closes == {j \in pos..Len(html) : html[j] = Close(tag)}
  IN IF closes = {} THEN Len(html) + 1 ELSE Min(closes) + 1

contents(html, tag) ==
  LET from[pos \in 1..(Len(html) + 1)] ==
        LET next == find_next_tag_content(html, tag, pos)
        IN IF next = {} THEN <<>> ELSE <<The(next)>> \o from[next_position(html, tag, pos)]
  IN from[1]

strip_html_tags(html) ==
  LET texts == SelectSeq(html, LAMBDA t : t.is = "text" /\ t.value # 0)
  IN [i \in DOMAIN texts |-> texts[i].value]

stripped(htmls) == [i \in DOMAIN htmls |-> strip_html_tags(htmls[i])]
nonempty(texts) == SelectSeq(texts, LAMBDA text : text # <<>>)

-----------------------------------------------------------------------------
(* ReadabilityExtractor.                                                   *)
Block(kind, texts, value) == [kind |-> kind, texts |-> texts, value |-> value]

text_blocks(html, tag, kind) ==
  LET texts == nonempty(stripped(contents(html, tag)))
  IN [i \in DOMAIN texts |-> Block(kind, <<texts[i]>>, 0)]

images(html) ==
  LET tags == SelectSeq(html, LAMBDA t : t.is = "open" /\ t.tag = "img" /\ t.value \notin {0, Data})
  IN [i \in DOMAIN tags |-> Block("Image", <<>>, tags[i].value)]

\* The first class attribute of any tag in what it is given.
extract_code_language(code_html) ==
  LET classes == SelectSeq(code_html, LAMBDA t : t.is = "open" /\ t.tag \in {"code", "span"} /\ t.value # 0)
  IN IF classes = <<>> THEN 0 ELSE classes[1].value

code_blocks(html) ==
  LET pres == contents(html, "pre")
      code(pre) == Else(find_next_tag_content(pre, "code", 1), pre)
      blocks == [i \in DOMAIN pres |-> Block("CodeBlock", <<strip_html_tags(code(pres[i]))>>,
                                             extract_code_language(code(pres[i])))]
  IN SelectSeq(blocks, LAMBDA b : b.texts[1] # <<>>)

extract_list_items(list) == nonempty(stripped(contents(list, "li")))

list_blocks(html, tag) ==
  LET lists == contents(html, tag)
      blocks == [i \in DOMAIN lists |-> Block(tag, extract_list_items(lists[i]), 0)]
  IN SelectSeq(blocks, LAMBDA b : b.texts # <<>>)

extract_content_blocks(html) ==
  text_blocks(html, "h1", "Heading") \o text_blocks(html, "h2", "Heading")
    \o text_blocks(html, "p", "Paragraph") \o images(html) \o code_blocks(html)
    \o text_blocks(html, "blockquote", "BlockQuote") \o list_blocks(html, "ul") \o list_blocks(html, "ol")

\* The td cells of a row come before its th cells.
extract_table_cells(tr, th_only) ==
  IF th_only THEN stripped(contents(tr, "th"))
  ELSE stripped(contents(tr, "td")) \o stripped(contents(tr, "th"))

\* The cells of the first row of the head, and otherwise of the first row.
table_headers(table) ==
  LET first_row(html) == Else(find_next_tag_content(html, "tr", 1), <<>>)
      head == extract_table_cells(first_row(Else(find_next_tag_content(table, "thead", 1), <<>>)), TRUE)
  IN IF head # <<>> THEN head ELSE extract_table_cells(first_row(table), TRUE)

extract_table(table) ==
  LET headers == table_headers(table)
      trs == contents(Else(find_next_tag_content(table, "tbody", 1), table), "tr")
      cells == [i \in DOMAIN trs |-> extract_table_cells(trs[i], FALSE)]
  IN [headers |-> headers,
      rows |-> SelectSeq(cells, LAMBDA row : row # <<>> /\ (headers = <<>> \/ row # headers))]

extract_tables(html) ==
  LET tables == contents(html, "table")
      extracted == [i \in DOMAIN tables |-> extract_table(tables[i])]
  IN SelectSeq(extracted, LAMBDA t : t.headers # <<>> \/ t.rows # <<>>)

\* The first article, or else main, or the whole page.
content_area(html) ==
  Else(find_next_tag_content(html, "article", 1), Else(find_next_tag_content(html, "main", 1), html))

\* The og:title, if it is not empty; the pages have no other meta tag.
extract_meta_attr(html) ==
  LET metas == SelectSeq(html, LAMBDA t : t.is = "open" /\ t.tag = "meta")
  IN IF metas = <<>> THEN 0 ELSE metas[1].value

\* Case matters here, unlike in find_next_tag_content.
extract_tag_content(html, tag) ==
  LET opens == {i \in DOMAIN html : html[i].is = "open" /\ begins(html[i].tag, tag)}
      closes == {j \in (Min(opens) + 1)..Len(html) : html[j] = Close(tag)}
  IN IF opens = {} THEN <<>> ELSE IF closes = {} THEN <<>>
     ELSE strip_html_tags(SubSeq(html, Min(opens) + 1, Min(closes) - 1))

extract_title(html) ==
  IF extract_meta_attr(html) # 0 THEN <<extract_meta_attr(html)>> ELSE extract_tag_content(html, "title")

extract_html_lang(html) ==
  LET htmls == SelectSeq(html, LAMBDA t : t.is = "open" /\ t.tag = "html")
  IN IF htmls = <<>> THEN 0 ELSE htmls[1].value

extract(html) ==
  [title |-> extract_title(html), language |-> extract_html_lang(html),
   content_blocks |-> extract_content_blocks(content_area(html)),
   tables |-> extract_tables(content_area(html))]

\* The lines of a result, each the texts it holds.
to_plain_text(result) ==
  LET lines(block) == IF block.kind = "Image" THEN <<<<block.value>>>> ELSE block.texts
      rows(table) == (IF table.headers = <<>> THEN <<>> ELSE <<FlattenSeq(table.headers)>>)
                       \o [i \in DOMAIN table.rows |-> FlattenSeq(table.rows[i])]
  IN (IF result.title = <<>> THEN <<>> ELSE <<result.title>>)
       \o FlattenSeq([i \in DOMAIN result.content_blocks |-> lines(result.content_blocks[i])])
       \o FlattenSeq([i \in DOMAIN result.tables |-> rows(result.tables[i])])

extract_attribute_values(html, tag) ==
  LET tags == SelectSeq(html, LAMBDA t : t.is = "open" /\ begins(t.tag, tag) /\ t.value # 0)
  IN [i \in DOMAIN tags |-> tags[i].value]

\* Without blocks and tables, the text is all the page has.
parse_html(html) ==
  LET readability == extract(html)
      structured == readability.content_blocks # <<>> \/ readability.tables # <<>>
  IN [title |-> extract_tag_content(html, "title"),
      links |-> extract_attribute_values(html, "a"),
      images |-> extract_attribute_values(html, "img"),
      read |-> readability,
      text |-> IF structured THEN to_plain_text(readability) ELSE <<strip_html_tags(html)>>]

-----------------------------------------------------------------------------
(* The registered actions, and the profile that exposes them to a pilot.   *)
all_browser_action_kinds ==
  {"open_url", "extract_content", "summarize_page", "compare_pages", "capture_snapshot", "click_element",
   "type_text", "fill_form", "select_option", "scroll_page", "press_key", "execute_js", "wait_for_element",
   "get_page_screenshot", "upload_file", "download_file"}

side_effect(kind) ==
  CASE kind \in {"open_url", "capture_snapshot", "execute_js"} -> "NetworkAccess"
    [] kind \in {"click_element", "type_text", "select_option", "scroll_page", "press_key"} -> "UiSideEffect"
    [] kind \in {"fill_form", "upload_file"} -> "ExternalSystemMutation"
    [] kind = "download_file" -> "FileSystemMutation"
    [] OTHER -> "ReadOnly"

Evidence ==
  {"product_permission_ux", "irreversible_side_effect_mapping", "real_cdp_irreversible", "host_risk_acceptance"}
Profiles == [exposure : {"Disabled", "HostOptIn"}, evidence : SUBSET Evidence]

is_complete(evidence) == evidence = Evidence

decision(profile) ==
  IF profile.exposure = "HostOptIn" /\ is_complete(profile.evidence) THEN "Allowed" ELSE "Blocked"

allowed_action_kinds(profile) == IF decision(profile) = "Allowed" THEN all_browser_action_kinds ELSE {}
blocked_action_kinds(profile) == IF decision(profile) = "Allowed" THEN {} ELSE all_browser_action_kinds

-----------------------------------------------------------------------------
(* The router.  Of a URL it knows which lists of substrings it matches.    *)
auto_route(url) ==
  IF "cdp_indicators" \in url THEN "CdpBrowser"
  ELSE IF "static_indicators" \in url THEN "StaticHtml" ELSE "StaticHtml"

route(url, intent) ==
  CASE intent = "Informational" -> "StaticHtml"
    [] intent = "Interactive" -> "CdpBrowser"
    [] intent = "Auto" -> auto_route(url)

-----------------------------------------------------------------------------
(* The executors.                                                          *)
Error(error) == [status |-> error, payload |-> <<>>]
Completed(payload) == [status |-> "Completed", payload |-> payload]

WebPageSnapshot(title, content, html_source) ==
  [title |-> title, content |-> content, html_source |-> html_source]

\* StaticHtmlBrowserExecutor: one fetch of the page per request.  The source that a snapshot includes is
\* a placeholder.  A summary is cut by its length, here in texts.
fetched(kind, input, parsed) ==
  CASE kind = "extract_content" -> [text |-> parsed.text, links |-> parsed.links, images |-> parsed.images]
    [] kind = "summarize_page" ->
         LET text == FlattenSeq(parsed.text) IN
         IF Len(text) > input.max_length THEN SubSeq(text, 1, input.max_length) \o <<Cut>> ELSE text
    [] kind = "open_url" -> WebPageSnapshot(parsed.title, parsed.text, {})
    [] kind = "capture_snapshot" ->
         WebPageSnapshot(parsed.title, parsed.text, IF input.include_html THEN {"placeholder"} ELSE {})

html_execute(kind, input, html) ==
  IF kind \notin {"extract_content", "summarize_page", "open_url", "capture_snapshot"} THEN Error("NotSupported")
  ELSE IF input = {} THEN Error("InvalidInput")
  ELSE IF html = {} THEN Error("ExecutionFailed")
  ELSE Completed(fetched(kind, The(input), parse_html(The(html))))

\* StaticBrowserExecutor: what it answers is made from the request alone.
static_payload(kind, input) ==
  CASE kind \in {"open_url", "capture_snapshot"} ->
         WebPageSnapshot("static", "static",
                         IF kind = "capture_snapshot" /\ input.include_html THEN {"static"} ELSE {})
    [] kind = "extract_content" -> [text |-> "static", links |-> <<1, 2>>, images |-> <<1>>]
    [] kind \in {"summarize_page", "compare_pages"} -> "static"
    [] OTHER -> [success |-> TRUE]

static_execute(kind, input) ==
  IF kind \in {"upload_file", "download_file"} THEN Error("NotSupported")
  ELSE IF input = {} THEN Error("InvalidInput") ELSE Completed(static_payload(kind, The(input)))

-----------------------------------------------------------------------------
(* Pages are put together of pieces; the texts of the i-th have the        *)
(* numbers 10 * i + 1 and on.                                              *)
tokens(piece, n) ==
  LET element(tag, k) == <<Open(tag, 0), Text(10 * n + k), Close(tag)>>
      within(tag, html) == <<Open(tag, 0)>> \o html \o <<Close(tag)>>
      row(cells) == within("tr", cells)
  IN CASE piece \in {"p", "h1", "h2", "blockquote", "title"} -> element(piece, 1)
       [] piece = "blank" -> <<Open("p", 0), Text(0), Close("p")>>
       [] piece = "upper" -> <<Open("p", 0), Text(10 * n + 1), UpperClose("p")>>
       [] piece = "stray" -> <<Close("p")>>
       [] piece = "bare" -> <<Text(10 * n + 1)>>
       [] piece = "a" -> <<Open("a", 10 * n + 2), Text(10 * n + 1), Close("a")>>
       [] piece = "img" -> <<Open("img", 10 * n + 1), Open("img", Data)>>
       [] piece = "meta" -> <<Open("html", 10 * n + 2), Open("meta", 10 * n + 1)>>
       [] piece \in {"ul", "ol"} -> within(piece, element("li", 1) \o element("li", 2))
       [] piece = "pre" -> within("pre", <<Open("code", 10 * n + 2), Text(10 * n + 1), Close("code")>>)
       [] piece = "span" -> within("pre", <<Open("span", 10 * n + 2), Text(10 * n + 1), Close("span")>>)
       [] piece \in {"article", "main"} -> within(piece, element("p", 1))
       [] piece = "thead" -> within("table", within("thead", row(element("th", 1)))
                                               \o within("tbody", row(element("td", 2) \o element("td", 3))))
       [] piece = "rows" -> within("table", row(element("th", 1) \o element("th", 2))
                                              \o row(element("td", 3) \o element("td", 4)))
       [] piece = "mixed" -> within("table", row(element("th", 1) \o element("td", 2)))

source(pieces) == FlattenSeq([i \in DOMAIN pieces |-> tokens(pieces[i], i)])

Inputs == [max_length : {1, 500}, include_html : {TRUE}]
None == [by |-> "none"]

Init == page = <<>> /\ answer = None

write(piece) == Len(page) < MaxPieces /\ page' = Append(page, piece) /\ UNCHANGED answer

\* A request to the executor that fetches the page, if its input is valid and the page can be reached.
read(kind, input, reached) ==
  /\ answer' = [by |-> "html", kind |-> kind, input |-> input,
                result |-> html_execute(kind, input, IF reached THEN {source(page)} ELSE {})]
  /\ UNCHANGED page

ask(kind, input) ==
  /\ answer' = [by |-> "static", kind |-> kind, input |-> input, result |-> static_execute(kind, input)]
  /\ UNCHANGED page

dispatch(url, intent) ==
  /\ answer' = [by |-> "router", url |-> url, intent |-> intent, decision |-> route(url, intent)]
  /\ UNCHANGED page

expose(profile) ==
  /\ answer' = [by |-> "profile", profile |-> profile,
                allowed |-> allowed_action_kinds(profile), blocked |-> blocked_action_kinds(profile)]
  /\ UNCHANGED page

\* One question per page: an answer ends the behaviour, for a second would not depend on it.
Next ==
  /\ answer = None
  /\ \/ \E piece \in Markup : write(piece)
     \/ \E kind \in all_browser_action_kinds, reached \in BOOLEAN :
          \E input \in {{}} \cup {{i} : i \in Inputs} : read(kind, input, reached)
     \/ /\ page = <<>>  \* these do not depend on the page
        /\ \/ \E kind \in all_browser_action_kinds : \E input \in {{}} \cup {{i} : i \in Inputs} : ask(kind, input)
           \/ \E url \in SUBSET {"cdp_indicators", "static_indicators"} :
                \E intent \in {"Informational", "Interactive", "Auto"} : dispatch(url, intent)
           \/ \E profile \in Profiles : expose(profile)

Spec == Init /\ [][Next]_hvars

-----------------------------------------------------------------------------
(* Properties.                                                             *)
TypeOK ==
  /\ page \in Seq(Markup) /\ Len(page) <= MaxPieces
  /\ answer.by \in {"none", "html", "static", "router", "profile"}

\* The pieces in the content area: all, unless there is an article, or else a main part.
area ==
  LET of(tag) == {i \in DOMAIN page : page[i] = tag}
  IN IF of("article") # {} THEN {Min(of("article"))}
     ELSE IF of("main") # {} THEN {Min(of("main"))} ELSE DOMAIN page

\* The texts that elements of a piece hold which the extractor reports.
texts(i) ==
  CASE page[i] \in {"p", "upper", "h1", "h2", "blockquote", "img", "pre", "span", "article", "main"} ->
         <<10 * i + 1>>
    [] page[i] \in {"ul", "ol", "mixed"} -> <<10 * i + 1, 10 * i + 2>>
    [] page[i] = "thead" -> <<10 * i + 1, 10 * i + 2, 10 * i + 3>>
    [] page[i] = "rows" -> <<10 * i + 1, 10 * i + 2, 10 * i + 3, 10 * i + 4>>
    [] OTHER -> <<>>

has(pieces) == \E i \in area : page[i] \in pieces
read_text == FlattenSeq(answer.result.payload.text)
times(text) == Cardinality({k \in DOMAIN read_text : read_text[k] = text})
\* "<p" also begins "<pre", so that a paragraph seems to begin at code that one follows.
code_before_paragraph ==
  \E i, j \in area : i < j /\ page[i] \in {"pre", "span"} /\ page[j] \in {"p", "blank", "upper", "stray"}
structured == \E i \in area : texts(i) # <<>>

\* While tags are closed in lower case, no text of an element of the content area is lost, though the scan
\* for each kind skips by closing tags wherever they belong; and if no closing tag is stray, no paragraph
\* seems to begin at code and no table has a row with both kinds of cells, every text is reported once and
\* those of one kind of piece in the order of the page, the head of a table not again as a row.  Beside the
\* title nothing else is read, no link and no part outside the article.  A page without elements is read as
\* all its text (ReadabilityExtractor::extract, find_next_tag_content, parse_html).
PageRead ==
  answer.by = "html" /\ answer.kind = "extract_content" /\ answer.result.status = "Completed" =>
    /\ ~has({"upper"}) => \A i \in area : \A k \in DOMAIN texts(i) : times(texts(i)[k]) >= 1
    /\ ~has({"upper", "stray", "mixed"}) /\ ~code_before_paragraph =>
         \A i \in area : \A k \in DOMAIN texts(i) :
           /\ times(texts(i)[k]) = 1
           /\ \A j \in area : i < j /\ page[j] = page[i] =>
                \E m, n \in DOMAIN read_text : m < n /\ read_text[m] = texts(i)[k] /\ read_text[n] = texts(j)[k]
    /\ structured /\ ~code_before_paragraph =>
         \A k \in (Len(extract_title(source(page))) + 1)..Len(read_text) :
           \E i \in area : \E m \in DOMAIN texts(i) : read_text[k] = texts(i)[m]
    /\ ~structured => \A i \in DOMAIN page : page[i] \in {"bare", "a", "title"} => times(10 * i + 1) = 1

\* The executor that fetches pages serves no action that is registered as changing something, none is both
\* exposed and blocked, none is exposed before the host opted in with all evidence, and what needs a real
\* browser is never routed to the fetched page (register_browser_action_schemas, BrowserPilotPermissionProfile).
RequestsBounded ==
  /\ answer.by = "html" /\ answer.result.status = "Completed" =>
       side_effect(answer.kind) \in {"ReadOnly", "NetworkAccess"}
  /\ answer.by = "profile" =>
       /\ answer.allowed \cap answer.blocked = {} /\ answer.allowed \cup answer.blocked = all_browser_action_kinds
       /\ answer.allowed # {} => answer.profile.exposure = "HostOptIn" /\ answer.profile.evidence = Evidence
  /\ answer.by = "router" => (answer.intent = "Interactive" => answer.decision = "CdpBrowser")

ReadsSound == PageRead /\ RequestsBounded
=============================================================================
