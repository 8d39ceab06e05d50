------------------------------- MODULE Crawler -------------------------------
(***************************************************************************)
(* crawler/crawler-math.stackexchange.com.py beside a site that lists its  *)
(* questions newest first and grows meanwhile: the pages of the listing,   *)
(* the file of every question, fetches that time out and are tried again,  *)
(* pages that are refused, kills and restarts, and a single question       *)
(* fetched by force (-p).  Questions are numbered as they are asked.       *)
(***************************************************************************)
EXTENDS Integers, Sequences, FiniteSets, FiniteSetsExt, Dollar

CONSTANTS PerPage,   \* questions on a page of the listing
          EndPage,   \* -e: the first page that is not read
          MaxErrs,   \* failures of one fetch that are tried again (5)
          MaxAsked,  \* bound: questions
          MaxBad     \* bound: failed fetches, refused pages, kills

ASSUME CrawlerAssumption ==
  /\ PerPage \in Nat \ {0} /\ EndPage \in Nat /\ MaxErrs \in Nat
  /\ MaxAsked \in Nat /\ MaxBad \in Nat

Questions == 1..MaxAsked
Nothing   == 0                                 \* no question, no link
Summaries == [id : Questions, link : BOOLEAN]  \* cut off before its link, or whole

\* How much was received of the page of a question, by one fetch and its tries: an
\* answer that is cut off, between two tags, stays in front of the next one, and
\* what came twice is found twice.
Texts == {"empty", "cut", "whole", "repeated"}

VARIABLES
  asked,    \* the site's questions are 1..asked
  file,     \* what the file of a question holds; "wrong": of another question
  pc,
  page,     \* i; 0: crawl_force()
  errs,
  list,     \* the summaries received of a page of the listing
  text,     \* how much was received of the page of a question: Texts
  todo,     \* tag_sums that are left
  saving,   \* the question whose file is open
  href,     \* the question whose page is fetched
  begin, start, cut_list, \* history: first page, asked then, a listing page was cut
  bad       \* history: failed fetches of the listing and of questions, other harm

histVars  == <<begin, start, cut_list>>
crawlVars == <<pc, page, errs, list, text, todo, saving, href, histVars>>
vars      == <<asked, file, crawlVars, bad>>

---------------------------------------------------------------------------
(* The site *)

\* Every new question moves the others towards later pages.
QuestionAt(k) == asked - (page - 1) * PerPage - k + 1
OnPage == LET left == asked - (page - 1) * PerPage
          IN  IF left < 0 THEN 0 ELSE IF left < PerPage THEN left ELSE PerPage

\* n whole summaries of the page and, if torn, one more that is cut off.
Listing(n, torn) ==
  [k \in 1..(IF torn THEN n + 1 ELSE n) |-> [id |-> QuestionAt(k), link |-> k <= n]]

Ask ==
  /\ asked < MaxAsked
  /\ asked' = asked + 1
  /\ UNCHANGED <<file, crawlVars, bad>>

---------------------------------------------------------------------------
(* curl(): the buffer is not emptied before the fetch is tried again *)

Init ==
  /\ asked \in Questions
  /\ file = [q \in Questions |-> "none"]
  /\ pc = "idle" /\ page = 0 /\ errs = 0 /\ list = <<>> /\ text = "empty" /\ todo = <<>>
  /\ saving = Nothing /\ href = Nothing
  /\ begin = 0 /\ start = 0 /\ cut_list = FALSE
  /\ bad = [list |-> 0, post |-> 0, other |-> 0]

\* The program ends; its memory is gone.
Ends ==
  /\ pc' = "idle" /\ page' = 0 /\ errs' = 0 /\ list' = <<>> /\ text' = "empty" /\ todo' = <<>>
  /\ saving' = Nothing /\ href' = Nothing
  /\ begin' = 0 /\ start' = 0 /\ cut_list' = FALSE

Harm(kind) ==
  /\ bad.list + bad.post + bad.other < MaxBad
  /\ bad' = [bad EXCEPT ![kind] = @ + 1]

\* Fault for the mutation test: the first exception ends the fetch.
RaisedOnce(caller) == errs' = 0 /\ pc' = caller

\* perform() raises: once more, or what there is is returned to the caller.
Raised(caller) ==
  IF errs < MaxErrs THEN errs' = errs + 1 /\ UNCHANGED pc
  ELSE errs' = 0 /\ pc' = caller

ListFetched ==
  /\ pc = "list"
  /\ list' = list \o Listing(OnPage, FALSE)
  /\ pc' = "summaries" /\ errs' = 0
  /\ UNCHANGED <<asked, file, page, text, todo, saving, href, histVars, bad>>

ListFails ==
  /\ pc = "list" /\ Harm("list")
  /\ \E n \in 0..OnPage : \E torn \in BOOLEAN :
       /\ torn => n < OnPage
       /\ list' = list \o Listing(n, torn)
  /\ Raised("summaries")
  /\ cut_list' = (cut_list \/ (pc' = "summaries" /\ list' # <<>>))
  /\ UNCHANGED <<asked, file, page, text, todo, saving, href, begin, start>>

\* The server answers with another page, which has neither questions nor formulas.
ListRefused ==
  /\ pc = "list" /\ Harm("other")
  /\ pc' = "summaries" /\ errs' = 0
  /\ cut_list' = (cut_list \/ list # <<>>)
  /\ UNCHANGED <<asked, file, page, list, text, todo, saving, href, begin, start>>

PostFetched ==
  /\ pc = "post"
  /\ text' = IF text = "empty" THEN "whole" ELSE "repeated"
  /\ pc' = "close" /\ errs' = 0
  /\ UNCHANGED <<asked, file, page, list, todo, saving, href, histVars, bad>>

PostFails ==
  /\ pc = "post" /\ Harm("post")
  /\ text' \in {text, "cut"}
  /\ Raised("close")
  /\ UNCHANGED <<asked, file, page, list, todo, saving, href, histVars>>

PostRefused ==
  /\ pc = "post" /\ Harm("other")
  /\ pc' = "close" /\ errs' = 0
  /\ UNCHANGED <<asked, file, page, list, text, todo, saving, href, histVars>>

---------------------------------------------------------------------------
(* crawl() and find_q_page() *)

Start ==
  /\ pc = "idle"
  /\ page' \in 1..(EndPage - 1) /\ pc' = "list"
  /\ begin' = page' /\ start' = asked
  /\ UNCHANGED <<asked, file, errs, list, text, todo, saving, href, cut_list, bad>>

\* A summary that is cut off holds what was received after it, and the first
\* link in there is taken for its own.
LinkOf(k) ==
  LET links == {j \in k..Len(list) : list[j].link}
  IN  IF links = {} THEN Nothing ELSE list[Min(links)].id

\* Fault for the mutation test: a page without summaries is over too.
FindSummariesOnce ==
  /\ pc = "summaries"
  /\ todo' = [k \in DOMAIN list |-> [id |-> list[k].id, href |-> LinkOf(k)]]
  /\ pc' = "next"
  /\ list' = <<>>
  /\ UNCHANGED <<asked, file, page, errs, text, saving, href, histVars, bad>>

\* Without a summary the page is fetched again, for ever.
FindSummaries ==
  /\ pc = "summaries"
  /\ todo' = [k \in DOMAIN list |-> [id |-> list[k].id, href |-> LinkOf(k)]]
  /\ pc' = IF list = <<>> THEN "list" ELSE "next"
  /\ list' = <<>>
  /\ UNCHANGED <<asked, file, page, errs, text, saving, href, histVars, bad>>

\* Fault for the mutation test: a summary that is skipped is not counted.
ExistsUncounted ==
  /\ pc = "next" /\ todo # <<>> /\ file[Head(todo).id] # "none"
  /\ todo' = Tail(todo)
  /\ pc' = IF todo' = <<>> THEN "list" ELSE "next"
  /\ UNCHANGED <<asked, file, page, errs, list, text, saving, href, histVars, bad>>

Exists ==
  /\ pc = "next" /\ todo # <<>> /\ file[Head(todo).id] # "none"
  /\ todo' = Tail(todo)
  /\ UNCHANGED <<asked, file, pc, page, errs, list, text, saving, href, histVars, bad>>

OpenFile ==
  /\ pc = "next" /\ todo # <<>> /\ file[Head(todo).id] = "none" /\ Head(todo).href # Nothing
  /\ file' = [file EXCEPT ![Head(todo).id] = "empty"]
  /\ saving' = Head(todo).id /\ href' = Head(todo).href
  /\ todo' = Tail(todo)
  /\ pc' = "post"
  /\ UNCHANGED <<asked, page, errs, list, text, histVars, bad>>

\* tag_a is None: the program dies, with the file open and empty.
NoLink ==
  /\ pc = "next" /\ todo # <<>> /\ file[Head(todo).id] = "none" /\ Head(todo).href = Nothing
  /\ file' = [file EXCEPT ![Head(todo).id] = "empty"]
  /\ Ends
  /\ UNCHANGED <<asked, bad>>

\* What find_p() writes, for crawl_force() too.
Written == IF href = saving \/ text = "empty" THEN text ELSE "wrong"

CloseFile ==
  /\ pc = "close" /\ page # 0
  /\ file' = [file EXCEPT ![saving] = Written]
  /\ pc' = "next" /\ text' = "empty" /\ saving' = Nothing /\ href' = Nothing
  /\ UNCHANGED <<asked, page, errs, list, todo, histVars, bad>>

NextPage ==
  /\ pc = "next" /\ todo = <<>>
  /\ page' = page + 1
  /\ pc' = IF page' < EndPage THEN "list" ELSE "over"
  /\ UNCHANGED <<asked, file, errs, list, text, todo, saving, href, histVars, bad>>

Over == pc = "over" /\ Ends /\ UNCHANGED <<asked, file, bad>>

---------------------------------------------------------------------------
(* crawl_force(), and a kill *)

\* The file is truncated before anything is fetched.
ForceQuestion ==
  /\ pc = "idle"
  /\ \E q \in 1..asked : saving' = q /\ file' = [file EXCEPT ![q] = "empty"]
  /\ pc' = "redirect"
  /\ UNCHANGED <<asked, page, errs, list, text, todo, href, histVars, bad>>

\* The link that was received is followed; without one tag_a is None.
Follow ==
  /\ IF href' = Nothing THEN Ends
     ELSE pc' = "post" /\ errs' = 0 /\ UNCHANGED <<page, list, text, todo, saving, histVars>>
  /\ UNCHANGED <<asked, file>>

Redirected == pc = "redirect" /\ href' = saving /\ Follow /\ UNCHANGED bad

\* An answer that is cut off may hold the link.
RedirectFails ==
  /\ pc = "redirect" /\ Harm("post")
  /\ href' \in {href, saving}
  /\ IF errs < MaxErrs
     THEN errs' = errs + 1 /\ UNCHANGED <<asked, file, pc, page, list, text, todo, saving, histVars>>
     ELSE Follow

\* A page that has no link.
RedirectRefused == pc = "redirect" /\ Harm("other") /\ href' = href /\ Follow

ForceDone ==
  /\ pc = "close" /\ page = 0
  /\ file' = [file EXCEPT ![saving] = Written]
  /\ Ends
  /\ UNCHANGED <<asked, bad>>

\* What was written may not have left the buffer of the file, or in part.
Killed ==
  /\ pc # "idle" /\ Harm("other")
  /\ Ends
  /\ \/ UNCHANGED file
     \/ /\ pc = "close" /\ text # "empty"
        /\ file' = [file EXCEPT ![saving] = IF href = saving THEN "cut" ELSE "wrong"]
  /\ UNCHANGED asked

---------------------------------------------------------------------------

Crawl ==
  \/ ListFetched \/ PostFetched \/ FindSummaries \/ Exists \/ OpenFile \/ NoLink
  \/ CloseFile \/ NextPage \/ Over \/ Redirected \/ ForceDone
Fails ==
  \/ ListFails \/ ListRefused \/ PostFails \/ PostRefused
  \/ RedirectFails \/ RedirectRefused \/ Killed

Next == Crawl \/ Fails \/ Start \/ ForceQuestion \/ Ask

\* The program goes on while it runs: every fetch has a time limit.
Spec == Init /\ [][Next]_vars /\ WF_vars(Crawl)

---------------------------------------------------------------------------
(* Properties *)

CrawlTypeOK ==
  /\ asked \in Questions
  /\ file \in [Questions -> Texts \cup {"none", "wrong"}]
  /\ pc \in {"idle", "list", "summaries", "next", "post", "close", "over", "redirect"}
  /\ page \in 0..EndPage /\ errs \in 0..MaxErrs
  /\ list \in Seq(Summaries) /\ text \in Texts
  /\ todo \in Seq([id : Questions, href : Questions \cup {Nothing}])
  /\ saving \in Questions \cup {Nothing} /\ href \in Questions \cup {Nothing}
  /\ begin \in Nat /\ start \in Nat /\ cut_list \in BOOLEAN
  /\ bad \in [{"list", "post", "other"} -> Nat]

\* The listing moves while it is read, by the questions that are asked meanwhile:
\* still no question is missed that was there when the crawl began, at its first
\* page or later, and is not past the last page yet when it ends; unless a page
\* of the listing was cut off, whose first part counts for all of it (py:100).
NoneMissed ==
  pc = "over" /\ ~cut_list =>
    \A q \in 1..start :
      (start - q >= (begin - 1) * PerPage /\ asked - q < (EndPage - 1) * PerPage)
        => file[q] # "none"

\* An existing file is never fetched again, so a bad one stays.  Every file that
\* lacks formulas, the open one aside, is due to a kill, a refused page or more
\* than MaxErrs failed fetches; every one with formulas that came twice to a failed
\* fetch; every one with the formulas of another question to a listing that was cut
\* in the middle of a summary.
DamagedByFaults ==
  LET short == {q \in Questions \ {saving} : file[q] \in {"empty", "cut"}}
      twice == {q \in Questions : file[q] = "repeated"}
      wrong == {q \in Questions : file[q] = "wrong"}
  IN  /\ Cardinality(short) * (MaxErrs + 1) <=
            bad.list + bad.post + (MaxErrs + 1) * bad.other
      /\ Cardinality(twice) <= bad.post
      /\ Cardinality(wrong) <= bad.list

\* However formulas and text follow one another in a page, with nothing between a
\* dollar sign and the next, what is saved of a whole page is its formulas, and an
\* escaped dollar sign neither opens nor closes one.  (No formula here ends in a
\* double backslash, whose second half would escape the sign behind it.)
DollarFindsFormulas == pc = "close" /\ text = "whole" => ScanIsExact

\* Once fetches do not fail any more a crawl ends, or it waits for a question on
\* a page behind the last one.
CrawlEnds == []<>(pc = "idle") \/ <>[](pc \in {"list", "summaries"} /\ OnPage = 0)

=============================================================================
