----------------------------- MODULE CrawlerProofs -----------------------------
(***************************************************************************)
(* Theorems about Crawler, for listings and pages of any size and any      *)
(* number of questions, failures and restarts: its types, that a crawl     *)
(* misses no question although the listing moves while it is read, that    *)
(* every file which is not what it should be was paid for by faults, and   *)
(* that the scanner finds the formulas of every paragraph of any length.   *)
(***************************************************************************)
EXTENDS Crawler, SequenceTheorems, FiniteSetTheorems, WellFoundedInduction, TLAPS

\* The part of a page before which, and behind which, a question stands.
Before == (page - 1) * PerPage
Behind == page * PerPage

\* Where the crawl is, for each point of the program.
Places ==
  /\ pc = "idle" => page = 0
  /\ pc \in {"list", "summaries", "next"} => page \in 1..(EndPage - 1)
  /\ pc \in {"post", "close"} => /\ page \in 0..(EndPage - 1) \cup {0}
                                 /\ saving \in Questions /\ href \in Questions
  /\ pc = "over" => page = EndPage
  /\ pc = "redirect" => page = 0 /\ saving \in Questions
  /\ page = 0 => start = 0
  /\ start <= asked

\* A question that the crawl should find: it has a file, or it still comes: on a
\* page not read yet, in the summaries that were received, or among those left.
Found(q) == file[q] # "none"
Due(q) == ~cut_list /\ q \in 1..start /\ start - q >= (begin - 1) * PerPage
Coming ==
  \A q \in Questions : Due(q) /\ ~Found(q) =>
    /\ asked - q >= Before
    /\ pc = "summaries" /\ list # <<>> /\ asked - q < Behind =>
         \E k \in DOMAIN list : list[k].id = q
    /\ pc \in {"next", "post", "close"} /\ asked - q < Behind =>
         \E k \in DOMAIN todo : todo[k].id = q

CrawlInv == CrawlTypeOK /\ Places /\ Coming

---------------------------------------------------------------------------
(* Summaries and their links *)

\* Every set of natural numbers but the empty one has a least one.
LEMMA LeastOfNat ==
  ASSUME NEW S \in SUBSET Nat, S # {}
  PROVE  \E m \in S : \A n \in S : m <= n
<1> DEFINE R == {x \in Nat \X Nat : x[1] < x[2]}
<1>1. IsWellFoundedOn(OpToRel(<, Nat), Nat)
  BY NatLessThanWellFounded
<1>2. OpToRel(<, Nat) = R
  BY DEF OpToRel
<1>3. IsWellFoundedOn(R, Nat)
  BY <1>1, <1>2
<1>4. \A n, m \in Nat : n < m => <<n, m>> \in R
  OBVIOUS
<1> HIDE DEF R
<1>5. PICK m \in S : \A n \in S : <<n, m>> \notin R
  BY <1>3, WFMin
<1>6. ASSUME NEW n \in S PROVE m <= n
  <2>1. <<n, m>> \notin R /\ n \in Nat /\ m \in Nat
    BY <1>5
  <2> QED BY <1>4, <2>1
<1> QED BY <1>6

\* The link that is taken for a summary's own is that of a summary.
LEMMA LinkIsQuestion ==
  ASSUME list \in Seq(Summaries), NEW k \in DOMAIN list
  PROVE  LinkOf(k) \in Questions \cup {Nothing}
<1> DEFINE links == {j \in k..Len(list) : list[j].link}
<1>1. CASE links = {}
  BY <1>1 DEF LinkOf
<1>2. CASE links # {}
  <2>1. links \in SUBSET Nat
    OBVIOUS
  <2>2. \E m \in links : \A n \in links : m <= n
    BY <1>2, <2>1, LeastOfNat
  <2>3. Min(links) \in links
    BY <2>2 DEF Min
  <2>4. Min(links) \in DOMAIN list
    BY <2>3
  <2>5. list[Min(links)].id \in Questions
    <3>1. list[Min(links)] \in Summaries
      BY <2>4, ElementOfSeq
    <3> QED BY <3>1 DEF Summaries
  <2>6. LinkOf(k) = list[Min(links)].id
    BY <1>2 DEF LinkOf
  <2> QED BY <2>5, <2>6
<1> QED BY <1>1, <1>2

\* What a page of the listing can hold.
LEMMA PageOfListing ==
  ASSUME CrawlTypeOK, page \in 1..(EndPage - 1)
  PROVE  /\ Before \in Nat /\ Behind = Before + PerPage /\ OnPage \in 0..PerPage
         /\ OnPage > 0 => OnPage <= asked - Before
         /\ \A k \in 1..OnPage : QuestionAt(k) = asked - Before - k + 1 /\ QuestionAt(k) \in Questions
<1>1. page \in Nat /\ page >= 1 /\ asked \in Nat /\ PerPage \in Nat
  BY CrawlerAssumption DEF CrawlTypeOK, Questions
<1>2. (page - 1) * PerPage \in Nat /\ page * PerPage = (page - 1) * PerPage + PerPage
  BY <1>1
<1> DEFINE left == asked - (page - 1) * PerPage
<1>3. left \in Int /\ left <= asked
  BY <1>1, <1>2
<1>4. OnPage = IF left < 0 THEN 0 ELSE IF left < PerPage THEN left ELSE PerPage
  BY DEF OnPage
<1>5. \A k : QuestionAt(k) = left - k + 1
  BY DEF QuestionAt
<1>6. left = asked - Before
  BY DEF Before
<1> HIDE DEF left
<1>7. OnPage \in 0..PerPage /\ (OnPage > 0 => OnPage <= left)
  BY <1>1, <1>3, <1>4
<1>8. ASSUME NEW k \in 1..OnPage PROVE QuestionAt(k) \in Questions
  <2>1. OnPage \in Nat /\ k \in Int /\ 1 <= k /\ k <= OnPage
    BY <1>1, <1>7
  <2>2. k <= left
    BY <1>3, <1>7, <2>1
  <2>3. asked \in 1..MaxAsked
    BY DEF CrawlTypeOK, Questions
  <2>4. left - k + 1 \in 1..MaxAsked
    BY <1>3, <2>1, <2>2, <2>3, CrawlerAssumption
  <2> QED BY <1>5, <2>4 DEF Questions
<1> QED BY <1>2, <1>5, <1>6, <1>7, <1>8 DEF Before, Behind

\* What was received of the listing are summaries.
LEMMA ListingTypes ==
  ASSUME CrawlTypeOK, page \in 1..(EndPage - 1),
         NEW n \in 0..OnPage, NEW torn \in BOOLEAN, torn => n < OnPage
  PROVE  /\ Listing(n, torn) \in Seq(Summaries)
         /\ list \o Listing(n, torn) \in Seq(Summaries)
<1>1. OnPage \in Nat /\ \A k \in 1..OnPage : QuestionAt(k) \in Questions
  BY PageOfListing, CrawlerAssumption
<1> DEFINE m == IF torn THEN n + 1 ELSE n
<1>2. m \in Nat /\ m <= OnPage
  BY <1>1
<1>3. Listing(n, torn) = [k \in 1..m |-> [id |-> QuestionAt(k), link |-> k <= n]]
  BY DEF Listing
<1> HIDE DEF m
<1>4. ASSUME NEW k \in 1..m PROVE [id |-> QuestionAt(k), link |-> k <= n] \in Summaries
  <2>1. (k <= n) \in BOOLEAN
    OBVIOUS
  <2>2. QuestionAt(k) \in Questions
    BY <1>1, <1>2
  <2> QED BY <2>1, <2>2, Zenon DEF Summaries
<1>5. Listing(n, torn) \in Seq(Summaries)
  BY <1>2, <1>3, <1>4
<1> QED BY <1>5 DEF CrawlTypeOK

---------------------------------------------------------------------------
(* Types and places *)

\* What an ended program leaves: files.
LEMMA EndsTypes ==
  ASSUME CrawlTypeOK, Places, Ends, UNCHANGED asked,
         file' \in [Questions -> Texts \cup {"none", "wrong"}],
         bad' \in [{"list", "post", "other"} -> Nat]
  PROVE  CrawlTypeOK' /\ Places'
<1>1. list' \in Seq(Summaries) /\ todo' \in Seq([id : Questions, href : Questions \cup {Nothing}])
  BY DEF Ends
<1>2. CrawlTypeOK'
  <2>1. /\ pc' = "idle" /\ page' = 0 /\ errs' = 0 /\ text' = "empty" /\ saving' = 0 /\ href' = 0
        /\ begin' = 0 /\ start' = 0 /\ cut_list' = FALSE
    BY DEF Ends, Nothing
  <2>2. page' \in 0..EndPage /\ errs' \in 0..MaxErrs
    BY <2>1, CrawlerAssumption
  <2> QED BY <1>1, <2>1, <2>2 DEF CrawlTypeOK, Nothing, Texts
<1> QED BY <1>2 DEF Places, Ends, CrawlTypeOK, Questions

\* One more failure is a failure of its kind.
LEMMA HarmTypes ==
  ASSUME CrawlTypeOK, NEW kind \in {"list", "post", "other"}, Harm(kind)
  PROVE  bad' \in [{"list", "post", "other"} -> Nat]
  BY DEF CrawlTypeOK, Harm

\* Every step keeps the types, and the program where it can be.
LEMMA TypesStep == CrawlTypeOK /\ Places /\ [Next]_vars => CrawlTypeOK' /\ Places'
<1> SUFFICES ASSUME CrawlTypeOK, Places, [Next]_vars PROVE CrawlTypeOK' /\ Places'
  OBVIOUS
<1> USE CrawlerAssumption
<1> DEFINE Files == [Questions -> Texts \cup {"none", "wrong"}]
<1>1. file \in Files /\ text \in Texts
  BY DEF CrawlTypeOK
<1>2. CASE UNCHANGED vars
  BY <1>2 DEF vars, crawlVars, histVars, CrawlTypeOK, Places
<1>3. CASE ListFetched
  <2>1. page \in 1..(EndPage - 1) /\ pc = "list"
    BY <1>3 DEF ListFetched, Places
  <2>2. OnPage \in 0..OnPage
    BY <2>1, PageOfListing
  <2>3. list' \in Seq(Summaries)
    BY <1>3, <2>1, <2>2, ListingTypes DEF ListFetched
  <2>4. /\ pc' = "summaries" /\ errs' = 0
        /\ UNCHANGED <<asked, file, page, text, todo, saving, href, begin, start, cut_list, bad>>
    BY <1>3 DEF ListFetched, histVars
  <2> QED BY <2>1, <2>3, <2>4 DEF CrawlTypeOK, Places
<1>4. CASE ListFails
  <2>1. page \in 1..(EndPage - 1) /\ pc = "list"
    BY <1>4 DEF ListFails, Places
  <2>2. list' \in Seq(Summaries)
    <3>1. PICK n \in 0..OnPage, torn \in BOOLEAN :
            (torn => n < OnPage) /\ list' = list \o Listing(n, torn)
      BY <1>4 DEF ListFails
    <3> QED BY <2>1, <3>1, ListingTypes
  <2>3. bad' \in [{"list", "post", "other"} -> Nat]
    BY <1>4, HarmTypes DEF ListFails
  <2>4. errs' \in 0..MaxErrs /\ pc' \in {"list", "summaries"}
    BY <1>4, <2>1 DEF ListFails, Raised, CrawlTypeOK
  <2>5. cut_list' \in BOOLEAN
    BY <1>4 DEF ListFails
  <2> QED BY <1>4, <2>1, <2>2, <2>3, <2>4, <2>5 DEF ListFails, CrawlTypeOK, Places
<1>5. CASE ListRefused
  <2>1. bad' \in [{"list", "post", "other"} -> Nat]
    BY <1>5, HarmTypes DEF ListRefused
  <2>2. cut_list' \in BOOLEAN
    BY <1>5 DEF ListRefused
  <2> QED BY <1>5, <2>1, <2>2 DEF ListRefused, CrawlTypeOK, Places
<1>6. CASE PostFetched
  BY <1>6 DEF PostFetched, CrawlTypeOK, Places, histVars, Texts
<1>7. CASE PostFails
  <2>1. bad' \in [{"list", "post", "other"} -> Nat]
    BY <1>7, HarmTypes DEF PostFails
  <2>2. errs' \in 0..MaxErrs /\ pc' \in {"post", "close"}
    BY <1>7 DEF PostFails, Raised, CrawlTypeOK
  <2> QED BY <1>7, <2>1, <2>2 DEF PostFails, CrawlTypeOK, Places, histVars, Texts
<1>8. CASE PostRefused
  <2>1. bad' \in [{"list", "post", "other"} -> Nat]
    BY <1>8, HarmTypes DEF PostRefused
  <2> QED BY <1>8, <2>1 DEF PostRefused, CrawlTypeOK, Places, histVars
<1>9. CASE Start
  BY <1>9 DEF Start, CrawlTypeOK, Places, Questions
<1>10. CASE FindSummaries
  <2>1. todo' \in Seq([id : Questions, href : Questions \cup {Nothing}])
    <3>1. \A k \in DOMAIN list : list[k].id \in Questions /\ LinkOf(k) \in Questions \cup {Nothing}
      <4> SUFFICES ASSUME NEW k \in DOMAIN list
                   PROVE  list[k].id \in Questions /\ LinkOf(k) \in Questions \cup {Nothing}
        OBVIOUS
      <4>1. list \in Seq(Summaries)
        BY DEF CrawlTypeOK
      <4>2. list[k] \in Summaries
        BY <4>1, ElementOfSeq
      <4> QED BY <4>1, <4>2, LinkIsQuestion DEF Summaries
    <3>2. DOMAIN list = 1..Len(list) /\ Len(list) \in Nat
      BY DEF CrawlTypeOK
    <3>3. todo' = [k \in 1..Len(list) |-> [id |-> list[k].id, href |-> LinkOf(k)]]
      BY <1>10, <3>2 DEF FindSummaries
    <3> QED BY <3>1, <3>2, <3>3
  <2>2. list' \in Seq(Summaries)
    BY <1>10 DEF FindSummaries
  <2> QED BY <1>10, <2>1, <2>2 DEF FindSummaries, CrawlTypeOK, Places, histVars
<1>11. CASE Exists
  <2>1. todo' \in Seq([id : Questions, href : Questions \cup {Nothing}])
    BY <1>11 DEF Exists, CrawlTypeOK
  <2> QED BY <1>11, <2>1 DEF Exists, CrawlTypeOK, Places, histVars
<1>12. CASE OpenFile
  <2>1. todo' \in Seq([id : Questions, href : Questions \cup {Nothing}])
    BY <1>12 DEF OpenFile, CrawlTypeOK
  <2>2. Head(todo).id \in Questions /\ Head(todo).href \in Questions
    <3>1. todo \in Seq([id : Questions, href : Questions \cup {Nothing}]) /\ todo # <<>>
      BY <1>12 DEF OpenFile, CrawlTypeOK
    <3>2. Head(todo) \in [id : Questions, href : Questions \cup {Nothing}]
      BY <3>1, HeadTailProperties
    <3>3. Head(todo).href # Nothing
      BY <1>12 DEF OpenFile
    <3> QED BY <3>2, <3>3
  <2>3. file' \in Files
    BY <1>1, <1>12 DEF OpenFile, Texts
  <2> QED BY <1>12, <2>1, <2>2, <2>3 DEF OpenFile, CrawlTypeOK, Places, histVars
<1>13. CASE NoLink
  <2>1. file' \in Files /\ UNCHANGED bad
    BY <1>1, <1>13 DEF NoLink, Texts
  <2> QED BY <1>13, <2>1, EndsTypes DEF NoLink, CrawlTypeOK
<1>14. Written \in Texts \cup {"wrong"}
  BY <1>1 DEF Written
<1>15. CASE CloseFile
  <2>1. file' \in Files
    BY <1>1, <1>14, <1>15 DEF CloseFile
  <2> QED BY <1>15, <2>1 DEF CloseFile, CrawlTypeOK, Places, histVars, Nothing, Texts
<1>16. CASE NextPage
  BY <1>16 DEF NextPage, CrawlTypeOK, Places, histVars
<1>17. CASE Over
  BY <1>1, <1>17, EndsTypes DEF Over, CrawlTypeOK
<1>18. CASE ForceQuestion
  <2>1. PICK q \in 1..asked : saving' = q /\ file' = [file EXCEPT ![q] = "empty"]
    BY <1>18 DEF ForceQuestion
  <2>2. q \in Questions
    BY DEF CrawlTypeOK, Questions
  <2>3. file' \in Files
    BY <1>1, <2>1 DEF Texts
  <2> QED BY <1>18, <2>1, <2>2, <2>3 DEF ForceQuestion, CrawlTypeOK, Places, histVars
<1>0. ASSUME pc = "redirect", href' \in Questions \cup {Nothing}, Follow,
             bad' \in [{"list", "post", "other"} -> Nat]
      PROVE  CrawlTypeOK' /\ Places'
  <2>1. UNCHANGED <<asked, file>>
    BY <1>0 DEF Follow
  <2>2. CASE href' = Nothing
    BY <1>0, <1>1, <2>1, <2>2, EndsTypes DEF Follow
  <2>3. CASE href' # Nothing
    BY <1>0, <2>3 DEF Follow, CrawlTypeOK, Places, histVars
  <2> QED BY <2>2, <2>3
<1>19. CASE Redirected
  <2>1. href' \in Questions \cup {Nothing}
    BY <1>19 DEF Redirected, CrawlTypeOK
  <2> QED BY <1>0, <1>19, <2>1 DEF Redirected, CrawlTypeOK
<1>20. CASE RedirectFails
  <2>1. /\ pc = "redirect" /\ bad' \in [{"list", "post", "other"} -> Nat]
        /\ href' \in Questions \cup {Nothing}
    BY <1>20, HarmTypes DEF RedirectFails, CrawlTypeOK
  <2>2. CASE errs < MaxErrs
    BY <1>20, <2>1, <2>2 DEF RedirectFails, CrawlTypeOK, Places, histVars
  <2>3. CASE ~(errs < MaxErrs)
    BY <1>0, <1>20, <2>1, <2>3 DEF RedirectFails
  <2> QED BY <2>2, <2>3
<1>21. CASE RedirectRefused
  <2>1. /\ bad' \in [{"list", "post", "other"} -> Nat]
        /\ href' \in Questions \cup {Nothing}
    BY <1>21, HarmTypes DEF RedirectRefused, CrawlTypeOK
  <2> QED BY <1>0, <1>21, <2>1 DEF RedirectRefused
<1>22. CASE ForceDone
  <2>1. file' \in Files /\ UNCHANGED <<asked, bad>> /\ Ends
    BY <1>1, <1>14, <1>22 DEF ForceDone
  <2> QED BY <2>1, EndsTypes DEF CrawlTypeOK
<1>23. CASE Killed
  <2>1. bad' \in [{"list", "post", "other"} -> Nat] /\ UNCHANGED asked /\ Ends
    BY <1>23, HarmTypes DEF Killed
  <2>2. file' \in Files
    BY <1>1, <1>23 DEF Killed, Texts
  <2> QED BY <2>1, <2>2, EndsTypes
<1>24. CASE Ask
  BY <1>24 DEF Ask, crawlVars, histVars, CrawlTypeOK, Places, Questions
<1> QED
  BY <1>2, <1>3, <1>4, <1>5, <1>6, <1>7, <1>8, <1>9, <1>10, <1>11, <1>12, <1>13, <1>15, <1>16,
     <1>17, <1>18, <1>19, <1>20, <1>21, <1>22, <1>23, <1>24 DEF Next, Crawl, Fails

---------------------------------------------------------------------------
(* Questions that are still to come *)

\* What is true of one question in Coming.
ComingOf(q) ==
  Due(q) /\ ~Found(q) =>
    /\ asked - q >= Before
    /\ pc = "summaries" /\ list # <<>> /\ asked - q < Behind =>
         \E k \in DOMAIN list : list[k].id = q
    /\ pc \in {"next", "post", "close"} /\ asked - q < Behind =>
         \E k \in DOMAIN todo : todo[k].id = q

\* A step that leaves page, list and todo alone, does not change the point of the
\* program but for a fetch or an open file, and removes no file.
LEMMA ComingSame ==
  ASSUME CrawlTypeOK, NEW q \in Questions, ComingOf(q), Found(q) => Found(q)',
         asked' \in Nat, asked' >= asked,
         UNCHANGED <<page, begin, start, list, todo>>, cut_list => cut_list',
         \/ pc' = pc
         \/ pc \in {"next", "post", "close"} /\ pc' \in {"next", "post", "close"}
         \/ pc' \notin {"summaries", "next", "post", "close"}
  PROVE  ComingOf(q)'
<1>1. Due(q)' => Due(q)
  BY DEF Due
<1>2. Before' = Before /\ Behind' = Behind
  BY DEF Before, Behind
<1>3. asked \in Nat /\ q \in Nat /\ Before \in Int /\ Behind \in Int
  BY CrawlerAssumption DEF CrawlTypeOK, Questions, Before, Behind
<1> SUFFICES ASSUME Due(q)', ~Found(q)'
             PROVE  /\ asked' - q >= Before'
                    /\ pc' = "summaries" /\ list' # <<>> /\ asked' - q < Behind' =>
                         \E k \in DOMAIN list' : list'[k].id = q
                    /\ pc' \in {"next", "post", "close"} /\ asked' - q < Behind' =>
                         \E k \in DOMAIN todo' : todo'[k].id = q
  BY DEF ComingOf
<1>4. Due(q) /\ ~Found(q)
  BY <1>1
<1>5. asked - q >= Before /\ asked' - q >= asked - q
  BY <1>3, <1>4 DEF ComingOf
<1>6. asked' - q >= Before' /\ (asked' - q < Behind' => asked - q < Behind)
  <2>1. \A a, b, x, y \in Int : x - q >= a /\ y - q >= x - q => y - q >= a /\ (y - q < b => x - q < b)
    BY <1>3
  <2>2. asked \in Int /\ asked' \in Int
    BY <1>3
  <2>3. asked' - q >= Before /\ (asked' - q < Behind => asked - q < Behind)
    BY <1>3, <1>5, <2>1, <2>2
  <2> QED BY <1>2, <2>3, Zenon
<1> QED BY <1>4, <1>6 DEF ComingOf

\* A program that does not crawl has no question to find.
LEMMA NoneDue == ASSUME start' = 0 PROVE \A q \in Questions : ComingOf(q)'
  BY DEF ComingOf, Due

\* Every step keeps what is still to come of each question.
LEMMA ComingStep ==
  ASSUME CrawlInv, CrawlTypeOK', Places', [Next]_vars, NEW q \in Questions
  PROVE  ComingOf(q)'
<1> USE CrawlerAssumption
<1>0. /\ CrawlTypeOK /\ Places /\ ComingOf(q)
      /\ asked \in Nat /\ asked' \in Nat /\ q \in Nat /\ PerPage \in Nat
      /\ Before \in Int /\ Behind \in Int
  <2>1. CrawlTypeOK /\ Places
    BY DEF CrawlInv
  <2>2. ComingOf(q)
    BY DEF CrawlInv, Coming, ComingOf
  <2>3. asked \in Nat /\ asked' \in Nat /\ q \in Nat /\ PerPage \in Nat
    BY <2>1 DEF CrawlTypeOK, Questions
  <2>4. Before \in Int /\ Behind \in Int
    BY <2>1 DEF CrawlTypeOK, Before, Behind
  <2> QED BY <2>1, <2>2, <2>3, <2>4
<1>1. CASE UNCHANGED vars \/ Ask
  BY <1>0, <1>1, ComingSame DEF vars, crawlVars, histVars, Ask, Found
<1>2. CASE ListFetched
  <2>1. /\ pc = "list" /\ pc' = "summaries" /\ list' = list \o Listing(OnPage, FALSE)
        /\ UNCHANGED <<asked, file, page, begin, start, cut_list>>
    BY <1>2 DEF ListFetched, histVars
  <2>2. page \in 1..(EndPage - 1)
    BY <1>0, <2>1 DEF Places
  <2>3. ASSUME Due(q), ~Found(q), asked - q < Behind
        PROVE  \E k \in DOMAIN list' : list'[k].id = q
    <3>1. asked - q >= Before
      BY <1>0, <2>3 DEF ComingOf
    <3>2. Behind = Before + PerPage
      BY <1>0, <2>2, PageOfListing
    <3> DEFINE k == asked - Before - q + 1
    <3>3. k \in 1..OnPage
      <4>1. OnPage = IF asked - Before < 0 THEN 0
                     ELSE IF asked - Before < PerPage THEN asked - Before ELSE PerPage
        BY DEF OnPage, Before
      <4>2. q >= 1
        BY DEF Questions
      <4> QED BY <1>0, <2>3, <3>1, <3>2, <4>1, <4>2
    <3>4. QuestionAt(k) = q
      BY <1>0, <2>2, <3>3, PageOfListing
    <3> HIDE DEF k
    <3>5. OnPage \in 0..OnPage /\ OnPage \in Nat
      BY <1>0, <2>2, PageOfListing
    <3>6. Listing(OnPage, FALSE) \in Seq(Summaries) /\ list \in Seq(Summaries)
      BY <1>0, <2>2, <3>5, ListingTypes DEF CrawlTypeOK
    <3>7. Listing(OnPage, FALSE) = [j \in 1..OnPage |-> [id |-> QuestionAt(j), link |-> j <= OnPage]]
      BY DEF Listing
    <3>8. Len(Listing(OnPage, FALSE)) = OnPage /\ Listing(OnPage, FALSE)[k].id = q
      <4>1. DOMAIN Listing(OnPage, FALSE) = 1..OnPage
        BY <3>7
      <4>2. Listing(OnPage, FALSE)[k] = [id |-> QuestionAt(k), link |-> k <= OnPage]
        BY <3>3, <3>7
      <4>3. Len(Listing(OnPage, FALSE)) = OnPage
        <5> DEFINE n == OnPage
                   part == Listing(OnPage, FALSE)
        <5>1. part \in Seq(Summaries) /\ DOMAIN part = 1..n /\ n \in Nat
          BY <3>5, <3>6, <4>1
        <5> HIDE DEF n, part
        <5>2. Len(part) \in Nat /\ 1..Len(part) = 1..n
          BY <5>1
        <5>3. ~(Len(part) > n)
          <6>1. Len(part) > n => Len(part) \in 1..Len(part) /\ Len(part) \notin 1..n
            BY <5>1, <5>2
          <6> QED BY <5>2, <6>1
        <5>4. ~(Len(part) < n)
          <6>1. Len(part) < n => n \in 1..n /\ n \notin 1..Len(part)
            BY <5>1, <5>2
          <6> QED BY <5>2, <6>1
        <5>5. Len(part) = n
          BY <5>1, <5>2, <5>3, <5>4
        <5> QED BY <5>5 DEF n, part
      <4>4. Listing(OnPage, FALSE)[k].id = q
        <5>1. \A b, x : [id |-> x, link |-> b].id = x
          OBVIOUS
        <5> QED BY <3>4, <4>2, <5>1, Zenon
      <4> QED BY <4>3, <4>4
    <3>9. Len(list) + k \in DOMAIN list' /\ list'[Len(list) + k] = Listing(OnPage, FALSE)[k]
      <4> DEFINE part == Listing(OnPage, FALSE)
      <4>1. part \in Seq(Summaries) /\ Len(part) = OnPage
        BY <3>6, <3>8
      <4> HIDE DEF part
      <4>2. /\ Len(list \o part) = Len(list) + OnPage /\ list \o part \in Seq(Summaries)
            /\ (list \o part)[Len(list) + k] = part[k] /\ Len(list) \in Nat
        BY <3>3, <3>5, <3>6, <4>1
      <4>3. Len(list) + k \in DOMAIN (list \o part)
        BY <3>3, <3>5, <4>2
      <4> QED BY <2>1, <4>2, <4>3 DEF part
    <3> QED BY <3>8, <3>9
  <2> QED BY <1>0, <2>1, <2>3 DEF ComingOf, Due, Found, Before, Behind
<1>3. CASE ListFails
  <2>1. /\ pc = "list" /\ UNCHANGED <<asked, file, page, begin, start>>
        /\ pc' \in {"list", "summaries"} /\ (pc' = "summaries" /\ list' # <<>> => cut_list')
        /\ (cut_list => cut_list')
    BY <1>3 DEF ListFails, Raised
  <2> QED BY <1>0, <2>1 DEF ComingOf, Due, Found, Before, Behind
<1>4. CASE ListRefused
  <2>1. /\ pc = "list" /\ pc' = "summaries" /\ UNCHANGED <<asked, file, page, list, begin, start>>
        /\ (list # <<>> => cut_list') /\ (cut_list => cut_list')
    BY <1>4 DEF ListRefused
  <2> QED BY <1>0, <2>1 DEF ComingOf, Due, Found, Before, Behind
<1>5. CASE PostFetched \/ PostFails \/ PostRefused
  <2>1. /\ pc = "post" /\ pc' \in {"post", "close"}
        /\ UNCHANGED <<asked, file, page, list, todo, begin, start, cut_list>>
    BY <1>5 DEF PostFetched, PostFails, PostRefused, Raised, histVars
  <2> QED BY <1>0, <2>1, ComingSame DEF Found
<1>6. CASE Start
  <2>1. /\ pc' = "list" /\ begin' = page' /\ start' = asked /\ asked' = asked
    BY <1>6 DEF Start
  <2>2. Due(q)' => asked' - q >= Before'
    BY <2>1 DEF Due, Before
  <2> QED BY <2>1, <2>2 DEF ComingOf
<1>7. CASE FindSummaries
  <2>1. /\ pc = "summaries" /\ UNCHANGED <<asked, file, page, begin, start, cut_list>>
        /\ todo' = [k \in DOMAIN list |-> [id |-> list[k].id, href |-> LinkOf(k)]]
        /\ pc' = IF list = <<>> THEN "list" ELSE "next"
    BY <1>7 DEF FindSummaries, histVars
  <2>2. \A k \in DOMAIN list : k \in DOMAIN todo' /\ todo'[k].id = list[k].id
    BY <2>1
  <2> QED BY <1>0, <2>1, <2>2 DEF ComingOf, Due, Found, Before, Behind
<1>8. ASSUME pc = "next", pc' \in {"next", "post"}, todo # <<>>, todo' = Tail(todo),
             file'[Head(todo).id] # "none", Found(q) => Found(q)',
             UNCHANGED <<asked, page, begin, start, cut_list>>
      PROVE  ComingOf(q)'
  <2>1. todo \in Seq([id : Questions, href : Questions \cup {Nothing}])
    BY <1>0 DEF CrawlTypeOK
  <2>2. Head(todo) = todo[1] /\ Len(todo) \in Nat /\ DOMAIN todo = 1..Len(todo)
    BY <2>1
  <2>3. /\ Tail(todo) \in Seq([id : Questions, href : Questions \cup {Nothing}])
        /\ Len(Tail(todo)) = Len(todo) - 1
        /\ \A i \in 1..Len(Tail(todo)) : Tail(todo)[i] = todo[i + 1]
    BY <1>8, <2>1, HeadTailProperties
  <2>4. ASSUME NEW k \in DOMAIN todo, todo[k].id = q, ~Found(q)'
        PROVE  \E j \in DOMAIN todo' : todo'[j].id = q
    <3>1. k # 1
      BY <1>8, <2>2, <2>4 DEF Found
    <3>2. k - 1 \in DOMAIN todo' /\ todo'[k - 1] = todo[k]
      BY <1>8, <2>2, <2>3, <2>4, <3>1
    <3> QED BY <2>4, <3>2
  <2> QED BY <1>0, <1>8, <2>4 DEF ComingOf, Due, Before, Behind
<1>9. CASE Exists
  BY <1>8, <1>9 DEF Exists, histVars, Found
<1>10. CASE OpenFile
  <2>1. Head(todo).id \in Questions
    <3>1. todo \in Seq([id : Questions, href : Questions \cup {Nothing}]) /\ todo # <<>>
      BY <1>0, <1>10 DEF OpenFile, CrawlTypeOK
    <3>2. Head(todo) \in [id : Questions, href : Questions \cup {Nothing}]
      BY <3>1, HeadTailProperties
    <3> QED BY <3>2
  <2>2. file' = [file EXCEPT ![Head(todo).id] = "empty"] /\ file \in [Questions -> Texts \cup {"none", "wrong"}]
    BY <1>0, <1>10 DEF OpenFile, CrawlTypeOK
  <2>3. file'[Head(todo).id] # "none" /\ (Found(q) => Found(q)')
    BY <2>1, <2>2 DEF Found
  <2> QED BY <1>8, <1>10, <2>3 DEF OpenFile, histVars
<1>11. CASE CloseFile
  <2>1. Written # "none"
    BY <1>0 DEF Written, CrawlTypeOK, Texts
  <2>2. /\ pc = "close" /\ pc' = "next" /\ UNCHANGED <<asked, page, list, todo, begin, start, cut_list>>
        /\ file' = [file EXCEPT ![saving] = Written]
    BY <1>11 DEF CloseFile, histVars
  <2>3. Found(q) => Found(q)'
    BY <1>0, <2>1, <2>2 DEF Found, CrawlTypeOK
  <2> QED BY <1>0, <2>2, <2>3, ComingSame
<1>12. CASE NextPage
  <2>1. /\ pc = "next" /\ todo = <<>> /\ page' = page + 1 /\ pc' \in {"list", "over"}
        /\ UNCHANGED <<asked, file, begin, start, cut_list>>
    BY <1>12 DEF NextPage, histVars
  <2>2. Before' = Behind
    <3>1. page \in Nat
      BY <1>0 DEF CrawlTypeOK
    <3> QED BY <2>1, <3>1 DEF Before, Behind
  <2>3. Due(q)' /\ ~Found(q)' => asked' - q >= Behind
    BY <1>0, <2>1 DEF ComingOf, Due, Found
  <2> QED BY <2>1, <2>2, <2>3 DEF ComingOf
<1>13. CASE NoLink \/ Over \/ ForceDone \/ Killed
  <2>1. start' = 0
    BY <1>13 DEF NoLink, Over, ForceDone, Killed, Ends
  <2> QED BY <2>1, NoneDue
<1>14. CASE ForceQuestion \/ Redirected \/ RedirectFails \/ RedirectRefused
  <2>1. start' = 0
    BY <1>0, <1>14
    DEF ForceQuestion, Redirected, RedirectFails, RedirectRefused, Follow, Ends, Places, histVars
  <2> QED BY <2>1, NoneDue
<1> QED
  BY <1>1, <1>2, <1>3, <1>4, <1>5, <1>6, <1>7, <1>9, <1>10, <1>11, <1>12, <1>13, <1>14
  DEF Next, Crawl, Fails

---------------------------------------------------------------------------
(* Theorems *)

\* The inductive invariant: types, places, and every question that is due has a
\* file or is still to come.
THEOREM CrawlInvariant == Spec => []CrawlInv
<1>1. Init => CrawlInv
  <2> SUFFICES ASSUME Init PROVE CrawlInv
    OBVIOUS
  <2>1. <<>> \in Seq(Summaries) /\ <<>> \in Seq([id : Questions, href : Questions \cup {Nothing}])
    OBVIOUS
  <2>2. CrawlTypeOK
    <3>1. 0 \in 0..EndPage /\ 0 \in 0..MaxErrs
      BY CrawlerAssumption
    <3>2. list \in Seq(Summaries) /\ todo \in Seq([id : Questions, href : Questions \cup {Nothing}])
      BY <2>1 DEF Init
    <3>3. file \in [Questions -> Texts \cup {"none", "wrong"}]
      BY DEF Init
    <3>4. bad \in [{"list", "post", "other"} -> Nat]
      BY DEF Init
    <3>5. /\ asked \in Questions /\ pc = "idle" /\ page = 0 /\ errs = 0 /\ text = "empty"
          /\ saving = 0 /\ href = 0 /\ begin = 0 /\ start = 0 /\ cut_list = FALSE
      BY DEF Init, Nothing
    <3> QED BY <3>1, <3>2, <3>3, <3>4, <3>5 DEF CrawlTypeOK, Nothing, Texts
  <2>3. Places
    BY DEF Init, Places, Questions
  <2>4. Coming
    BY DEF Init, Coming, Due
  <2> QED BY <2>2, <2>3, <2>4 DEF CrawlInv
<1>2. CrawlInv /\ [Next]_vars => CrawlInv'
  <2> SUFFICES ASSUME CrawlInv, [Next]_vars PROVE CrawlInv'
    OBVIOUS
  <2>1. CrawlTypeOK' /\ Places'
    BY TypesStep DEF CrawlInv
  <2>2. \A q \in Questions : ComingOf(q)'
    BY <2>1, ComingStep
  <2> QED BY <2>1, <2>2 DEF CrawlInv, Coming, ComingOf
<1> QED BY <1>1, <1>2, PTL DEF Spec

\* The types of the crawler's state, for any site and any failures.
THEOREM CrawlTypesCorrect == Spec => []CrawlTypeOK
  BY CrawlInvariant, PTL DEF CrawlInv

\* A crawl that ends has a file of every question that was there when it began,
\* was not on an earlier page, and is not past the last page, however many
\* questions were asked meanwhile, unless a page of the listing was cut.
THEOREM CrawlMissesNone == Spec => []NoneMissed
<1>1. CrawlInv => NoneMissed
  <2> SUFFICES ASSUME CrawlInv, pc = "over", ~cut_list, NEW q \in 1..start,
                      start - q >= (begin - 1) * PerPage, asked - q < (EndPage - 1) * PerPage
               PROVE  file[q] # "none"
    BY DEF NoneMissed
  <2>1. q \in Questions /\ page = EndPage
    <3>1. asked \in Questions /\ start <= asked /\ start \in Nat /\ page = EndPage
      BY DEF CrawlInv, CrawlTypeOK, Places
    <3>2. asked \in 1..MaxAsked /\ q \in 1..MaxAsked
      BY <3>1, CrawlerAssumption DEF Questions
    <3> QED BY <3>1, <3>2 DEF Questions
  <2>2. ~Found(q) => asked - q >= Before
    BY <2>1 DEF CrawlInv, Coming, Due
  <2>3. asked \in Int /\ q \in Int /\ Before \in Int /\ Before = (EndPage - 1) * PerPage
    BY <2>1, CrawlerAssumption DEF CrawlInv, CrawlTypeOK, Questions, Before
  <2> QED BY <2>2, <2>3 DEF Found
<1> QED BY <1>1, CrawlInvariant, PTL


---------------------------------------------------------------------------
(* What the damage is due to *)

\* A file that is short was paid for by as many failures as one fetch may have, or
\* by a harm of another kind.
Tries  == MaxErrs + 1
Budget == bad.list + bad.post + Tries * bad.other

\* Failures that were not charged to a file yet: those of the fetch that is tried
\* again, of a listing that left a summary without a link at its end, and of the
\* page that was not received to its end.
Unlinked ==
  \/ pc = "summaries" /\ list # <<>> /\ ~list[Len(list)].link
  \/ \E k \in DOMAIN todo : todo[k].href = Nothing
LinkDebt == IF Unlinked THEN Tries ELSE 0
TextDebt == IF pc = "close" /\ text \in {"empty", "cut"} THEN Tries ELSE 0
Debt     == errs + LinkDebt + TextDebt

\* A failed try was received in part, for the file that is open.
Partly == IF text \in {"cut", "repeated"} THEN 1 ELSE 0

\* Files without formulas, files that have some twice, files with the wrong ones,
\* summaries that are cut off, and summaries with the link of another.
Short  == {q \in Questions \ {saving} : file[q] \in {"empty", "cut"}}
Twice  == {q \in Questions : file[q] = "repeated"}
Wrong  == {q \in Questions : file[q] = "wrong"}
Torn   == {k \in DOMAIN list : ~list[k].link}
Astray == {k \in DOMAIN todo : todo[k].href # todo[k].id}
Misled == IF saving # Nothing /\ href \notin {saving, Nothing} THEN 1 ELSE 0

\* What is empty at which point of the program.
Emptied ==
  /\ pc \notin {"post", "close", "redirect"} => saving = Nothing
  /\ pc \notin {"list", "summaries"} => list = <<>>
  /\ pc = "list" /\ list # <<>> => OnPage > 0
  /\ pc \in {"idle", "redirect"} => todo = <<>>
  /\ pc = "idle" => href = Nothing
  /\ pc = "redirect" => href \in {Nothing, saving}
  /\ pc \notin {"post", "close"} => text = "empty"
  /\ pc = "post" => text \in {"empty", "cut"}

ShortPaid == Cardinality(Short) * Tries + Debt <= Budget
TwicePaid == Cardinality(Twice) + Partly <= bad.post
WrongPaid == Cardinality(Wrong) + Cardinality(Torn) + Cardinality(Astray) + Misled <= bad.list
DamageInv == CrawlTypeOK /\ Places /\ Emptied /\ ShortPaid /\ TwicePaid /\ WrongPaid

\* The questions, and what is counted of them, are finitely many.
LEMMA Countable ==
  CrawlTypeOK =>
    /\ IsFiniteSet(Short) /\ Cardinality(Short) \in Nat
    /\ IsFiniteSet(Twice) /\ Cardinality(Twice) \in Nat
    /\ IsFiniteSet(Wrong) /\ Cardinality(Wrong) \in Nat
    /\ IsFiniteSet(Torn) /\ Cardinality(Torn) \in Nat
    /\ IsFiniteSet(Astray) /\ Cardinality(Astray) \in Nat
<1> SUFFICES ASSUME CrawlTypeOK
             PROVE  /\ IsFiniteSet(Short) /\ Cardinality(Short) \in Nat
                    /\ IsFiniteSet(Twice) /\ Cardinality(Twice) \in Nat
                    /\ IsFiniteSet(Wrong) /\ Cardinality(Wrong) \in Nat
                    /\ IsFiniteSet(Torn) /\ Cardinality(Torn) \in Nat
                    /\ IsFiniteSet(Astray) /\ Cardinality(Astray) \in Nat
  OBVIOUS
<1>1. IsFiniteSet(Questions)
  BY FS_Interval, CrawlerAssumption DEF Questions
<1>2. IsFiniteSet(DOMAIN list) /\ IsFiniteSet(DOMAIN todo)
  <2>1. /\ DOMAIN list = 1..Len(list) /\ Len(list) \in Nat
        /\ DOMAIN todo = 1..Len(todo) /\ Len(todo) \in Nat
    BY DEF CrawlTypeOK
  <2> QED BY <2>1, FS_Interval
<1>3. /\ Short \in SUBSET Questions /\ Twice \in SUBSET Questions /\ Wrong \in SUBSET Questions
      /\ Torn \in SUBSET DOMAIN list /\ Astray \in SUBSET DOMAIN todo
  BY DEF Short, Twice, Wrong, Torn, Astray
<1>4. /\ IsFiniteSet(Short) /\ IsFiniteSet(Twice) /\ IsFiniteSet(Wrong)
      /\ IsFiniteSet(Torn) /\ IsFiniteSet(Astray)
  BY <1>1, <1>2, <1>3, FS_Subset
<1> QED BY <1>4, FS_CardinalityType

\* A set with one element more at most has at most one more.
LEMMA OneMore ==
  ASSUME NEW S, IsFiniteSet(S), NEW x, NEW T, T \subseteq S \cup {x}
  PROVE  IsFiniteSet(T) /\ Cardinality(T) <= Cardinality(S) + 1
<1>1. /\ IsFiniteSet(S \cup {x}) /\ Cardinality(S) \in Nat
      /\ Cardinality(S \cup {x}) = IF x \in S THEN Cardinality(S) ELSE Cardinality(S) + 1
  BY FS_AddElement, FS_CardinalityType
<1>2. Cardinality(S \cup {x}) <= Cardinality(S) + 1
  BY <1>1
<1>3. T \in SUBSET (S \cup {x})
  OBVIOUS
<1>4. IsFiniteSet(T) /\ Cardinality(T) <= Cardinality(S \cup {x}) /\ Cardinality(T) \in Nat
  BY <1>1, <1>3, FS_Subset, FS_CardinalityType
<1>5. Cardinality(S \cup {x}) \in Nat
  BY <1>1, FS_CardinalityType
<1> QED BY <1>1, <1>2, <1>4, <1>5

\* Every file costs t: what stays to be paid when there are d of them after a step
\* and not c, the debts are f and not e, and there is g to pay them with and not b.
LEMMA Costs ==
  ASSUME NEW t \in Nat, NEW c \in Nat, NEW d \in Nat, NEW e \in Nat, NEW f \in Nat,
         NEW b \in Nat, NEW g \in Nat, c * t + e <= b,
         \/ d <= c /\ f - e <= g - b
         \/ d <= c + 1 /\ f + t - e <= g - b
  PROVE  d * t + f <= g
<1>1. (c + 1) * t = c * t + t
  OBVIOUS
<1>2. \A x, y \in Nat : x <= y => x * t <= y * t
  OBVIOUS
<1> DEFINE p == c * t
           q == d * t
<1>3. /\ p \in Nat /\ q \in Nat /\ p + e <= b
      /\ d <= c => q <= p
      /\ d <= c + 1 => q <= p + t
  BY <1>1, <1>2
<1> HIDE DEF p, q
<1>4. q + f <= g
  BY <1>3
<1> QED BY <1>4 DEF q

\* The debts are numbers, and those of links and text the tries of a fetch at most.
LEMMA DebtTypes ==
  CrawlTypeOK =>
    /\ Tries \in Nat /\ Tries = MaxErrs + 1 /\ Budget \in Nat /\ Debt \in Nat
    /\ errs \in 0..MaxErrs /\ LinkDebt \in 0..Tries /\ TextDebt \in 0..Tries
    /\ Debt = errs + LinkDebt + TextDebt
<1> SUFFICES ASSUME CrawlTypeOK
             PROVE  /\ Tries \in Nat /\ Tries = MaxErrs + 1 /\ Budget \in Nat /\ Debt \in Nat
                    /\ errs \in 0..MaxErrs /\ LinkDebt \in 0..Tries /\ TextDebt \in 0..Tries
                    /\ Debt = errs + LinkDebt + TextDebt
  OBVIOUS
<1>1. Tries \in Nat /\ bad.list \in Nat /\ bad.post \in Nat /\ bad.other \in Nat
  BY CrawlerAssumption DEF Tries, CrawlTypeOK
<1>2. Tries * bad.other \in Nat
  BY <1>1
<1>3. Budget \in Nat
  BY <1>1, <1>2 DEF Budget
<1>4. LinkDebt \in 0..Tries /\ TextDebt \in 0..Tries /\ errs \in 0..MaxErrs
  BY <1>1 DEF LinkDebt, TextDebt, CrawlTypeOK
<1> QED BY <1>1, <1>3, <1>4, CrawlerAssumption DEF Debt, Tries

\* What a failure is worth.
LEMMA HarmPays ==
  ASSUME CrawlTypeOK
  PROVE  /\ UNCHANGED bad => Budget' = Budget
         /\ Harm("list") => Budget' = Budget + 1 /\ bad'.list = bad.list + 1
         /\ Harm("post") => Budget' = Budget + 1 /\ bad'.list = bad.list
         /\ Harm("other") => Budget' = Budget + Tries /\ bad'.list = bad.list
<1>1. Tries \in Nat /\ bad.list \in Nat /\ bad.post \in Nat /\ bad.other \in Nat
  BY CrawlerAssumption DEF Tries, CrawlTypeOK
<1>2. bad \in [{"list", "post", "other"} -> Nat]
  BY DEF CrawlTypeOK
<1>3. Tries' = Tries /\ Budget' = bad'.list + bad'.post + Tries * bad'.other
  BY DEF Tries, Budget
<1>4. Tries * (bad.other + 1) = Tries * bad.other + Tries /\ Tries * bad.other \in Nat
  BY <1>1
<1>5. ASSUME Harm("list") PROVE Budget' = Budget + 1 /\ bad'.list = bad.list + 1
  <2>1. bad'.list = bad.list + 1 /\ bad'.post = bad.post /\ bad'.other = bad.other
    BY <1>2, <1>5 DEF Harm
  <2> QED BY <1>1, <1>3, <1>4, <2>1 DEF Budget
<1>6. ASSUME Harm("post") PROVE Budget' = Budget + 1 /\ bad'.list = bad.list
  <2>1. bad'.list = bad.list /\ bad'.post = bad.post + 1 /\ bad'.other = bad.other
    BY <1>2, <1>6 DEF Harm
  <2> QED BY <1>1, <1>3, <1>4, <2>1 DEF Budget
<1>7. ASSUME Harm("other") PROVE Budget' = Budget + Tries /\ bad'.list = bad.list
  <2>1. bad'.list = bad.list /\ bad'.post = bad.post /\ bad'.other = bad.other + 1
    BY <1>2, <1>7 DEF Harm
  <2> QED BY <1>1, <1>3, <1>4, <2>1 DEF Budget
<1> QED BY <1>5, <1>6, <1>7 DEF Budget, Tries

\* A step pays for the files it leaves short: none more, and its debts grow by no
\* more than what failed, or one more, and they shrink by its price.
LEMMA Paid ==
  ASSUME CrawlTypeOK, CrawlTypeOK', ShortPaid, NEW q,
         \/ Short' \subseteq Short /\ Debt' - Debt <= Budget' - Budget
         \/ Short' \subseteq Short \cup {q} /\ Debt' + Tries - Debt <= Budget' - Budget
  PROVE  ShortPaid'
<1> DEFINE c == Cardinality(Short)
           d == Cardinality(Short')
<1>1. IsFiniteSet(Short) /\ c \in Nat /\ d \in Nat
  <2>1. (Cardinality(Short) \in Nat)'
    BY Countable, PTL
  <2> QED BY <2>1, Countable
<1>2. /\ Tries \in Nat /\ Debt \in Nat /\ Budget \in Nat /\ Debt' \in Nat /\ Budget' \in Nat
      /\ Tries' = Tries
  <2>1. (Debt \in Nat /\ Budget \in Nat)'
    BY DebtTypes, PTL
  <2> QED BY <2>1, DebtTypes DEF Tries
<1>3. /\ Short' \subseteq Short => d <= c
      /\ Short' \subseteq Short \cup {q} => d <= c + 1
  <2>1. Short' \subseteq Short => d <= c
    BY <1>1, FS_Subset
  <2> QED BY <1>1, <2>1, OneMore
<1>4. c * Tries + Debt <= Budget
  BY DEF ShortPaid
<1> HIDE DEF c, d
<1>5. d * Tries + Debt' <= Budget'
  <2> DEFINE f == Debt'
             g == Budget'
  <2>1. f \in Nat /\ g \in Nat
    BY <1>2
  <2>2. \/ d <= c /\ f - Debt <= g - Budget
        \/ d <= c + 1 /\ f + Tries - Debt <= g - Budget
    BY <1>3
  <2> HIDE DEF f, g
  <2>3. d * Tries + f <= g
    BY <1>1, <1>2, <1>4, <2>1, <2>2, Costs
  <2> QED BY <2>3 DEF f, g
<1> QED BY <1>2, <1>5 DEF ShortPaid, d

\* The summaries that are left when the first is taken.
LEMMA TailOfTodo ==
  ASSUME CrawlTypeOK, todo # <<>>
  PROVE  /\ 1 \in DOMAIN todo /\ Head(todo) = todo[1]
         /\ Head(todo).id \in Questions /\ Head(todo).href \in Questions \cup {Nothing}
         /\ \A k \in DOMAIN Tail(todo) :
              k \in Nat /\ k + 1 \in DOMAIN todo \ {1} /\ Tail(todo)[k] = todo[k + 1]
<1> DEFINE T == [id : Questions, href : Questions \cup {Nothing}]
<1>1. todo \in Seq(T)
  BY DEF CrawlTypeOK
<1>2. /\ Head(todo) \in T /\ Tail(todo) \in Seq(T) /\ Len(Tail(todo)) = Len(todo) - 1
      /\ \A i \in 1..Len(Tail(todo)) : Tail(todo)[i] = todo[i + 1]
  BY <1>1, HeadTailProperties
<1>3. /\ DOMAIN todo = 1..Len(todo) /\ Len(todo) \in Nat /\ Len(todo) > 0
      /\ DOMAIN Tail(todo) = 1..Len(Tail(todo)) /\ Head(todo) = todo[1]
  BY <1>1, <1>2
<1>4. Head(todo).id \in Questions /\ Head(todo).href \in Questions \cup {Nothing}
  BY <1>2
<1> QED BY <1>2, <1>3, <1>4

\* A whole summary has its own link, and so has any when the last one is whole.
LEMMA LinkOfWhole ==
  ASSUME list \in Seq(Summaries), NEW k \in DOMAIN list
  PROVE  /\ list[k].link => LinkOf(k) = list[k].id
         /\ list[Len(list)].link => LinkOf(k) # Nothing
<1> DEFINE links == {j \in k..Len(list) : list[j].link}
<1>1. Len(list) \in Nat /\ DOMAIN list = 1..Len(list) /\ links \in SUBSET Nat
  OBVIOUS
<1>2. ASSUME links # {} PROVE LinkOf(k) = list[Min(links)].id /\ Min(links) \in links
                              /\ \A n \in links : Min(links) <= n
  <2>1. \E m \in links : \A n \in links : m <= n
    BY <1>1, <1>2, LeastOfNat
  <2>2. Min(links) \in links /\ \A n \in links : Min(links) <= n
    BY <2>1 DEF Min
  <2> QED BY <1>2, <2>2 DEF LinkOf
<1>3. ASSUME list[k].link PROVE LinkOf(k) = list[k].id
  <2>1. k \in links
    BY <1>1, <1>3
  <2>2. Min(links) = k
    BY <1>1, <1>2, <2>1
  <2> QED BY <1>2, <2>1, <2>2
<1>4. ASSUME list[Len(list)].link PROVE LinkOf(k) # Nothing
  <2>1. Len(list) \in links
    BY <1>1, <1>4
  <2>2. Min(links) \in DOMAIN list
    BY <1>1, <1>2, <2>1
  <2>3. list[Min(links)] \in Summaries
    BY <2>2, ElementOfSeq
  <2>4. LinkOf(k) \in Questions
    BY <1>2, <2>1, <2>3 DEF Summaries
  <2> QED BY <2>4, CrawlerAssumption DEF Questions, Nothing
<1> QED BY <1>3, <1>4

\* What is added to the summaries that were received.
LEMMA Received ==
  ASSUME CrawlTypeOK, page \in 1..(EndPage - 1),
         NEW n \in 0..OnPage, NEW torn \in BOOLEAN, torn => n < OnPage,
         list' = list \o Listing(n, torn)
  PROVE  /\ list' \in Seq(Summaries) /\ OnPage \in Nat
         /\ Len(list') = Len(list) + (IF torn THEN n + 1 ELSE n) /\ Len(list) \in Nat
         /\ \A k \in DOMAIN list : k \in DOMAIN list' /\ list'[k] = list[k]
         /\ \A k \in DOMAIN list' \ DOMAIN list : ~list'[k].link => torn /\ k = Len(list')
         /\ list' # <<>> => list # <<>> \/ OnPage > 0
<1> DEFINE m == IF torn THEN n + 1 ELSE n
           part == Listing(n, torn)
<1>1. part \in Seq(Summaries) /\ list' \in Seq(Summaries) /\ list \in Seq(Summaries)
  BY ListingTypes DEF CrawlTypeOK
<1>2. OnPage \in Nat /\ m \in Nat /\ n \in Nat
  <2>1. OnPage \in Nat
    BY PageOfListing, CrawlerAssumption
  <2> QED BY <2>1
<1>3. part = [k \in 1..m |-> [id |-> QuestionAt(k), link |-> k <= n]]
  BY DEF Listing
<1>4. Len(part) = m
  <2>1. DOMAIN part = 1..m /\ DOMAIN part = 1..Len(part) /\ Len(part) \in Nat
    BY <1>1, <1>3
  <2> HIDE DEF part, m
  <2>2. 1..Len(part) = 1..m
    BY <2>1
  <2>3. ~(Len(part) > m)
    <3>1. Len(part) > m => Len(part) \in 1..Len(part) /\ Len(part) \notin 1..m
      BY <1>2, <2>1
    <3> QED BY <2>2, <3>1
  <2>4. ~(Len(part) < m)
    <3>1. Len(part) < m => m \in 1..m /\ m \notin 1..Len(part)
      BY <1>2, <2>1
    <3> QED BY <2>2, <3>1
  <2> QED BY <1>2, <2>1, <2>3, <2>4
<1>5. ASSUME NEW k \in 1..m PROVE part[k].link = (k <= n)
  <2>1. part[k] = [id |-> QuestionAt(k), link |-> k <= n]
    BY <1>3
  <2>2. \A b, x : [id |-> x, link |-> b].link = b
    OBVIOUS
  <2> QED BY <2>1, <2>2, Zenon
<1> HIDE DEF part
<1>6. list' = list \o part
  BY DEF part
<1>m. m = n \/ (torn /\ m = n + 1)
  OBVIOUS
<1> HIDE DEF m
<1>7. /\ Len(list') = Len(list) + m /\ Len(list) \in Nat
      /\ DOMAIN list = 1..Len(list) /\ DOMAIN list' = 1..Len(list')
      /\ \A k \in 1..Len(list) : list'[k] = list[k]
      /\ \A k \in 1..m : list'[Len(list) + k] = part[k]
  <2>1. /\ Len(list \o part) = Len(list) + m /\ Len(list) \in Nat
        /\ DOMAIN list = 1..Len(list)
        /\ \A k \in 1..Len(list) : (list \o part)[k] = list[k]
        /\ \A k \in 1..m : (list \o part)[Len(list) + k] = part[k]
    <3>1. /\ Len(list \o part) = Len(list) + Len(part) /\ Len(list) \in Nat
          /\ DOMAIN list = 1..Len(list) /\ Len(part) \in Nat
      BY <1>1
    <3>2. \A k \in 1..Len(list) : (list \o part)[k] = list[k]
      BY <1>1, <3>1
    <3>3. \A k \in 1..Len(part) : (list \o part)[Len(list) + k] = part[k]
      BY <1>1, <3>1
    <3> QED BY <1>4, <3>1, <3>2, <3>3
  <2>2. DOMAIN list' = 1..Len(list')
    BY <1>1
  <2> QED BY <1>6, <2>1, <2>2
<1>8. ASSUME NEW k \in DOMAIN list' \ DOMAIN list, ~list'[k].link PROVE torn /\ k = Len(list')
  <2>1. k - Len(list) \in 1..m /\ k \in Int /\ Len(list) + (k - Len(list)) = k
    BY <1>2, <1>7
  <2>2. list'[k] = part[k - Len(list)]
    BY <1>7, <2>1
  <2>3. ~(k - Len(list) <= n)
    BY <1>5, <1>8, <2>1, <2>2
  <2> QED BY <1>2, <1>m, <1>7, <2>1, <2>3
<1>9. list' # <<>> => list # <<>> \/ OnPage > 0
  <2>1. list = <<>> /\ ~(OnPage > 0) => m = 0 /\ Len(list) = 0
    BY <1>2, <1>m
  <2>2. Len(list') = 0 => list' = <<>>
    BY <1>1
  <2> QED BY <1>7, <2>1, <2>2
<1> QED BY <1>1, <1>2, <1>7, <1>8, <1>9 DEF m

\* Every step leaves empty what must be.
LEMMA EmptiedStep ==
  ASSUME CrawlTypeOK, Places, Emptied, [Next]_vars
  PROVE  Emptied'
<1>1. CASE UNCHANGED vars
  BY <1>1 DEF vars, crawlVars, histVars, Emptied, OnPage
<1>2. CASE Ask
  <2>1. OnPage > 0 => OnPage' > 0
    <3>1. /\ asked \in Int /\ (page - 1) * PerPage \in Int /\ PerPage \in Nat \ {0}
          /\ asked' = asked + 1 /\ page' = page
      BY <1>2, CrawlerAssumption DEF Ask, crawlVars, CrawlTypeOK, Questions
    <3> DEFINE b == (page - 1) * PerPage
    <3>2. /\ OnPage = IF asked - b < 0 THEN 0 ELSE IF asked - b < PerPage THEN asked - b ELSE PerPage
          /\ OnPage' = IF asked' - b < 0 THEN 0 ELSE IF asked' - b < PerPage THEN asked' - b ELSE PerPage
      BY <3>1 DEF OnPage
    <3> HIDE DEF b
    <3>3. b \in Int
      BY <3>1 DEF b
    <3> QED BY <3>1, <3>2, <3>3
  <2> QED BY <1>2, <2>1 DEF Ask, crawlVars, histVars, Emptied
<1>3. CASE ListFetched
  BY <1>3 DEF ListFetched, histVars, Emptied
<1>4. CASE ListFails
  <2>1. page \in 1..(EndPage - 1) /\ pc = "list"
    BY <1>4 DEF ListFails, Places
  <2>2. list' # <<>> => OnPage > 0
    <3>1. PICK n \in 0..OnPage, torn \in BOOLEAN :
            (torn => n < OnPage) /\ list' = list \o Listing(n, torn)
      BY <1>4 DEF ListFails
    <3>2. list' # <<>> => list # <<>> \/ OnPage > 0
      BY <2>1, <3>1, Received
    <3> QED BY <2>1, <3>2 DEF Emptied
  <2>3. pc' \in {"list", "summaries"} /\ UNCHANGED <<asked, page, saving, text>> /\ OnPage' = OnPage
    BY <1>4, <2>1 DEF ListFails, Raised, OnPage
  <2> QED BY <2>1, <2>2, <2>3 DEF Emptied
<1>5. CASE ListRefused \/ PostFetched \/ PostFails \/ PostRefused
  BY <1>5 DEF ListRefused, PostFetched, PostFails, PostRefused, Raised, histVars, Emptied
<1>6. CASE Start \/ FindSummaries \/ Exists \/ OpenFile \/ NextPage
  BY <1>6 DEF Start, FindSummaries, Exists, OpenFile, NextPage, histVars, Emptied
<1>7. CASE CloseFile \/ ForceQuestion
  BY <1>7 DEF CloseFile, ForceQuestion, histVars, Emptied
<1>8. CASE NoLink \/ Over \/ ForceDone \/ Killed
  <2>1. Ends
    BY <1>8 DEF NoLink, Over, ForceDone, Killed
  <2> QED BY <2>1 DEF Ends, Emptied
<1>9. CASE Redirected \/ RedirectFails \/ RedirectRefused
  <2>1. pc = "redirect" /\ href' \in {href, saving}
    BY <1>9 DEF Redirected, RedirectFails, RedirectRefused
  <2>2. CASE Follow
    BY <2>1, <2>2 DEF Follow, Ends, histVars, Emptied
  <2>3. CASE UNCHANGED <<pc, list, todo, saving, text>>
    BY <2>1, <2>3 DEF Emptied
  <2> QED BY <1>9, <2>2, <2>3 DEF Redirected, RedirectFails, RedirectRefused
<1> QED
  BY <1>1, <1>2, <1>3, <1>4, <1>5, <1>6, <1>7, <1>8, <1>9 DEF Next, Crawl, Fails

\* What a program that ended owes, and what it was misled to.
LEMMA EndsClear ==
  ASSUME CrawlTypeOK, Ends
  PROVE  /\ Debt' = 0 /\ Torn' = {} /\ Astray' = {} /\ Misled' = 0 /\ saving' = Nothing
<1>1. /\ pc' = "idle" /\ errs' = 0 /\ list' = <<>> /\ todo' = <<>> /\ saving' = Nothing
  BY DEF Ends
<1>2. DOMAIN list' = {} /\ DOMAIN todo' = {}
  BY <1>1
<1>3. Torn' = {} /\ Astray' = {} /\ Misled' = 0
  BY <1>1, <1>2 DEF Torn, Astray, Misled
<1>4. LinkDebt' = 0 /\ TextDebt' = 0
  BY <1>1, <1>2 DEF LinkDebt, TextDebt, Unlinked
<1> QED BY <1>1, <1>3, <1>4 DEF Debt

\* A step that does not come to the end of a page of the listing, and leaves no
\* other summaries than there were, owes no more for their links.
LEMMA LinksKept ==
  ASSUME CrawlTypeOK, pc' # "summaries" \/ UNCHANGED <<pc, list>>,
         \/ UNCHANGED todo
         \/ todo' = <<>>
         \/ todo # <<>> /\ todo' = Tail(todo)
  PROVE  LinkDebt' <= LinkDebt
<1>1. Unlinked' => Unlinked
  <2>1. CASE UNCHANGED todo
    BY <2>1 DEF Unlinked
  <2>2. CASE todo' = <<>>
    BY <2>2 DEF Unlinked
  <2>3. CASE todo # <<>> /\ todo' = Tail(todo)
    <3>1. ASSUME NEW k \in DOMAIN todo', todo'[k].href = Nothing
          PROVE  \E j \in DOMAIN todo : todo[j].href = Nothing
      BY <2>3, <3>1, TailOfTodo
    <3> QED BY <3>1 DEF Unlinked
  <2> QED BY <2>1, <2>2, <2>3
<1>2. Tries' = Tries /\ Tries \in Nat
  BY DebtTypes DEF Tries
<1> QED BY <1>1, <1>2 DEF LinkDebt

\* Every file that is left short is paid for.
LEMMA ShortStep ==
  ASSUME CrawlTypeOK, CrawlTypeOK', Places, Emptied, ShortPaid, [Next]_vars
  PROVE  ShortPaid'
<1>0. /\ Tries \in Nat /\ Tries = MaxErrs + 1 /\ Budget \in Nat /\ Debt \in Nat
      /\ errs \in 0..MaxErrs /\ LinkDebt \in 0..Tries /\ TextDebt \in 0..Tries
      /\ Debt = errs + LinkDebt + TextDebt
      /\ MaxErrs \in Nat /\ file \in [Questions -> Texts \cup {"none", "wrong"}]
  BY DebtTypes, CrawlerAssumption DEF CrawlTypeOK
<1> DEFINE e == errs'
           l == LinkDebt'
           x == TextDebt'
           d == Debt'
           b == Budget'
<1>P. /\ Tries' = Tries /\ b \in Nat /\ d \in Nat
      /\ l \in 0..Tries /\ x \in 0..Tries /\ e \in 0..MaxErrs
      /\ d = e + l + x
  <2>1. (/\ Budget \in Nat /\ Debt \in Nat /\ LinkDebt \in 0..Tries /\ TextDebt \in 0..Tries
         /\ Debt = errs + LinkDebt + TextDebt /\ errs \in 0..MaxErrs)'
    BY DebtTypes, PTL
  <2>2. Tries' = Tries
    BY DEF Tries
  <2> QED BY <2>1, <2>2
<1> HIDE DEF e, l, x, d, b
<1>F. ASSUME Short' \subseteq Short, d - Debt <= b - Budget PROVE ShortPaid'
  BY <1>F, Paid DEF d, b
<1>M. ASSUME NEW q, Short' \subseteq Short \cup {q}, d + Tries - Debt <= b - Budget PROVE ShortPaid'
  BY <1>M, Paid DEF d, b
<1>1. ASSUME Short' \subseteq Short, e <= errs, l <= LinkDebt, x <= TextDebt, UNCHANGED bad
      PROVE  ShortPaid'
  <2>1. b = Budget
    BY <1>1, HarmPays DEF b
  <2>2. d - Debt <= b - Budget
    BY <1>0, <1>P, <1>1, <2>1
  <2> QED BY <1>1, <2>2, <1>F
<1>2. CASE UNCHANGED vars \/ Ask
  <2>1. /\ UNCHANGED <<file, pc, errs, list, text, todo, saving, bad>>
    BY <1>2 DEF vars, crawlVars, Ask
  <2>2. Short' = Short /\ LinkDebt' = LinkDebt /\ TextDebt' = TextDebt
    BY <2>1 DEF Short, LinkDebt, Unlinked, TextDebt, Tries
  <2> QED BY <1>0, <1>1, <2>1, <2>2 DEF e, l, x
<1>3. CASE ListFetched
  <2>1. /\ pc = "list" /\ pc' = "summaries" /\ errs' = 0 /\ list' = list \o Listing(OnPage, FALSE)
        /\ UNCHANGED <<file, todo, saving, bad>>
    BY <1>3 DEF ListFetched
  <2>2. page \in 1..(EndPage - 1)
    BY <2>1 DEF Places
  <2>3. ASSUME list' # <<>> PROVE list'[Len(list')].link
    <3>1. OnPage \in 0..OnPage /\ OnPage \in Nat
      BY <2>2, PageOfListing
    <3>2. /\ Len(list') = Len(list) + OnPage /\ Len(list) \in Nat /\ list' \in Seq(Summaries)
          /\ \A k \in DOMAIN list' \ DOMAIN list : list'[k].link
          /\ list # <<>> \/ OnPage > 0
      BY <2>1, <2>2, <2>3, <3>1, Received
    <3>3. OnPage > 0
      BY <2>1, <3>2 DEF Emptied
    <3>4. DOMAIN list' = 1..Len(list') /\ DOMAIN list = 1..Len(list)
      BY <3>2 DEF CrawlTypeOK
    <3>5. Len(list') \in DOMAIN list' \ DOMAIN list
      BY <3>1, <3>2, <3>3, <3>4
    <3> QED BY <3>2, <3>5
  <2>4. Unlinked' => Unlinked
    BY <2>1, <2>3 DEF Unlinked
  <2>5. l <= LinkDebt /\ x = 0 /\ e = 0
    BY <1>0, <1>P, <2>1, <2>4 DEF LinkDebt, TextDebt, e, l, x
  <2>6. Short' = Short
    BY <2>1 DEF Short
  <2> QED BY <1>0, <1>1, <2>1, <2>5, <2>6
<1>4. CASE ListFails
  <2>1. /\ pc = "list" /\ UNCHANGED <<file, todo, saving>> /\ b = Budget + 1
        /\ \/ errs < MaxErrs /\ e = errs + 1 /\ pc' = "list"
           \/ errs = MaxErrs /\ e = 0 /\ pc' = "summaries"
    BY <1>0, <1>4, HarmPays DEF ListFails, Raised, b, e
  <2>2. Short' = Short /\ TextDebt = 0 /\ x = 0
    BY <2>1 DEF Short, TextDebt, x
  <2>3. pc' = "list" => l <= LinkDebt
    BY <2>1, LinksKept DEF l
  <2>4. d - Debt <= b - Budget
    BY <1>0, <1>P, <2>1, <2>2, <2>3
  <2> QED BY <2>2, <2>4, <1>F
<1>5. CASE ListRefused
  <2>1. /\ pc = "list" /\ pc' = "summaries" /\ UNCHANGED <<file, saving>> /\ e = 0
        /\ b = Budget + Tries
    BY <1>5, HarmPays DEF ListRefused, e, b
  <2>2. Short' = Short /\ x = 0
    BY <2>1 DEF Short, TextDebt, x
  <2>3. d - Debt <= b - Budget
    BY <1>0, <1>P, <2>1, <2>2
  <2> QED BY <2>2, <2>3, <1>F
<1>6. CASE PostFetched
  <2>1. /\ pc' = "close" /\ text' \in {"whole", "repeated"} /\ e = 0
        /\ UNCHANGED <<file, list, todo, saving, bad>>
    BY <1>6 DEF PostFetched, e
  <2>2. Short' = Short /\ x = 0 /\ l <= LinkDebt
    BY <2>1, LinksKept DEF Short, TextDebt, x, l
  <2> QED BY <1>0, <1>1, <2>1, <2>2
<1>7. CASE PostFails
  <2>1. /\ pc = "post" /\ UNCHANGED <<file, list, todo, saving>> /\ b = Budget + 1
        /\ \/ errs < MaxErrs /\ e = errs + 1 /\ pc' = "post"
           \/ errs = MaxErrs /\ e = 0 /\ pc' = "close"
    BY <1>0, <1>7, HarmPays DEF PostFails, Raised, b, e
  <2>2. Short' = Short /\ TextDebt = 0 /\ l <= LinkDebt
    BY <2>1, LinksKept DEF Short, TextDebt, l
  <2>3. pc' = "post" => x = 0
    BY DEF TextDebt, x
  <2>4. d - Debt <= b - Budget
    BY <1>0, <1>P, <2>1, <2>2, <2>3
  <2> QED BY <2>2, <2>4, <1>F
<1>8. CASE PostRefused
  <2>1. /\ pc = "post" /\ pc' = "close" /\ UNCHANGED <<file, list, todo, saving>> /\ e = 0
        /\ b = Budget + Tries
    BY <1>8, HarmPays DEF PostRefused, e, b
  <2>2. Short' = Short /\ l <= LinkDebt
    BY <2>1, LinksKept DEF Short, l
  <2>3. d - Debt <= b - Budget
    BY <1>0, <1>P, <2>1, <2>2
  <2> QED BY <2>2, <2>3, <1>F
<1>9. CASE Start \/ Exists \/ NextPage
  <2>1. /\ pc' \notin {"summaries", "close"} /\ UNCHANGED <<file, saving, bad>>
        /\ UNCHANGED todo \/ (todo # <<>> /\ todo' = Tail(todo))
        /\ e \in {errs, 0}
    BY <1>9 DEF Start, Exists, NextPage, e
  <2>2. Short' = Short /\ x = 0 /\ l <= LinkDebt
    BY <2>1, LinksKept DEF Short, TextDebt, x, l
  <2> QED BY <1>0, <1>1, <2>1, <2>2
<1>10. CASE FindSummaries
  <2>1. /\ pc = "summaries" /\ pc' \in {"list", "next"} /\ UNCHANGED <<file, saving, bad, errs>>
        /\ todo' = [k \in DOMAIN list |-> [id |-> list[k].id, href |-> LinkOf(k)]]
    BY <1>10 DEF FindSummaries
  <2>2. Unlinked' => Unlinked
    <3>1. ASSUME NEW k \in DOMAIN todo', todo'[k].href = Nothing
          PROVE  list # <<>> /\ ~list[Len(list)].link
      <4>1. k \in DOMAIN list /\ todo'[k].href = LinkOf(k)
        BY <2>1, <3>1
      <4>2. list \in Seq(Summaries)
        BY DEF CrawlTypeOK
      <4>3. ~list[Len(list)].link
        BY <3>1, <4>1, <4>2, LinkOfWhole
      <4>4. list # <<>>
        BY <4>1
      <4> QED BY <4>3, <4>4
    <3> QED BY <2>1, <3>1 DEF Unlinked
  <2>3. Short' = Short /\ x = 0 /\ e = errs
    BY <2>1 DEF Short, TextDebt, x, e
  <2>4. l <= LinkDebt
    BY <1>0, <1>P, <2>2 DEF LinkDebt, l
  <2> QED BY <1>0, <1>1, <2>1, <2>3, <2>4
<1>11. CASE OpenFile
  <2>1. /\ pc = "next" /\ pc' = "post" /\ UNCHANGED <<errs, bad>>
        /\ todo # <<>> /\ todo' = Tail(todo)
        /\ saving' = Head(todo).id /\ file' = [file EXCEPT ![Head(todo).id] = "empty"]
    BY <1>11 DEF OpenFile
  <2>2. saving = Nothing
    BY <2>1 DEF Emptied
  <2>3. Short' \subseteq Short
    <3>1. \A q \in Questions \ {saving'} : q # Nothing /\ file'[q] = file[q]
      BY <1>0, <2>1, CrawlerAssumption DEF Questions, Nothing
    <3> QED BY <2>2, <3>1 DEF Short
  <2>4. x = 0 /\ l <= LinkDebt /\ e = errs
    BY <2>1, LinksKept DEF TextDebt, x, l, e
  <2> QED BY <1>0, <1>1, <2>1, <2>3, <2>4
<1>12. ASSUME NEW q \in Questions, Ends, \A p \in Questions \ {q} : file'[p] = file[p],
              q = saving \/ saving = Nothing, Tries - Debt <= b - Budget
       PROVE  ShortPaid'
  <2>1. d = 0 /\ saving' = Nothing
    BY <1>12, EndsClear DEF d
  <2>2. Short' \subseteq Short \cup {q}
    <3>1. ASSUME NEW p \in Short', p # q PROVE p \in Short
      <4>1. p \in Questions /\ file'[p] \in {"empty", "cut"} /\ p # Nothing
        BY CrawlerAssumption DEF Short, Questions, Nothing
      <4>2. file[p] = file'[p] /\ p # saving
        BY <1>12, <3>1, <4>1
      <4> QED BY <4>1, <4>2 DEF Short
    <3> QED BY <3>1
  <2>3. d + Tries - Debt <= b - Budget
    BY <1>0, <1>P, <1>12, <2>1
  <2> QED BY <2>2, <2>3, <1>M
<1>13. CASE NoLink
  <2>1. /\ todo # <<>> /\ Head(todo).href = Nothing /\ pc = "next" /\ Ends /\ UNCHANGED bad
        /\ file' = [file EXCEPT ![Head(todo).id] = "empty"]
    BY <1>13 DEF NoLink
  <2>2. Unlinked /\ Head(todo).id \in Questions
    BY <2>1, TailOfTodo DEF Unlinked
  <2>3. Tries - Debt <= b - Budget
    <3>1. LinkDebt = Tries /\ b = Budget
      BY <2>1, <2>2, HarmPays DEF LinkDebt, b
    <3> QED BY <1>0, <3>1
  <2>4. saving = Nothing
    BY <2>1 DEF Emptied
  <2>5. \A p \in Questions \ {Head(todo).id} : file'[p] = file[p]
    BY <1>0, <2>1
  <2> QED BY <1>12, <2>1, <2>2, <2>3, <2>4, <2>5
<1>14. ASSUME pc = "close", UNCHANGED bad, file' = [file EXCEPT ![saving] = Written],
              saving' = Nothing, d <= Debt - TextDebt
       PROVE  ShortPaid'
  <2>1. saving \in Questions /\ b = Budget
    BY <1>14, HarmPays DEF Places, b
  <2>2. ASSUME NEW p \in Short', p # saving PROVE p \in Short
    <3>1. p \in Questions /\ file'[p] \in {"empty", "cut"}
      BY DEF Short
    <3>2. file[p] = file'[p]
      BY <1>0, <1>14, <2>1, <2>2, <3>1
    <3> QED BY <2>2, <3>1, <3>2 DEF Short
  <2>3. CASE text \notin {"empty", "cut"}
    <3>1. file'[saving] \notin {"empty", "cut"}
      BY <1>0, <1>14, <2>1, <2>3 DEF Written
    <3>2. Short' \subseteq Short
      BY <2>2, <3>1 DEF Short
    <3>3. d - Debt <= b - Budget
      BY <1>0, <1>P, <1>14, <2>1
    <3> QED BY <3>2, <3>3, <1>F
  <2>4. CASE text \in {"empty", "cut"}
    <3>1. TextDebt = Tries
      BY <1>14, <2>4 DEF TextDebt
    <3>2. Short' \subseteq Short \cup {saving}
      BY <2>2
    <3>3. d + Tries - Debt <= b - Budget
      BY <1>0, <1>P, <1>14, <2>1, <3>1
    <3> QED BY <3>2, <3>3, <1>M
  <2> QED BY <2>3, <2>4
<1>15. CASE CloseFile
  <2>1. /\ pc = "close" /\ pc' = "next" /\ UNCHANGED <<errs, todo, bad>>
        /\ file' = [file EXCEPT ![saving] = Written] /\ saving' = Nothing
    BY <1>15 DEF CloseFile
  <2>2. x = 0 /\ l <= LinkDebt /\ e = errs
    BY <2>1, LinksKept DEF TextDebt, x, l, e
  <2>3. d <= Debt - TextDebt
    BY <1>0, <1>P, <2>1, <2>2
  <2> QED BY <1>14, <2>1, <2>3
<1>16. CASE ForceDone
  <2>1. /\ pc = "close" /\ UNCHANGED bad /\ file' = [file EXCEPT ![saving] = Written] /\ Ends
    BY <1>16 DEF ForceDone
  <2>2. saving' = Nothing /\ d = 0
    BY <2>1, EndsClear DEF d
  <2>3. d <= Debt - TextDebt
    BY <1>0, <2>2
  <2> QED BY <1>14, <2>1, <2>2, <2>3
<1>17. CASE Over
  <2>1. /\ pc = "over" /\ UNCHANGED <<file, bad>> /\ Ends
    BY <1>17 DEF Over
  <2>2. saving = Nothing /\ saving' = Nothing /\ d = 0 /\ b = Budget
    BY <2>1, EndsClear, HarmPays DEF Emptied, d, b
  <2>3. Short' = Short
    BY <2>1, <2>2 DEF Short
  <2>4. d - Debt <= b - Budget
    BY <1>0, <2>2
  <2> QED BY <2>3, <2>4, <1>F
<1>18. CASE ForceQuestion
  <2>1. PICK q \in 1..asked : saving' = q /\ file' = [file EXCEPT ![q] = "empty"]
    BY <1>18 DEF ForceQuestion
  <2>2. /\ pc = "idle" /\ pc' = "redirect" /\ UNCHANGED <<errs, list, todo, bad>>
    BY <1>18 DEF ForceQuestion
  <2>3. Short' \subseteq Short
    <3>1. \A p \in Questions \ {saving'} : p # Nothing /\ file'[p] = file[p]
      BY <1>0, <2>1, CrawlerAssumption DEF Questions, Nothing
    <3>2. saving = Nothing
      BY <2>2 DEF Emptied
    <3> QED BY <3>1, <3>2 DEF Short
  <2>4. x = 0 /\ l <= LinkDebt /\ e = errs
    BY <2>2, LinksKept DEF TextDebt, x, l, e
  <2> QED BY <1>0, <1>1, <2>2, <2>3, <2>4
<1>19. ASSUME pc = "redirect", Follow, b >= Budget,
              href' # Nothing \/ Tries - Debt <= b - Budget
       PROVE  ShortPaid'
  <2>1. UNCHANGED file /\ saving \in Questions
    BY <1>19 DEF Follow, Places
  <2>2. CASE href' # Nothing
    <3>1. pc' = "post" /\ e = 0 /\ b >= Budget /\ UNCHANGED <<list, todo, saving>>
      BY <1>0, <1>19, <2>2, CrawlerAssumption DEF Follow, e
    <3>2. Short' = Short /\ x = 0 /\ l <= LinkDebt
      BY <1>19, <2>1, <3>1, LinksKept DEF Short, TextDebt, x, l
    <3>3. d - Debt <= b - Budget
      BY <1>0, <1>P, <3>1, <3>2
    <3> QED BY <3>2, <3>3, <1>F
  <2>3. CASE href' = Nothing
    <3>1. Ends /\ Tries - Debt <= b - Budget
      BY <1>19, <2>3 DEF Follow
    <3> QED BY <1>12, <2>1, <3>1
  <2> QED BY <2>2, <2>3
<1>20. CASE Redirected \/ RedirectFails \/ RedirectRefused
  <2>1. pc = "redirect" /\ saving \in Questions
    BY <1>20 DEF Redirected, RedirectFails, RedirectRefused, Places
  <2>2. CASE Redirected
    <3>1. href' # Nothing /\ b = Budget /\ Follow
      BY <2>1, <2>2, HarmPays, CrawlerAssumption DEF Redirected, Questions, Nothing, b
    <3>2. b >= Budget
      BY <1>0, <3>1
    <3> QED BY <1>19, <2>1, <3>1, <3>2
  <2>3. CASE RedirectRefused
    <3>1. b = Budget + Tries /\ Follow
      BY <2>3, HarmPays DEF RedirectRefused, b
    <3>2. b >= Budget /\ Tries - Debt <= b - Budget
      BY <1>0, <3>1
    <3> QED BY <1>19, <2>1, <3>1, <3>2
  <2>4. CASE RedirectFails /\ errs < MaxErrs
    <3>1. e = errs + 1 /\ UNCHANGED <<file, pc, list, text, todo, saving>> /\ b = Budget + 1
      BY <2>4, HarmPays DEF RedirectFails, e, b
    <3>2. Short' = Short /\ x = TextDebt /\ l = LinkDebt
      BY <3>1 DEF Short, TextDebt, LinkDebt, Unlinked, Tries, x, l
    <3>3. d - Debt <= b - Budget
      BY <1>0, <1>P, <3>1, <3>2
    <3> QED BY <3>2, <3>3, <1>F
  <2>5. CASE RedirectFails /\ ~(errs < MaxErrs)
    <3>1. Follow /\ errs = MaxErrs /\ b = Budget + 1
      BY <1>0, <2>5, HarmPays DEF RedirectFails, b
    <3>2. b >= Budget /\ Tries - Debt <= b - Budget
      BY <1>0, <3>1
    <3> QED BY <1>19, <2>1, <3>1, <3>2
  <2> QED BY <1>20, <2>2, <2>3, <2>4, <2>5
<1>21. CASE Killed
  <2>1. b = Budget + Tries /\ Ends
    BY <1>21, HarmPays DEF Killed, b
  <2>2. d = 0 /\ saving' = Nothing
    BY <2>1, EndsClear DEF d
  <2>3. \A p \in Questions \ {saving} : file'[p] = file[p]
    BY <1>0, <1>21 DEF Killed
  <2>4. Short' \subseteq Short \cup {saving}
    BY <2>3 DEF Short
  <2>5. d + Tries - Debt <= b - Budget
    BY <1>0, <2>1, <2>2
  <2> QED BY <2>4, <2>5, <1>M
<1> QED
  BY <1>2, <1>3, <1>4, <1>5, <1>6, <1>7, <1>8, <1>9, <1>10, <1>11, <1>13, <1>15, <1>16,
     <1>17, <1>18, <1>20, <1>21 DEF Next, Crawl, Fails

\* Every file with formulas that came twice is paid for by the try that was cut off.
LEMMA TwiceStep ==
  ASSUME CrawlTypeOK, CrawlTypeOK', Places, Emptied, TwicePaid, [Next]_vars
  PROVE  TwicePaid'
<1> DEFINE c == Cardinality(Twice)
           d == Cardinality(Twice')
           b == bad.post
           g == bad'.post
           m == Partly'
<1>0. /\ IsFiniteSet(Twice) /\ c \in Nat /\ d \in Nat /\ b \in Nat /\ g \in Nat
      /\ Partly \in 0..1 /\ m \in 0..1 /\ c + Partly <= b
      /\ file \in [Questions -> Texts \cup {"none", "wrong"}] /\ text \in Texts
  <2>1. (Cardinality(Twice) \in Nat)'
    BY Countable, PTL
  <2>2. IsFiniteSet(Twice) /\ Cardinality(Twice) \in Nat
    BY Countable
  <2> QED BY <2>1, <2>2 DEF TwicePaid, Partly, CrawlTypeOK
<1>goal. d + m <= g => TwicePaid'
  BY DEF TwicePaid
<1>same. /\ Twice' \subseteq Twice => d <= c
         /\ \A q : Twice' \subseteq Twice \cup {q} => d <= c + 1
  <2>1. Twice' \subseteq Twice => d <= c
    BY <1>0, FS_Subset
  <2> QED BY <1>0, <2>1, OneMore
<1>bad. /\ UNCHANGED bad => g = b
        /\ Harm("list") => g = b
        /\ Harm("post") => g = b + 1
        /\ Harm("other") => g = b
  BY DEF CrawlTypeOK, Harm
<1> HIDE DEF c, d, b, g, m
<1>1. ASSUME Twice' \subseteq Twice, UNCHANGED text \/ text' = "empty", g >= b PROVE TwicePaid'
  <2>1. m <= Partly
    BY <1>0, <1>1 DEF Partly, m
  <2> QED BY <1>0, <1>1, <2>1, <1>same, <1>goal
<1>2. CASE UNCHANGED vars \/ Ask \/ ListFetched \/ ListFails \/ ListRefused \/ PostRefused \/ Start
           \/ FindSummaries \/ Exists \/ NextPage \/ Over
  <2>1. /\ UNCHANGED file /\ (UNCHANGED text \/ text' = "empty")
        /\ UNCHANGED bad \/ Harm("list") \/ Harm("other")
    BY <1>2
    DEF vars, crawlVars, Ask, ListFetched, ListFails, ListRefused, PostRefused, Start,
        FindSummaries, Exists, NextPage, Over, Ends
  <2>2. Twice' \subseteq Twice
    BY <2>1 DEF Twice
  <2> QED BY <1>0, <1>1, <1>bad, <2>1, <2>2
<1>3. CASE Redirected \/ RedirectFails \/ RedirectRefused
  <2>1. /\ UNCHANGED file /\ (UNCHANGED text \/ text' = "empty")
        /\ UNCHANGED bad \/ Harm("post") \/ Harm("other")
    BY <1>3 DEF Redirected, RedirectFails, RedirectRefused, Follow, Ends
  <2>2. Twice' \subseteq Twice
    BY <2>1 DEF Twice
  <2> QED BY <1>0, <1>1, <1>bad, <2>1, <2>2
<1>4. CASE OpenFile \/ NoLink \/ ForceQuestion
  <2>1. /\ \E q : file' = [file EXCEPT ![q] = "empty"]
        /\ UNCHANGED bad /\ (UNCHANGED text \/ text' = "empty")
    BY <1>4 DEF OpenFile, NoLink, ForceQuestion, Ends
  <2>2. Twice' \subseteq Twice
    BY <1>0, <2>1 DEF Twice
  <2> QED BY <1>0, <1>1, <1>bad, <2>1, <2>2
<1>5. CASE PostFetched
  <2>1. UNCHANGED <<file, bad>> /\ text' = IF text = "empty" THEN "whole" ELSE "repeated"
    BY <1>5 DEF PostFetched
  <2>2. text # "whole"
    BY <1>5 DEF PostFetched, Emptied
  <2>3. Twice' \subseteq Twice /\ m <= Partly
    BY <1>0, <2>1, <2>2 DEF Twice, Partly, Texts, m
  <2> QED BY <1>0, <1>bad, <1>same, <1>goal, <2>1, <2>3
<1>6. CASE PostFails
  <2>1. UNCHANGED file /\ Harm("post")
    BY <1>6 DEF PostFails
  <2>2. Twice' \subseteq Twice
    BY <2>1 DEF Twice
  <2> QED BY <1>0, <1>bad, <1>same, <1>goal, <2>1, <2>2
<1>7. CASE CloseFile \/ ForceDone
  <2>1. /\ saving \in Questions /\ file' = [file EXCEPT ![saving] = Written]
        /\ UNCHANGED bad /\ text' = "empty"
    BY <1>7 DEF CloseFile, ForceDone, Places, Ends
  <2>2. m = 0
    BY <2>1 DEF Partly, m
  <2>3. CASE text = "repeated"
    <3>1. Partly = 1 /\ Twice' \subseteq Twice \cup {saving}
      BY <1>0, <2>1, <2>3 DEF Partly, Twice
    <3> QED BY <1>0, <1>bad, <1>same, <1>goal, <2>1, <2>2, <3>1
  <2>4. CASE text # "repeated"
    <3>1. Written # "repeated"
      BY <2>4 DEF Written
    <3>2. Twice' \subseteq Twice
      BY <1>0, <2>1, <3>1 DEF Twice
    <3> QED BY <1>0, <1>1, <1>bad, <2>1, <3>2
  <2> QED BY <2>3, <2>4
<1>8. CASE Killed
  <2>1. Harm("other") /\ text' = "empty"
    BY <1>8 DEF Killed, Ends
  <2>2. Twice' \subseteq Twice
    BY <1>0, <1>8 DEF Killed, Twice
  <2> QED BY <1>0, <1>1, <1>bad, <2>1, <2>2
<1> QED
  BY <1>2, <1>3, <1>4, <1>5, <1>6, <1>7, <1>8 DEF Next, Crawl, Fails

\* What is counted of a tail is counted of the whole, but for its head.
LEMMA AstrayTail ==
  ASSUME CrawlTypeOK, todo # <<>>, todo' = Tail(todo)
  PROVE  /\ Cardinality(Astray') <= Cardinality(Astray)
         /\ Head(todo).href # Head(todo).id => Cardinality(Astray') + 1 <= Cardinality(Astray)
<1> DEFINE f == [k \in Astray' |-> k + 1]
<1>1. ASSUME NEW k \in Astray' PROVE k \in Nat /\ k + 1 \in Astray \ {1}
  <2>1. k \in DOMAIN Tail(todo) /\ Tail(todo)[k].href # Tail(todo)[k].id
    BY DEF Astray
  <2>2. k \in Nat /\ k + 1 \in DOMAIN todo \ {1} /\ Tail(todo)[k] = todo[k + 1]
    BY <2>1, TailOfTodo
  <2> QED BY <2>1, <2>2 DEF Astray
<1>2. f \in Injection(Astray', Astray \ {1})
  <2>1. f \in [Astray' -> Astray \ {1}]
    BY <1>1
  <2>2. \A a, b \in Astray' : f[a] = f[b] => a = b
    BY <1>1
  <2> QED BY <2>1, <2>2 DEF Injection, IsInjective
<1> HIDE DEF f
<1>3. IsFiniteSet(Astray) /\ Cardinality(Astray) \in Nat
  BY Countable
<1>4. /\ IsFiniteSet(Astray \ {1})
      /\ Cardinality(Astray \ {1}) = IF 1 \in Astray THEN Cardinality(Astray) - 1 ELSE Cardinality(Astray)
  BY <1>3, FS_RemoveElement
<1>5. /\ IsFiniteSet(Astray') /\ Cardinality(Astray') <= Cardinality(Astray \ {1})
  BY <1>2, <1>4, FS_Injection
<1> DEFINE n == Cardinality(Astray')
           m == Cardinality(Astray \ {1})
<1>6. n \in Nat /\ m \in Nat /\ n <= m
  BY <1>4, <1>5, FS_CardinalityType
<1>7. Head(todo).href # Head(todo).id => 1 \in Astray
  BY TailOfTodo DEF Astray
<1> HIDE DEF n
<1>8. n <= Cardinality(Astray) /\ (1 \in Astray => n + 1 <= Cardinality(Astray))
  BY <1>3, <1>4, <1>6
<1> QED BY <1>7, <1>8 DEF n

\* Every file with the formulas of another question is due to a summary that was
\* cut off, in the listing, among those that are left, or followed now.
LEMMA WrongStep ==
  ASSUME CrawlTypeOK, CrawlTypeOK', Places, Emptied, WrongPaid, [Next]_vars
  PROVE  WrongPaid'
<1> DEFINE w == Cardinality(Wrong)
           t == Cardinality(Torn)
           a == Cardinality(Astray)
           w2 == Cardinality(Wrong')
           t2 == Cardinality(Torn')
           a2 == Cardinality(Astray')
           m2 == Misled'
           b2 == bad'.list
<1>0. /\ IsFiniteSet(Wrong) /\ IsFiniteSet(Torn) /\ IsFiniteSet(Astray)
      /\ w \in Nat /\ t \in Nat /\ a \in Nat /\ Misled \in 0..1 /\ bad.list \in Nat
      /\ w + t + a + Misled <= bad.list
      /\ file \in [Questions -> Texts \cup {"none", "wrong"}]
  <2>1. /\ IsFiniteSet(Wrong) /\ IsFiniteSet(Torn) /\ IsFiniteSet(Astray)
        /\ w \in Nat /\ t \in Nat /\ a \in Nat
    BY Countable
  <2>2. Misled \in 0..1 /\ w + t + a + Misled <= bad.list
    BY DEF WrongPaid, Misled
  <2>3. bad.list \in Nat /\ file \in [Questions -> Texts \cup {"none", "wrong"}]
    BY DEF CrawlTypeOK
  <2> QED BY <2>1, <2>2, <2>3
<1>new. w2 \in Nat /\ t2 \in Nat /\ a2 \in Nat /\ m2 \in 0..1 /\ b2 \in Nat
  <2>1. (/\ Cardinality(Wrong) \in Nat /\ Cardinality(Torn) \in Nat
         /\ Cardinality(Astray) \in Nat)'
    BY Countable, PTL
  <2> QED BY <2>1 DEF Misled, CrawlTypeOK
<1>goal. ASSUME w2 + t2 + a2 + m2 <= b2 PROVE WrongPaid'
  BY <1>goal DEF WrongPaid
<1>wrong. /\ Wrong' \subseteq Wrong => w2 <= w
          /\ \A q : Wrong' \subseteq Wrong \cup {q} => w2 <= w + 1
  BY <1>0, FS_Subset, OneMore
<1>torn. /\ Torn' \subseteq Torn => t2 <= t
         /\ \A k : Torn' \subseteq Torn \cup {k} => t2 <= t + 1
  BY <1>0, FS_Subset, OneMore
<1>astray. /\ Astray' = Astray => a2 = a
           /\ Astray' = {} => a2 = 0
           /\ Astray' \subseteq Torn => a2 <= t
           /\ Torn' = {} => t2 = 0
           /\ Torn' = Torn => t2 = t
           /\ Wrong' = Wrong => w2 = w
  BY <1>0, FS_Subset, FS_EmptySet
<1>bad. /\ UNCHANGED bad => b2 = bad.list
        /\ Harm("list") => b2 = bad.list + 1
        /\ Harm("post") \/ Harm("other") => b2 = bad.list
  BY HarmPays
<1>tail. todo # <<>> /\ todo' = Tail(todo) =>
           a2 <= a /\ (Head(todo).href # Head(todo).id => a2 + 1 <= a)
  BY AstrayTail
<1> HIDE DEF w, t, a, w2, t2, a2, m2, b2
<1>1. CASE UNCHANGED vars \/ Ask
  <2>1. UNCHANGED <<file, list, todo, saving, href, bad>>
    BY <1>1 DEF vars, crawlVars, Ask
  <2>2. w2 = w /\ t2 = t /\ a2 = a /\ m2 = Misled /\ b2 = bad.list
    BY <2>1, <1>astray, <1>bad DEF Wrong, Torn, Astray, Misled, m2
  <2> QED BY <1>0, <2>2, <1>goal
<1>2. CASE ListFetched
  <2>1. /\ pc = "list" /\ list' = list \o Listing(OnPage, FALSE)
        /\ UNCHANGED <<file, todo, saving, href, bad>>
    BY <1>2 DEF ListFetched
  <2>2. page \in 1..(EndPage - 1)
    BY <2>1 DEF Places
  <2>3. Torn' \subseteq Torn
    <3>1. OnPage \in 0..OnPage
      BY <2>2, PageOfListing
    <3>2. /\ \A k \in DOMAIN list : list'[k] = list[k]
          /\ \A k \in DOMAIN list' \ DOMAIN list : list'[k].link
      BY <2>1, <2>2, <3>1, Received
    <3> QED BY <3>2 DEF Torn
  <2>4. w2 = w /\ t2 <= t /\ a2 = a /\ m2 = Misled /\ b2 = bad.list
    BY <2>1, <2>3, <1>torn, <1>astray, <1>bad DEF Wrong, Astray, Misled, m2
  <2> QED BY <1>0, <1>new, <2>4, <1>goal
<1>3. CASE ListFails
  <2>1. pc = "list" /\ Harm("list") /\ UNCHANGED <<file, todo, saving, href>>
    BY <1>3 DEF ListFails
  <2>2. page \in 1..(EndPage - 1)
    BY <2>1 DEF Places
  <2>3. Torn' \subseteq Torn \cup {Len(list')}
    <3>1. PICK n \in 0..OnPage, torn \in BOOLEAN :
            (torn => n < OnPage) /\ list' = list \o Listing(n, torn)
      BY <1>3 DEF ListFails
    <3>2. /\ \A k \in DOMAIN list : list'[k] = list[k]
          /\ \A k \in DOMAIN list' \ DOMAIN list : ~list'[k].link => k = Len(list')
      BY <2>2, <3>1, Received
    <3> QED BY <3>2 DEF Torn
  <2>4. w2 = w /\ t2 <= t + 1 /\ a2 = a /\ m2 = Misled /\ b2 = bad.list + 1
    BY <2>1, <2>3, <1>torn, <1>astray, <1>bad DEF Wrong, Astray, Misled, m2
  <2> QED BY <1>0, <1>new, <2>4, <1>goal
<1>4. CASE ListRefused \/ PostFetched \/ PostFails \/ PostRefused \/ Start \/ NextPage
  <2>1. /\ UNCHANGED <<file, list, todo, saving, href>>
        /\ UNCHANGED bad \/ Harm("other") \/ Harm("post")
    BY <1>4 DEF ListRefused, PostFetched, PostFails, PostRefused, Start, NextPage
  <2>2. w2 = w /\ t2 = t /\ a2 = a /\ m2 = Misled /\ b2 = bad.list
    BY <2>1, <1>astray, <1>bad DEF Wrong, Torn, Astray, Misled, m2
  <2> QED BY <1>0, <2>2, <1>goal
<1>5. CASE FindSummaries
  <2>1. /\ UNCHANGED <<file, saving, href, bad>> /\ list' = <<>>
        /\ todo' = [k \in DOMAIN list |-> [id |-> list[k].id, href |-> LinkOf(k)]]
    BY <1>5 DEF FindSummaries
  <2>2. Astray' \subseteq Torn
    <3>1. ASSUME NEW k \in Astray' PROVE k \in Torn
      <4>1. k \in DOMAIN list /\ LinkOf(k) # list[k].id
        BY <2>1 DEF Astray
      <4>2. list \in Seq(Summaries)
        BY DEF CrawlTypeOK
      <4> QED BY <4>1, <4>2, LinkOfWhole DEF Torn
    <3> QED BY <3>1
  <2>3. Torn' = {}
    BY <2>1 DEF Torn
  <2>4. w2 = w /\ t2 = 0 /\ a2 <= t /\ m2 = Misled /\ b2 = bad.list
    BY <2>1, <2>2, <2>3, <1>astray, <1>bad DEF Wrong, Misled, m2
  <2> QED BY <1>0, <1>new, <2>4, <1>goal
<1>6. CASE Exists
  <2>1. /\ UNCHANGED <<file, list, saving, href, bad>> /\ todo # <<>> /\ todo' = Tail(todo)
    BY <1>6 DEF Exists
  <2>2. w2 = w /\ t2 = t /\ a2 <= a /\ m2 = Misled /\ b2 = bad.list
    BY <2>1, <1>astray, <1>bad, <1>tail DEF Wrong, Torn, Misled, m2
  <2> QED BY <1>0, <1>new, <2>2, <1>goal
<1>7. CASE OpenFile
  <2>1. /\ UNCHANGED <<list, bad>> /\ todo # <<>> /\ todo' = Tail(todo)
        /\ file' = [file EXCEPT ![Head(todo).id] = "empty"]
        /\ saving' = Head(todo).id /\ href' = Head(todo).href
    BY <1>7 DEF OpenFile
  <2>2. Wrong' \subseteq Wrong
    BY <1>0, <2>1 DEF Wrong
  <2>3. m2 = 0 \/ (m2 = 1 /\ Head(todo).href # Head(todo).id)
    BY <2>1 DEF Misled, m2
  <2>4. w2 <= w /\ t2 = t /\ a2 + m2 <= a /\ b2 = bad.list
    <3>1. w2 <= w /\ t2 = t /\ b2 = bad.list
      BY <2>1, <2>2, <1>wrong, <1>astray, <1>bad DEF Torn
    <3>2. a2 + m2 <= a
      BY <1>0, <1>new, <2>1, <2>3, <1>tail
    <3> QED BY <3>1, <3>2
  <2> QED BY <1>0, <1>new, <2>4, <1>goal
<1>8. ASSUME Ends, b2 = bad.list, w2 <= w + Misled PROVE WrongPaid'
  <2>1. t2 = 0 /\ a2 = 0 /\ m2 = 0
    BY <1>8, EndsClear, <1>astray DEF m2
  <2> QED BY <1>0, <1>new, <1>8, <2>1, <1>goal
<1>9. CASE NoLink \/ Over
  <2>1. /\ Ends
        /\ UNCHANGED bad \/ Harm("other")
        /\ UNCHANGED file \/ file' = [file EXCEPT ![Head(todo).id] = "empty"]
    BY <1>9 DEF NoLink, Over
  <2>2. Wrong' \subseteq Wrong
    BY <1>0, <2>1 DEF Wrong
  <2>3. w2 <= w + Misled
    BY <1>0, <1>new, <2>2, <1>wrong
  <2> QED BY <1>8, <2>1, <2>3, <1>bad
<1>10. ASSUME pc = "close", \/ file' = [file EXCEPT ![saving] = Written]
                            \/ file' = [file EXCEPT ![saving] = IF href = saving THEN "cut" ELSE "wrong"]
       PROVE  w2 <= w + Misled
  <2>1. saving \in Questions /\ href \in Questions
    BY <1>10 DEF Places
  <2>2. \A q \in Questions \ {saving} : file'[q] = file[q]
    BY <1>0, <1>10
  <2>3. CASE href = saving
    <3>1. file'[saving] # "wrong"
      <4>1. Written = text /\ text # "wrong"
        BY <2>3 DEF Written, CrawlTypeOK, Texts
      <4> QED BY <1>0, <1>10, <2>1, <2>3, <4>1
    <3>2. Wrong' \subseteq Wrong
      BY <2>2, <3>1 DEF Wrong
    <3> QED BY <1>0, <1>new, <3>2, <1>wrong
  <2>4. CASE href # saving
    <3>1. Misled = 1
      BY <2>1, <2>4, CrawlerAssumption DEF Misled, Questions, Nothing
    <3>2. Wrong' \subseteq Wrong \cup {saving}
      BY <2>2 DEF Wrong
    <3> QED BY <1>0, <1>new, <3>1, <3>2, <1>wrong
  <2> QED BY <2>3, <2>4
<1>11. CASE CloseFile
  <2>1. /\ UNCHANGED <<list, todo, bad>> /\ pc = "close" /\ saving' = Nothing
        /\ file' = [file EXCEPT ![saving] = Written]
    BY <1>11 DEF CloseFile
  <2>2. w2 <= w + Misled
    BY <1>10, <2>1
  <2>3. t2 = t /\ a2 = a /\ m2 = 0 /\ b2 = bad.list
    BY <2>1, <1>astray, <1>bad DEF Torn, Astray, Misled, m2
  <2> QED BY <1>0, <1>new, <2>2, <2>3, <1>goal
<1>12. CASE ForceDone
  <2>1. /\ Ends /\ UNCHANGED bad /\ pc = "close" /\ file' = [file EXCEPT ![saving] = Written]
    BY <1>12 DEF ForceDone
  <2>2. w2 <= w + Misled
    BY <1>10, <2>1
  <2> QED BY <1>8, <2>1, <2>2, <1>bad
<1>13. CASE Killed
  <2>1. Ends /\ Harm("other")
    BY <1>13 DEF Killed
  <2>2. w2 <= w + Misled
    <3>1. CASE UNCHANGED file
      <4>1. w2 = w
        BY <3>1, <1>astray DEF Wrong
      <4> QED BY <1>0, <4>1
    <3>2. CASE ~UNCHANGED file
      BY <1>10, <1>13, <3>2 DEF Killed
    <3> QED BY <3>1, <3>2
  <2> QED BY <1>8, <2>1, <2>2, <1>bad
<1>14. CASE ForceQuestion
  <2>1. PICK q \in 1..asked : saving' = q /\ file' = [file EXCEPT ![q] = "empty"]
    BY <1>14 DEF ForceQuestion
  <2>2. pc = "idle" /\ UNCHANGED <<list, todo, href, bad>>
    BY <1>14 DEF ForceQuestion
  <2>3. Wrong' \subseteq Wrong
    BY <1>0, <2>1 DEF Wrong
  <2>4. m2 = 0
    BY <2>2 DEF Emptied, Misled, m2
  <2>5. w2 <= w /\ t2 = t /\ a2 = a /\ b2 = bad.list
    BY <2>2, <2>3, <1>wrong, <1>astray, <1>bad DEF Torn, Astray
  <2> QED BY <1>0, <1>new, <2>4, <2>5, <1>goal
<1>15. CASE Redirected \/ RedirectFails \/ RedirectRefused
  <2>1. /\ pc = "redirect" /\ href' \in {href, saving} /\ UNCHANGED file
        /\ UNCHANGED bad \/ Harm("post") \/ Harm("other")
        /\ Ends \/ UNCHANGED <<list, todo, saving>>
    BY <1>15 DEF Redirected, RedirectFails, RedirectRefused, Follow
  <2>2. w2 = w /\ b2 = bad.list
    BY <2>1, <1>astray, <1>bad DEF Wrong
  <2>3. CASE Ends
    BY <1>0, <1>8, <2>2, <2>3
  <2>4. CASE UNCHANGED <<list, todo, saving>>
    <3>1. m2 = 0
      BY <2>1, <2>4 DEF Emptied, Misled, m2
    <3>2. t2 = t /\ a2 = a
      BY <2>4, <1>astray DEF Torn, Astray
    <3> QED BY <1>0, <2>2, <3>1, <3>2, <1>goal
  <2> QED BY <2>1, <2>3, <2>4
<1> QED
  BY <1>1, <1>2, <1>3, <1>4, <1>5, <1>6, <1>7, <1>9, <1>11, <1>12, <1>13, <1>14, <1>15
  DEF Next, Crawl, Fails

\* The inductive invariant of the damage.
THEOREM DamageInvariant == Spec => []DamageInv
<1>1. Init /\ CrawlTypeOK /\ Places => DamageInv
  <2> SUFFICES ASSUME Init, CrawlTypeOK, Places PROVE DamageInv
    OBVIOUS
  <2>1. /\ file = [q \in Questions |-> "none"] /\ pc = "idle" /\ errs = 0 /\ list = <<>>
        /\ todo = <<>> /\ saving = Nothing /\ href = Nothing /\ text = "empty"
    BY DEF Init
  <2>2. Emptied
    BY <2>1 DEF Emptied
  <2>3. DOMAIN list = {} /\ DOMAIN todo = {}
    BY <2>1
  <2>4. Short = {} /\ Twice = {} /\ Wrong = {} /\ Torn = {} /\ Astray = {} /\ Misled = 0
    BY <2>1, <2>3 DEF Short, Twice, Wrong, Torn, Astray, Misled
  <2>5. Debt = 0
    BY <2>1, <2>3 DEF Debt, LinkDebt, TextDebt, Unlinked
  <2>6. ShortPaid
    <3>1. Tries \in Nat /\ Budget \in Nat
      BY DebtTypes
    <3>2. Cardinality(Short) = 0
      BY <2>4, FS_EmptySet
    <3>3. 0 * Tries = 0
      BY <3>1
    <3> QED BY <2>5, <3>1, <3>2, <3>3 DEF ShortPaid
  <2>7. WrongPaid
    <3>1. /\ Cardinality(Wrong) = 0 /\ Cardinality(Torn) = 0 /\ Cardinality(Astray) = 0
          /\ bad.list \in Nat
      BY <2>4, FS_EmptySet DEF CrawlTypeOK
    <3> QED BY <2>4, <3>1 DEF WrongPaid
  <2>8. TwicePaid
    <3>1. Cardinality(Twice) = 0 /\ bad.post \in Nat /\ Partly = 0
      BY <2>4, FS_EmptySet DEF CrawlTypeOK, Init, Partly
    <3> QED BY <3>1 DEF TwicePaid
  <2> QED BY <2>2, <2>6, <2>7, <2>8 DEF DamageInv
<1>2. CrawlTypeOK' /\ DamageInv /\ [Next]_vars => DamageInv'
  BY TypesStep, EmptiedStep, ShortStep, TwiceStep, WrongStep DEF DamageInv
<1>3. CrawlInv => CrawlTypeOK /\ Places
  BY DEF CrawlInv
<1> QED BY <1>1, <1>2, <1>3, CrawlInvariant, PTL DEF Spec

\* However fetches fail, pages are refused and the crawler is killed and started
\* again, every file that lacks formulas costs a kill, a refused page or more
\* than MaxErrs failed fetches, every file that has formulas twice a failed fetch,
\* and every file with the formulas of another question a listing that was cut off
\* in the middle of a summary.
THEOREM DamageIsPaidFor == Spec => []DamagedByFaults
<1>1. DamageInv => DamagedByFaults
  <2> SUFFICES ASSUME DamageInv PROVE DamagedByFaults
    OBVIOUS
  <2>1. CrawlTypeOK /\ ShortPaid /\ TwicePaid /\ WrongPaid
    BY DEF DamageInv
  <2>2. /\ Cardinality(Short) * Tries <= Budget
    <3> DEFINE p == Cardinality(Short) * Tries
    <3>1. p \in Nat /\ Debt \in Nat /\ Budget \in Nat /\ p + Debt <= Budget
      <4>1. Cardinality(Short) \in Nat /\ Tries \in Nat
        BY <2>1, Countable, DebtTypes
      <4> QED BY <2>1, <4>1, DebtTypes DEF ShortPaid
    <3> HIDE DEF p
    <3>2. p <= Budget
      BY <3>1
    <3> QED BY <3>2 DEF p
  <2>3. Cardinality(Wrong) <= bad.list
    <3>1. /\ Cardinality(Wrong) \in Nat /\ Cardinality(Torn) \in Nat
          /\ Cardinality(Astray) \in Nat /\ Misled \in 0..1 /\ bad.list \in Nat
      BY <2>1, Countable DEF Misled, CrawlTypeOK
    <3> QED BY <2>1, <3>1 DEF WrongPaid
  <2>4. Cardinality(Twice) <= bad.post
    <3>1. Cardinality(Twice) \in Nat /\ Partly \in 0..1 /\ bad.post \in Nat
      BY <2>1, Countable DEF Partly, CrawlTypeOK
    <3> QED BY <2>1, <3>1 DEF TwicePaid
  <2> QED BY <2>2, <2>3, <2>4 DEF DamagedByFaults, Short, Twice, Wrong, Budget, Tries
<1> QED BY <1>1, DamageInvariant, PTL

---------------------------------------------------------------------------

\* A set of numbers that has 0 and what follows each of its members has all.
LEMMA SetInduction ==
  ASSUME NEW S, 0 \in S, \A k \in Nat : k \in S => k + 1 \in S
  PROVE  \A k \in Nat : k \in S
<1> DEFINE B == {k \in Nat : k \notin S}
           R == {x \in Nat \X Nat : x[1] < x[2]}
<1>1. IsWellFoundedOn(R, Nat)
  BY NatLessThanWellFounded DEF OpToRel
<1>2. \A n, m \in Nat : n < m => <<n, m>> \in R
  OBVIOUS
<1> HIDE DEF R
<1> SUFFICES ASSUME B # {} PROVE FALSE
  OBVIOUS
<1>3. B \in SUBSET Nat
  OBVIOUS
<1>4. PICK m \in B : \A n \in B : <<n, m>> \notin R
  BY <1>1, <1>3, WFMin
<1>5. m \in Nat /\ m \notin S /\ m # 0
  OBVIOUS
<1>6. m - 1 \in Nat /\ m - 1 < m /\ (m - 1) + 1 = m
  BY <1>5
<1>7. m - 1 \in S
  BY <1>2, <1>4, <1>5, <1>6
<1> QED BY <1>5, <1>6, <1>7

(* The signs of dollar.py *)

Chars == {"$", "bs", "a"}
\* The states of the scanner: what is open was opened behind the first character.
Readings ==
  {sc \in [skip : BOOLEAN, stack : {0, 1, 2}, j : Nat, out : Seq(Seq(Chars))] :
     sc.stack # 0 => sc.j >= 1}

\* The scanner before the text and behind each of its characters.
IsScan(s, f) ==
  f = [k \in 0 .. Len(s) |-> IF k = 0 THEN Scanner ELSE AtChar(s, f[k - 1], k)]

\* The recursion of find_dollar_tex() is well founded, so its function exists.
LEMMA ScanExists ==
  ASSUME NEW s, Len(s) \in Nat
  PROVE  \E f : IsScan(s, f)
<1> DEFINE Part(m, f) == f = [k \in 0 .. m |-> IF k = 0 THEN Scanner ELSE AtChar(s, f[k - 1], k)]
           S == {m \in Nat : \E f : Part(m, f)}
<1>1. 0 \in S
  <2> DEFINE f == [k \in 0 .. 0 |-> Scanner]
  <2>1. Part(0, f)
    OBVIOUS
  <2> HIDE DEF f
  <2> QED BY <2>1
<1>2. ASSUME NEW m \in Nat, m \in S PROVE m + 1 \in S
  <2>1. PICK g : Part(m, g)
    BY <1>2
  <2> DEFINE f == [k \in 0 .. m + 1 |-> IF k = m + 1 THEN AtChar(s, g[m], m + 1) ELSE g[k]]
  <2>2. \A k \in 0 .. m : f[k] = g[k]
    OBVIOUS
  <2>3. \A k \in 0 .. m + 1 : f[k] = IF k = 0 THEN Scanner ELSE AtChar(s, f[k - 1], k)
    <3> TAKE k \in 0 .. m + 1
    <3>1. CASE k = 0
      BY <2>1, <3>1
    <3>2. CASE k \in 1 .. m
      <4>1. k - 1 \in 0 .. m /\ k \in 0 .. m
        BY <3>2
      <4>2. g[k] = AtChar(s, g[k - 1], k)
        BY <2>1, <3>2, <4>1
      <4> QED BY <2>2, <3>2, <4>1, <4>2
    <3>3. CASE k = m + 1
      <4>1. f[k] = AtChar(s, g[m], m + 1) /\ m \in 0 .. m /\ k - 1 = m
        BY <3>3
      <4> QED BY <2>2, <3>3, <4>1
    <3> QED BY <3>1, <3>2, <3>3
  <2>4. f = [k \in 0 .. m + 1 |-> f[k]]
    OBVIOUS
  <2> HIDE DEF f
  <2>5. Part(m + 1, f)
    BY <2>3, <2>4, Zenon
  <2> HIDE DEF Part
  <2> QED BY <2>5
<1> HIDE DEF S
<1>3. Len(s) \in S
  BY <1>1, <1>2, SetInduction
<1> QED BY <1>3 DEF S, IsScan

\* The prefixes of a flattened sequence.
IsFlat(ss, f) ==
  f = [i \in 1 .. Len(ss) |-> IF i = 1 THEN ss[i] ELSE f[i - 1] \o ss[i]]

\* So is that of FlattenSeq.
LEMMA FlatExists ==
  ASSUME NEW ss, Len(ss) \in Nat
  PROVE  \E f : IsFlat(ss, f)
<1> DEFINE Part(m, f) == f = [i \in 1 .. m |-> IF i = 1 THEN ss[i] ELSE f[i - 1] \o ss[i]]
           S == {m \in Nat : \E f : Part(m, f)}
<1>1. 0 \in S
  <2> DEFINE f == [i \in 1 .. 0 |-> ss]
  <2>1. Part(0, f)
    OBVIOUS
  <2> HIDE DEF f
  <2> QED BY <2>1
<1>2. ASSUME NEW m \in Nat, m \in S PROVE m + 1 \in S
  <2>1. PICK g : Part(m, g)
    BY <1>2
  <2> DEFINE f == [i \in 1 .. m + 1 |->
                     IF i = m + 1 THEN IF i = 1 THEN ss[i] ELSE g[m] \o ss[i] ELSE g[i]]
  <2>2. \A i \in 1 .. m : f[i] = g[i]
    OBVIOUS
  <2>3. \A i \in 1 .. m + 1 : f[i] = IF i = 1 THEN ss[i] ELSE f[i - 1] \o ss[i]
    <3> TAKE i \in 1 .. m + 1
    <3>1. CASE i \in 1 .. m
      <4>1. i = 1 \/ i - 1 \in 1 .. m
        BY <3>1
      <4>2. g[i] = IF i = 1 THEN ss[i] ELSE g[i - 1] \o ss[i]
        BY <2>1, <3>1
      <4> QED BY <2>2, <3>1, <4>1, <4>2
    <3>2. CASE i = m + 1
      <4>1. f[i] = IF i = 1 THEN ss[i] ELSE g[m] \o ss[i]
        BY <3>2
      <4>2. i = 1 \/ (i - 1 \in 1 .. m /\ i - 1 = m)
        BY <3>2
      <4> QED BY <2>2, <4>1, <4>2
    <3> QED BY <3>1, <3>2
  <2>4. f = [i \in 1 .. m + 1 |-> f[i]]
    OBVIOUS
  <2> HIDE DEF f
  <2>5. Part(m + 1, f)
    BY <2>3, <2>4, Zenon
  <2> HIDE DEF Part
  <2> QED BY <2>5
<1> HIDE DEF S
<1>3. Len(ss) \in S
  BY <1>1, <1>2, SetInduction
<1> QED BY <1>3 DEF S, IsFlat

\* A flattened sequence is what the last of its prefixes is.
LEMMA FlatIs ==
  ASSUME NEW ss, Len(ss) \in Nat, Len(ss) # 0
  PROVE  \E f : IsFlat(ss, f) /\ FlattenSeq(ss) = f[Len(ss)]
<1> DEFINE flatten == CHOOSE f : IsFlat(ss, f)
<1>1. IsFlat(ss, flatten)
  BY FlatExists
<1>2. FlattenSeq(ss) = flatten[Len(ss)]
  BY DEF FlattenSeq, IsFlat
<1> QED BY <1>1, <1>2


\* Every prefix is the one before and a part more.
LEMMA FlatParts ==
  ASSUME NEW ss \in Seq(Seq(Chars)), NEW f, IsFlat(ss, f)
  PROVE  \A m \in Nat : m + 1 <= Len(ss) =>
           /\ ss[m + 1] \in Seq(Chars)
           /\ m = 0 => f[m + 1] = ss[m + 1]
           /\ m # 0 => f[m + 1] = f[m] \o ss[m + 1]
<1> SUFFICES ASSUME NEW m \in Nat, m + 1 <= Len(ss)
             PROVE  /\ ss[m + 1] \in Seq(Chars)
                    /\ m = 0 => f[m + 1] = ss[m + 1]
                    /\ m # 0 => f[m + 1] = f[m] \o ss[m + 1]
  OBVIOUS
<1>1. m + 1 \in 1 .. Len(ss) /\ (m + 1) - 1 = m /\ (m = 0 <=> m + 1 = 1)
  OBVIOUS
<1>2. f[m + 1] = IF m + 1 = 1 THEN ss[m + 1] ELSE f[(m + 1) - 1] \o ss[m + 1]
  BY <1>1, Zenon DEF IsFlat
<1>3. ss[m + 1] \in Seq(Chars)
  BY <1>1
<1> QED BY <1>1, <1>2, <1>3

\* The scanner after a text.
ScanOf(s) == CHOOSE f : IsScan(s, f)
St(s)     == ScanOf(s)[Len(s)]

\* The scanner starts empty and moves by one character.
LEMMA ScanSteps ==
  ASSUME NEW s \in Seq(Chars)
  PROVE  /\ find_dollar_tex(s) = St(s).out
         /\ ScanOf(s)[0] = Scanner
         /\ \A k \in Nat : k + 1 <= Len(s) =>
              ScanOf(s)[k + 1] = AtChar(s, ScanOf(s)[k], k + 1)
<1>0. Len(s) \in Nat
  OBVIOUS
<1>1. IsScan(s, ScanOf(s))
  BY <1>0, ScanExists DEF ScanOf
<1>2. find_dollar_tex(s) = St(s).out
  BY DEF find_dollar_tex, IsScan, ScanOf, St
<1>3. ScanOf(s)[0] = Scanner
  <2>1. 0 \in 0 .. Len(s)
    BY <1>0
  <2> QED BY <1>1, <2>1, Zenon DEF IsScan
<1>4. ASSUME NEW k \in Nat, k + 1 <= Len(s)
      PROVE  ScanOf(s)[k + 1] = AtChar(s, ScanOf(s)[k], k + 1)
  <2>1. k + 1 \in 0 .. Len(s) /\ k + 1 # 0 /\ (k + 1) - 1 = k
    BY <1>0, <1>4
  <2>2. ScanOf(s)[k + 1] = IF k + 1 = 0 THEN Scanner ELSE AtChar(s, ScanOf(s)[(k + 1) - 1], k + 1)
    BY <1>1, <2>1, Zenon DEF IsScan
  <2> QED BY <2>1, <2>2, Zenon
<1> QED BY <1>2, <1>3, <1>4

\* A text that does not end in a backslash that is still to be looked behind.
Closed(s) == s = <<>> \/ s[Len(s)] # "bs"

\* What is cut out of a text is one.
LEMMA CutOfText ==
  ASSUME NEW s \in Seq(Chars), NEW j \in Nat, NEW k \in 1 .. Len(s), j >= 1
  PROVE  SubSeq(s, j, k - 1) \in Seq(Chars)
OBVIOUS

\* A character leaves the scanner in a state it can be in.
LEMMA ReadingOfChar ==
  ASSUME NEW s \in Seq(Chars), NEW sc \in Readings, NEW k \in 1 .. Len(s)
  PROVE  AtChar(s, sc, k) \in Readings
<1>1. /\ sc \in [skip : BOOLEAN, stack : {0, 1, 2}, j : Nat, out : Seq(Seq(Chars))]
      /\ sc.stack # 0 => sc.j >= 1
      /\ k + 1 \in Nat /\ k + 1 >= 1
  BY DEF Readings
<1>2. CASE sc.skip
  BY <1>1, <1>2 DEF AtChar, Readings
<1>3. CASE ~sc.skip /\ s[k] = "$"
  <2>1. AtChar(s, sc, k) = AtDollar(s, sc, k)
    BY <1>3 DEF AtChar
  <2>2. CASE sc.stack = 0
    BY <1>1, <2>1, <2>2 DEF AtDollar, Readings
  <2>3. CASE sc.stack = 1 /\ k = sc.j
    BY <1>1, <2>1, <2>3 DEF AtDollar, Readings
  <2>4. CASE sc.stack # 0 /\ ~(sc.stack = 1 /\ k = sc.j)
    <3>1. AtDollar(s, sc, k) = [skip |-> sc.stack = 2, stack |-> 0, j |-> sc.j,
                                out |-> Append(sc.out, SubSeq(s, sc.j, k - 1))]
      BY <2>4 DEF AtDollar
    <3>2. SubSeq(s, sc.j, k - 1) \in Seq(Chars)
      BY <1>1, <2>4, CutOfText
    <3>3. Append(sc.out, SubSeq(s, sc.j, k - 1)) \in Seq(Seq(Chars))
      BY <1>1, <3>2
    <3> QED BY <1>1, <2>1, <3>1, <3>3 DEF Readings
  <2> QED BY <2>2, <2>3, <2>4
<1>4. CASE ~sc.skip /\ s[k] # "$"
  BY <1>1, <1>4 DEF AtChar, Readings
<1> QED BY <1>2, <1>3, <1>4

\* So it is in one all along a text.
LEMMA ReadingsOfText ==
  ASSUME NEW s \in Seq(Chars)
  PROVE  \A k \in Nat : k <= Len(s) => ScanOf(s)[k] \in Readings
<1> DEFINE T == {k \in Nat : k <= Len(s) => ScanOf(s)[k] \in Readings}
<1>1. 0 \in T
  <2>1. Scanner \in Readings
    BY DEF Scanner, Readings
  <2> QED BY <2>1, ScanSteps
<1>2. ASSUME NEW k \in Nat, k \in T PROVE k + 1 \in T
  <2> SUFFICES ASSUME k + 1 <= Len(s) PROVE ScanOf(s)[k + 1] \in Readings
    OBVIOUS
  <2>1. k + 1 \in 1 .. Len(s) /\ k <= Len(s)
    OBVIOUS
  <2>2. ScanOf(s)[k] \in Readings
    BY <1>2, <2>1
  <2> QED BY <2>1, <2>2, ScanSteps, ReadingOfChar
<1> HIDE DEF T
<1>3. \A k \in Nat : k \in T
  BY <1>1, <1>2, SetInduction
<1> QED BY <1>3 DEF T

\* What is cut before k does not depend on what follows k.
LEMMA CutOfPrefix ==
  ASSUME NEW x \in Seq(Chars), NEW y \in Seq(Chars), NEW k \in 1 .. Len(x),
         NEW j \in Nat, j >= 1
  PROVE  SubSeq(x \o y, j, k - 1) = SubSeq(x, j, k - 1)
<1>1. \A i \in j .. k - 1 : (x \o y)[i] = x[i]
  OBVIOUS
<1> QED BY <1>1

\* What follows a closed text does not change how it is read.
LEMMA AtCharOfPrefix ==
  ASSUME NEW x \in Seq(Chars), NEW y \in Seq(Chars), Closed(x), NEW k \in 1 .. Len(x),
         NEW sc \in Readings
  PROVE  AtChar(x \o y, sc, k) = AtChar(x, sc, k)
<1>1. (x \o y)[k] = x[k]
  OBVIOUS
<1>2. x[k] = "bs" => k < Len(x)
  BY DEF Closed
<1>3. k < Len(x) => k < Len(x \o y) /\ (x \o y)[k + 1] = x[k + 1]
  OBVIOUS
<1>4. sc.stack # 0 => SubSeq(x \o y, sc.j, k - 1) = SubSeq(x, sc.j, k - 1)
  BY CutOfPrefix DEF Readings
<1>5. AtDollar(x \o y, sc, k) = AtDollar(x, sc, k)
  BY <1>4 DEF AtDollar
<1> QED BY <1>1, <1>2, <1>3, <1>5 DEF AtChar

\* Behind a closed text the scanner stands as if the text ended there.
LEMMA ScanOfPrefix ==
  ASSUME NEW x \in Seq(Chars), NEW y \in Seq(Chars), Closed(x)
  PROVE  ScanOf(x \o y)[Len(x)] = St(x)
<1> DEFINE T == {k \in Nat : k <= Len(x) => ScanOf(x \o y)[k] = ScanOf(x)[k]}
<1>0. Len(x) \in Nat /\ x \o y \in Seq(Chars) /\ Len(x) <= Len(x \o y)
  OBVIOUS
<1>1. 0 \in T
  BY <1>0, ScanSteps
<1>2. ASSUME NEW k \in Nat, k \in T PROVE k + 1 \in T
  <2> SUFFICES ASSUME k + 1 <= Len(x) PROVE ScanOf(x \o y)[k + 1] = ScanOf(x)[k + 1]
    OBVIOUS
  <2>1. k + 1 \in 1 .. Len(x) /\ k <= Len(x) /\ k + 1 <= Len(x \o y)
    BY <1>0
  <2>2. ScanOf(x \o y)[k] = ScanOf(x)[k] /\ ScanOf(x)[k] \in Readings
    BY <1>2, <2>1, ReadingsOfText
  <2>3. ScanOf(x \o y)[k + 1] = AtChar(x \o y, ScanOf(x)[k], k + 1)
    BY <1>0, <2>1, <2>2, ScanSteps
  <2>4. ScanOf(x)[k + 1] = AtChar(x, ScanOf(x)[k], k + 1)
    BY <2>1, ScanSteps
  <2> QED BY <2>1, <2>2, <2>3, <2>4, AtCharOfPrefix
<1> HIDE DEF T
<1>3. Len(x) \in T
  BY <1>0, <1>1, <1>2, SetInduction
<1> QED BY <1>0, <1>3 DEF T, St

\* The scanner behind a text is in a state it can be in.
LEMMA StOfText ==
  ASSUME NEW s \in Seq(Chars)
  PROVE  St(s) \in Readings
BY ReadingsOfText DEF St

\* A character behind a closed text.
LEMMA StOfChar ==
  ASSUME NEW x \in Seq(Chars), Closed(x), NEW c \in Chars
  PROVE  St(x \o <<c>>) = AtChar(x \o <<c>>, St(x), Len(x) + 1)
<1> DEFINE y == <<c>>
           z == x \o y
<1>1. y \in Seq(Chars) /\ z \in Seq(Chars) /\ Len(z) = Len(x) + 1 /\ Len(x) \in Nat
  OBVIOUS
<1>2. ScanOf(z)[Len(x)] = St(x)
  <2> HIDE DEF y
  <2> QED BY <1>1, ScanOfPrefix
<1> HIDE DEF z
<1>3. ScanOf(z)[Len(x) + 1] = AtChar(z, ScanOf(z)[Len(x)], Len(x) + 1)
  BY <1>1, ScanSteps
<1>4. St(z) = AtChar(z, St(x), Len(x) + 1)
  BY <1>1, <1>2, <1>3 DEF St
<1> QED BY <1>4 DEF z

\* Two characters behind a closed text.
LEMMA StOfChars ==
  ASSUME NEW x \in Seq(Chars), Closed(x), NEW c \in Chars, NEW d \in Chars
  PROVE  St(x \o <<c, d>>) =
           AtChar(x \o <<c, d>>, AtChar(x \o <<c, d>>, St(x), Len(x) + 1), Len(x) + 2)
<1> DEFINE y == <<c, d>>
           z == x \o y
<1>1. y \in Seq(Chars) /\ z \in Seq(Chars) /\ Len(z) = Len(x) + 2 /\ Len(x) \in Nat
  OBVIOUS
<1>2. ScanOf(z)[Len(x)] = St(x)
  <2> HIDE DEF y
  <2> QED BY <1>1, ScanOfPrefix
<1> HIDE DEF z
<1>3. ScanOf(z)[Len(x) + 1] = AtChar(z, ScanOf(z)[Len(x)], Len(x) + 1)
  BY <1>1, ScanSteps
<1>4. Len(x) + 1 \in Nat /\ (Len(x) + 1) + 1 = Len(x) + 2
  BY <1>1
<1>5. ScanOf(z)[(Len(x) + 1) + 1] = AtChar(z, ScanOf(z)[Len(x) + 1], (Len(x) + 1) + 1)
  BY <1>1, <1>4, ScanSteps
<1>6. St(z) = AtChar(z, AtChar(z, St(x), Len(x) + 1), Len(x) + 2)
  BY <1>1, <1>2, <1>3, <1>4, <1>5 DEF St
<1> QED BY <1>6 DEF z

\* A unit, an escaped dollar sign among them, leaves the scanner as it is.
LEMMA UnitIsKept ==
  ASSUME NEW x \in Seq(Chars), Closed(x), ~St(x).skip, NEW u \in Units
  PROVE  x \o u \in Seq(Chars) /\ Closed(x \o u) /\ St(x \o u) = St(x)
<1>1. St(x) \in Readings /\ St(x).skip = FALSE /\ Len(x) \in Nat
  BY StOfText DEF Readings
<1>2. [[St(x) EXCEPT !.skip = TRUE] EXCEPT !.skip = FALSE] = St(x)
  BY <1>1 DEF Readings
<1>3. [St(x) EXCEPT !.skip = FALSE] = St(x)
  BY <1>1 DEF Readings
<1>4. CASE u = <<"a">>
  <2> DEFINE z == x \o <<"a">>
  <2>1. z \in Seq(Chars) /\ Len(z) = Len(x) + 1 /\ z[Len(x) + 1] = "a"
    BY <1>1 DEF Chars
  <2>2. St(z) = AtChar(z, St(x), Len(x) + 1)
    BY StOfChar DEF Chars
  <2> HIDE DEF z
  <2>3. AtChar(z, St(x), Len(x) + 1) = St(x)
    BY <1>1, <2>1 DEF AtChar
  <2>4. Closed(z)
    BY <2>1 DEF Closed
  <2> QED BY <1>4, <2>1, <2>2, <2>3, <2>4 DEF z
<1>5. ASSUME NEW d \in Chars, d # "bs", u = <<"bs", d>>
      PROVE  x \o u \in Seq(Chars) /\ Closed(x \o u) /\ St(x \o u) = St(x)
  <2> DEFINE z == x \o <<"bs", d>>
  <2>1. /\ z \in Seq(Chars) /\ Len(z) = Len(x) + 2
        /\ z[Len(x) + 1] = "bs" /\ z[Len(x) + 2] = d
    BY <1>1 DEF Chars
  <2>2. St(z) = AtChar(z, AtChar(z, St(x), Len(x) + 1), Len(x) + 2)
    BY StOfChars DEF Chars
  <2> HIDE DEF z
  <2>3. (Len(x) + 1) + 1 = Len(x) + 2 /\ Len(x) + 1 < Len(z)
    BY <1>1, <2>1
  <2>4. AtChar(z, St(x), Len(x) + 1) = [St(x) EXCEPT !.skip = (d = "$")]
    BY <1>1, <2>1, <2>3 DEF AtChar
  <2>5. CASE d = "$"
    <3>1. [St(x) EXCEPT !.skip = TRUE].skip
      BY <1>1 DEF Readings
    <3>2. St(z) = St(x)
      BY <1>2, <2>2, <2>4, <2>5, <3>1 DEF AtChar
    <3>3. Closed(z)
      BY <2>1, <1>5 DEF Closed
    <3> QED BY <1>5, <2>1, <3>2, <3>3 DEF z
  <2>6. CASE d = "a"
    <3>1. St(z) = St(x)
      BY <1>1, <1>3, <2>1, <2>2, <2>4, <2>6 DEF AtChar
    <3>2. Closed(z)
      BY <2>1, <1>5 DEF Closed
    <3> QED BY <1>5, <2>1, <3>1, <3>2 DEF z
  <2> QED BY <1>5, <2>5, <2>6 DEF Chars
<1> QED BY <1>4, <1>5 DEF Units, Chars

\* A function on a bounded range is a sequence.
LEMMA SeqOfParts ==
  ASSUME NEW S, NEW N \in Nat, NEW u \in UNION {[1 .. n -> S] : n \in 0 .. N}
  PROVE  u \in Seq(S)
OBVIOUS

\* Texts are joined from either end.
LEMMA TextsAssociate ==
  ASSUME NEW x \in Seq(Chars), NEW y \in Seq(Chars), NEW z \in Seq(Chars)
  PROVE  (x \o y) \o z = x \o (y \o z)
<1>1. (x \o y) \o z \in Seq(Chars) /\ x \o (y \o z) \in Seq(Chars)
  OBVIOUS
<1>2. Len((x \o y) \o z) = Len(x \o (y \o z))
  OBVIOUS
<1>3. \A i \in 1 .. Len((x \o y) \o z) : ((x \o y) \o z)[i] = (x \o (y \o z))[i]
  OBVIOUS
<1> QED BY <1>1, <1>2, <1>3, SeqEqual

\* A string that stands behind a closed text, and what stands there then.
Kept(x, t) == t \in Seq(Chars) /\ Closed(x \o t) /\ St(x \o t) = St(x)

\* Whatever is spelt of units leaves the scanner as it is.
LEMMA StringIsKept ==
  ASSUME NEW x \in Seq(Chars), Closed(x), ~St(x).skip, NEW t \in Strings
  PROVE  Kept(x, t)
<1>1. PICK u \in UNION {[1 .. n -> Units] : n \in 0 .. MaxUnits} : t = FlattenSeq(u)
  BY DEF Strings
<1>2. u \in Seq(Units) /\ Len(u) \in Nat
  <2>1. u \in Seq(Units)
    BY DollarAssumption, SeqOfParts
  <2> QED BY <2>1
<1>3. u \in Seq(Seq(Chars))
  <2>1. ASSUME NEW w \in Units PROVE w \in Seq(Chars)
    <3>1. "a" \in Chars /\ "bs" \in Chars /\ "$" \in Chars
      BY DEF Chars
    <3>2. w = <<"a">> \/ w = <<"bs", "$">> \/ w = <<"bs", "a">>
      BY DEF Units
    <3>3. <<"a">> \in Seq(Chars) /\ <<"bs", "$">> \in Seq(Chars) /\ <<"bs", "a">> \in Seq(Chars)
      BY <3>1
    <3> QED BY <3>2, <3>3
  <2> QED BY <1>2, <2>1
<1>4. CASE Len(u) = 0
  <2>1. t = <<>>
    BY <1>1, <1>2, <1>4 DEF FlattenSeq
  <2>2. x \o <<>> = x
    OBVIOUS
  <2> QED BY <2>1, <2>2 DEF Kept
<1>5. CASE Len(u) # 0
  <2>1. PICK f : IsFlat(u, f) /\ FlattenSeq(u) = f[Len(u)]
    BY <1>2, <1>5, FlatIs
  <2>2. \A m \in Nat : m + 1 <= Len(u) =>
          /\ m = 0 => f[m + 1] = u[m + 1]
          /\ m # 0 => f[m + 1] = f[m] \o u[m + 1]
    BY <1>3, <2>1, FlatParts
  <2> DEFINE T == {m \in Nat : m \in 1 .. Len(u) => Kept(x, f[m])}
  <2>3. 0 \in T
    OBVIOUS
  <2>4. ASSUME NEW m \in Nat, m \in T PROVE m + 1 \in T
    <3> SUFFICES ASSUME m + 1 \in 1 .. Len(u) PROVE Kept(x, f[m + 1])
      OBVIOUS
    <3>1. u[m + 1] \in Units /\ u[m + 1] \in Seq(Chars)
      BY <1>2, <1>3
    <3>2. m + 1 <= Len(u)
      OBVIOUS
    <3>3. CASE m = 0
      <4>1. f[m + 1] = u[m + 1]
        BY <2>2, <3>2, <3>3
      <4> QED BY <3>1, <4>1, UnitIsKept DEF Kept
    <3>4. CASE m # 0
      <4>1. f[m + 1] = f[m] \o u[m + 1]
        BY <2>2, <3>2, <3>4
      <4>2. m \in 1 .. Len(u)
        BY <3>4
      <4>3. Kept(x, f[m])
        BY <2>4, <4>2
      <4>4. x \o f[m] \in Seq(Chars) /\ f[m] \o u[m + 1] \in Seq(Chars)
        BY <3>1, <4>3 DEF Kept
      <4>5. (x \o f[m]) \o u[m + 1] = x \o f[m + 1]
        <5>1. f[m] \in Seq(Chars)
          BY <4>3 DEF Kept
        <5>2. (x \o f[m]) \o u[m + 1] = x \o (f[m] \o u[m + 1])
          <6> DEFINE a == f[m]
                     b == u[m + 1]
          <6>1. a \in Seq(Chars) /\ b \in Seq(Chars)
            BY <3>1, <5>1
          <6> HIDE DEF a, b
          <6>2. (x \o a) \o b = x \o (a \o b)
            BY <6>1, TextsAssociate
          <6> QED BY <6>2 DEF a, b
        <5> QED BY <4>1, <5>2
      <4>6. Closed(x \o f[m + 1]) /\ St(x \o f[m + 1]) = St(x \o f[m])
        BY <3>1, <4>3, <4>4, <4>5, UnitIsKept DEF Kept
      <4> QED BY <4>1, <4>3, <4>4, <4>6 DEF Kept
    <3> QED BY <3>3, <3>4
  <2> HIDE DEF T
  <2>5. Len(u) \in T
    BY <1>2, <2>3, <2>4, SetInduction
  <2> QED BY <1>1, <1>2, <1>5, <2>1, <2>5 DEF T
<1> QED BY <1>2, <1>4, <1>5

---------------------------------------------------------------------------

\* A text and what it is written as.
Spelt(e) ==
  CASE e.kind = "text"    -> e.tex
    [] e.kind = "inline"  -> <<"$">> \o e.tex \o <<"$">>
    [] e.kind = "display" -> <<"$", "$">> \o e.tex \o <<"$", "$">>

\* Behind a closed text with nothing open.
Rests(x) ==
  /\ x \in Seq(Chars) /\ Closed(x)
  /\ ~St(x).skip /\ St(x).stack = 0

\* The signs as texts.
LEMMA Dollars == "$" \in Chars /\ <<"$">> \in Seq(Chars) /\ <<"$", "$">> \in Seq(Chars)
<1>1. "$" \in Chars
  BY DEF Chars
<1> QED BY <1>1

\* A dollar sign behind a closed text.
LEMMA SignStep ==
  ASSUME NEW x \in Seq(Chars), Closed(x), ~St(x).skip
  PROVE  /\ x \o <<"$">> \in Seq(Chars) /\ Closed(x \o <<"$">>)
         /\ Len(x \o <<"$">>) = Len(x) + 1
         /\ St(x \o <<"$">>) = AtDollar(x \o <<"$">>, St(x), Len(x) + 1)
<1> DEFINE z == x \o <<"$">>
<1>1. z \in Seq(Chars) /\ Len(z) = Len(x) + 1 /\ z[Len(x) + 1] = "$"
  BY Dollars
<1>2. St(z) = AtChar(z, St(x), Len(x) + 1)
  BY Dollars, StOfChar
<1> HIDE DEF z
<1>3. AtChar(z, St(x), Len(x) + 1) = AtDollar(z, St(x), Len(x) + 1)
  BY <1>1 DEF AtChar
<1>4. Closed(z)
  BY <1>1 DEF Closed
<1> QED BY <1>1, <1>2, <1>3, <1>4 DEF z

\* A dollar sign that is skipped.
LEMMA SkippedStep ==
  ASSUME NEW x \in Seq(Chars), Closed(x), St(x).skip
  PROVE  /\ x \o <<"$">> \in Seq(Chars) /\ Closed(x \o <<"$">>)
         /\ St(x \o <<"$">>) = [St(x) EXCEPT !.skip = FALSE]
<1> DEFINE z == x \o <<"$">>
<1>1. z \in Seq(Chars) /\ Len(z) = Len(x) + 1 /\ z[Len(x) + 1] = "$"
  BY Dollars
<1>2. St(z) = AtChar(z, St(x), Len(x) + 1)
  BY Dollars, StOfChar
<1> HIDE DEF z
<1>3. AtChar(z, St(x), Len(x) + 1) = [St(x) EXCEPT !.skip = FALSE]
  BY DEF AtChar
<1>4. Closed(z)
  BY <1>1 DEF Closed
<1> QED BY <1>1, <1>2, <1>3, <1>4 DEF z

\* The formula that ends where it is closed.
LEMMA CutIsFormula ==
  ASSUME NEW x \in Seq(Chars), NEW t \in Seq(Chars)
  PROVE  SubSeq((x \o t) \o <<"$">>, Len(x) + 1, Len(x) + Len(t)) = t
<1> DEFINE z == (x \o t) \o <<"$">>
<1>1. z \in Seq(Chars) /\ Len(z) = Len(x) + Len(t) + 1 /\ Len(x) \in Nat /\ Len(t) \in Nat
  BY Dollars
<1>2. \A i \in 1 .. Len(t) : z[Len(x) + i] = t[i]
  BY Dollars
<1> HIDE DEF z
<1>3. SubSeq(z, Len(x) + 1, Len(x) + Len(t)) \in Seq(Chars)
  BY <1>1
<1>4. Len(SubSeq(z, Len(x) + 1, Len(x) + Len(t))) = Len(t)
  BY <1>1
<1>5. \A i \in 1 .. Len(t) : SubSeq(z, Len(x) + 1, Len(x) + Len(t))[i] = t[i]
  BY <1>1, <1>2
<1>6. SubSeq(z, Len(x) + 1, Len(x) + Len(t)) = t
  BY <1>3, <1>4, <1>5, SeqEqual
<1> QED BY <1>6 DEF z

\* The length of two texts.
LEMMA LenOfTexts ==
  ASSUME NEW x \in Seq(Chars), NEW y \in Seq(Chars)
  PROVE  /\ Len(x) \in Nat /\ Len(x \o y) = Len(x) + Len(y)
         /\ x # <<>> => Len(x) # 0
OBVIOUS

\* Two signs are one after the other.
LEMMA TwoDollars == <<"$">> \o <<"$">> = <<"$", "$">>
<1> DEFINE a == <<"$">> \o <<"$">>
           b == <<"$", "$">>
<1>1. a \in Seq(Chars) /\ b \in Seq(Chars)
  BY Dollars
<1>2. Len(a) = 2 /\ Len(b) = 2 /\ a[1] = "$" /\ a[2] = "$" /\ b[1] = "$" /\ b[2] = "$"
  OBVIOUS
<1> HIDE DEF a, b
<1>3. a = b
  <2>1. \A i \in 1 .. Len(a) : a[i] = b[i]
    BY <1>2
  <2> QED BY <1>1, <1>2, <2>1, SeqEqual
<1> QED BY <1>3 DEF a, b

\* The sign that closes an inline formula.
LEMMA ClosingInline ==
  ASSUME NEW s, NEW sc, NEW k,
         sc.stack = 1, k # sc.j
  PROVE  /\ ~AtDollar(s, sc, k).skip /\ AtDollar(s, sc, k).stack = 0
         /\ AtDollar(s, sc, k).out = Append(sc.out, SubSeq(s, sc.j, k - 1))
<1>1. sc.stack # 0 /\ ~(sc.stack = 1 /\ k = sc.j) /\ (sc.stack = 2) = FALSE
  OBVIOUS
<1> QED BY <1>1 DEF AtDollar

\* The first of the two that close a display; the second is skipped.
LEMMA ClosingDisplay ==
  ASSUME NEW s, NEW sc, NEW k, NEW t,
         sc.stack = 2, SubSeq(s, sc.j, k - 1) = t
  PROVE  AtDollar(s, sc, k) = [skip |-> TRUE, stack |-> 0, j |-> sc.j, out |-> Append(sc.out, t)]
<1>1. sc.stack # 0 /\ ~(sc.stack = 1 /\ k = sc.j) /\ (sc.stack = 2) = TRUE
  OBVIOUS
<1> QED BY <1>1 DEF AtDollar

\* What a part of a paragraph is written as is a text.
LEMMA SpeltIsText ==
  ASSUME NEW e \in Segments, e.tex \in Seq(Chars)
  PROVE  Spelt(e) \in Seq(Chars)
<1> DEFINE t == e.tex
<1>1. t \in Seq(Chars)
  OBVIOUS
<1> HIDE DEF t
<1>2. <<"$">> \o t \o <<"$">> \in Seq(Chars) /\ <<"$", "$">> \o t \o <<"$", "$">> \in Seq(Chars)
  BY <1>1, Dollars
<1>3. e.kind \in {"text", "inline", "display"}
  BY DEF Segments
<1> QED BY <1>1, <1>2, <1>3 DEF Spelt, t

\* What a part of a paragraph adds to the formulas that were found.
Adds(x, e) ==
  /\ Rests(x \o Spelt(e))
  /\ St(x \o Spelt(e)).out =
       IF e.kind = "text" THEN St(x).out ELSE Append(St(x).out, e.tex)

\* A text adds nothing.
LEMMA TextStep ==
  ASSUME NEW x, Rests(x), NEW e \in Segments, e.kind = "text"
  PROVE  Adds(x, e)
<1>1. Spelt(e) = e.tex /\ e.tex \in Strings
  BY DEF Spelt, Segments
<1>2. Kept(x, e.tex)
  BY <1>1, StringIsKept DEF Rests
<1>3. x \o e.tex \in Seq(Chars)
  BY <1>2 DEF Kept, Rests
<1> QED BY <1>1, <1>2, <1>3 DEF Adds, Kept, Rests

\* Dollar, formula, dollar add the formula, unless it is empty.
LEMMA InlineStep ==
  ASSUME NEW x, Rests(x), NEW e \in Segments, e.kind = "inline", e.tex # <<>>
  PROVE  Adds(x, e)
<1> DEFINE t == e.tex
           n == Len(x)
           x1 == x \o <<"$">>
           x2 == x1 \o t
           x3 == x2 \o <<"$">>
<1>1. t \in Strings /\ Spelt(e) = <<"$">> \o t \o <<"$">>
  BY DEF Spelt, Segments
<1>2. x \in Seq(Chars) /\ Closed(x) /\ ~St(x).skip /\ St(x).stack = 0 /\ St(x) \in Readings /\ n \in Nat
  BY StOfText DEF Rests
<1>3. /\ x1 \in Seq(Chars) /\ Closed(x1) /\ Len(x1) = n + 1
      /\ St(x1) = AtDollar(x1, St(x), n + 1)
  BY <1>2, SignStep
<1>4. AtDollar(x1, St(x), n + 1) = [St(x) EXCEPT !.stack = 1, !.j = (n + 1) + 1]
  BY <1>2 DEF AtDollar
<1> HIDE DEF x1
<1>5. /\ St(x1).skip = FALSE /\ St(x1).stack = 1 /\ St(x1).j = (n + 1) + 1
      /\ St(x1).out = St(x).out
  BY <1>2, <1>3, <1>4 DEF Readings
<1>6. Kept(x1, t)
  BY <1>1, <1>3, <1>5, StringIsKept
<1>7. t \in Seq(Chars) /\ x2 \in Seq(Chars) /\ Closed(x2) /\ St(x2) = St(x1)
  BY <1>3, <1>6 DEF Kept
<1>8. Len(t) \in Nat /\ Len(t) # 0 /\ Len(x2) = (n + 1) + Len(t)
  <2>1. t # <<>>
    OBVIOUS
  <2> HIDE DEF t, n
  <2> QED BY <1>3, <1>7, <2>1, LenOfTexts
<1> HIDE DEF x2, t, n
<1>9. x3 \in Seq(Chars) /\ Closed(x3) /\ St(x3) = AtDollar(x3, St(x2), Len(x2) + 1)
  BY <1>5, <1>7, SignStep
<1>10. SubSeq(x3, (n + 1) + 1, (n + 1) + Len(t)) = t
  BY <1>3, <1>7, CutIsFormula DEF x2
<1> HIDE DEF x3
<1>11. Len(x2) + 1 # St(x2).j /\ (Len(x2) + 1) - 1 = (n + 1) + Len(t)
  BY <1>2, <1>5, <1>7, <1>8
<1>12. /\ ~AtDollar(x3, St(x2), Len(x2) + 1).skip
       /\ AtDollar(x3, St(x2), Len(x2) + 1).stack = 0
       /\ AtDollar(x3, St(x2), Len(x2) + 1).out = Append(St(x2).out, t)
  <2>1. St(x2).stack = 1 /\ St(x2).j = (n + 1) + 1
    BY <1>5, <1>7
  <2>2. SubSeq(x3, St(x2).j, (Len(x2) + 1) - 1) = t
    BY <1>10, <1>11, <2>1
  <2>3. Len(x2) + 1 # St(x2).j
    BY <1>11
  <2> DEFINE cut == SubSeq(x3, St(x2).j, (Len(x2) + 1) - 1)
  <2>4. AtDollar(x3, St(x2), Len(x2) + 1).out = Append(St(x2).out, cut)
    BY <2>1, <2>2, <2>3, ClosingInline
  <2>5. AtDollar(x3, St(x2), Len(x2) + 1).out = Append(St(x2).out, t)
    BY <2>2, <2>4, Zenon
  <2> QED BY <2>1, <2>2, <2>3, <2>5, ClosingInline
<1>13. ~St(x3).skip /\ St(x3).stack = 0 /\ St(x3).out = Append(St(x).out, t)
  BY <1>5, <1>7, <1>9, <1>12
<1>14. x3 = x \o (<<"$">> \o t \o <<"$">>)
  <2>1. <<"$">> \o t \in Seq(Chars) /\ x2 = x \o (<<"$">> \o t)
    BY <1>2, <1>7, Dollars, TextsAssociate DEF x1, x2
  <2> QED BY <1>2, <2>1, Dollars, TextsAssociate DEF x3
<1> QED BY <1>1, <1>9, <1>13, <1>14 DEF Adds, Rests, t

\* Two dollars, formula, two dollars add the formula, empty or not.
LEMMA DisplayStep ==
  ASSUME NEW x, Rests(x), NEW e \in Segments, e.kind = "display"
  PROVE  Adds(x, e)
<1> DEFINE t == e.tex
           n == Len(x)
           x0 == x \o <<"$">>
           x1 == x0 \o <<"$">>
           x2 == x1 \o t
           x3 == x2 \o <<"$">>
           x4 == x3 \o <<"$">>
<1>1. t \in Strings /\ Spelt(e) = <<"$", "$">> \o t \o <<"$", "$">>
  BY DEF Spelt, Segments
<1>2. x \in Seq(Chars) /\ Closed(x) /\ ~St(x).skip /\ St(x).stack = 0 /\ St(x) \in Readings /\ n \in Nat
  BY StOfText DEF Rests
<1>3. /\ x0 \in Seq(Chars) /\ Closed(x0) /\ Len(x0) = n + 1
      /\ St(x0) = AtDollar(x0, St(x), n + 1)
  BY <1>2, SignStep
<1>4. AtDollar(x0, St(x), n + 1) = [St(x) EXCEPT !.stack = 1, !.j = (n + 1) + 1]
  BY <1>2 DEF AtDollar
<1> HIDE DEF x0
<1>5. /\ St(x0).skip = FALSE /\ St(x0).stack = 1 /\ St(x0).j = (n + 1) + 1
      /\ St(x0).out = St(x).out /\ St(x0) \in Readings
  BY <1>2, <1>3, <1>4, StOfText DEF Readings
<1>6. /\ x1 \in Seq(Chars) /\ Closed(x1) /\ Len(x1) = (n + 1) + 1
      /\ St(x1) = AtDollar(x1, St(x0), (n + 1) + 1)
  BY <1>3, <1>5, SignStep
<1>7. AtDollar(x1, St(x0), (n + 1) + 1) = [St(x0) EXCEPT !.stack = 2, !.j = ((n + 1) + 1) + 1]
  BY <1>5 DEF AtDollar
<1> HIDE DEF x1
<1>8. /\ St(x1).skip = FALSE /\ St(x1).stack = 2 /\ St(x1).j = ((n + 1) + 1) + 1
      /\ St(x1).out = St(x).out
  BY <1>5, <1>6, <1>7 DEF Readings
<1>9. Kept(x1, t)
  BY <1>1, <1>6, <1>8, StringIsKept
<1>10. t \in Seq(Chars) /\ x2 \in Seq(Chars) /\ Closed(x2) /\ St(x2) = St(x1)
  BY <1>6, <1>9 DEF Kept
<1>11. Len(t) \in Nat /\ Len(x2) = ((n + 1) + 1) + Len(t)
  <2> HIDE DEF t, n
  <2> QED BY <1>6, <1>10, LenOfTexts
<1> HIDE DEF x2, t, n
<1>12. x3 \in Seq(Chars) /\ Closed(x3) /\ St(x3) = AtDollar(x3, St(x2), Len(x2) + 1)
  BY <1>8, <1>10, SignStep
<1>13. SubSeq(x3, ((n + 1) + 1) + 1, ((n + 1) + 1) + Len(t)) = t
  BY <1>6, <1>10, CutIsFormula DEF x2
<1> HIDE DEF x3
<1>14. (Len(x2) + 1) - 1 = ((n + 1) + 1) + Len(t)
  BY <1>2, <1>11
<1>15. AtDollar(x3, St(x2), Len(x2) + 1) =
         [skip |-> TRUE, stack |-> 0, j |-> St(x2).j, out |-> Append(St(x2).out, t)]
  <2>1. St(x2).stack = 2 /\ St(x2).j = ((n + 1) + 1) + 1
    BY <1>8, <1>10
  <2>2. SubSeq(x3, St(x2).j, (Len(x2) + 1) - 1) = t
    BY <1>13, <1>14, <2>1
  <2> QED BY <2>1, <2>2, ClosingDisplay, Zenon
<1>16. St(x3).skip = TRUE /\ St(x3).stack = 0 /\ St(x3).out = Append(St(x).out, t)
  BY <1>8, <1>10, <1>12, <1>15
<1>17. /\ x4 \in Seq(Chars) /\ Closed(x4)
       /\ St(x4) = [St(x3) EXCEPT !.skip = FALSE] /\ St(x3) \in Readings
  BY <1>12, <1>16, SkippedStep, StOfText
<1>18. St(x4).skip = FALSE /\ St(x4).stack = 0 /\ St(x4).out = Append(St(x).out, t)
  BY <1>16, <1>17 DEF Readings
<1>19. x4 = x \o (<<"$", "$">> \o t \o <<"$", "$">>)
  <2>1. <<"$">> \o <<"$">> = <<"$", "$">>
    BY TwoDollars
  <2>2. x1 = x \o <<"$", "$">>
    BY <1>2, <2>1, Dollars, TextsAssociate DEF x0, x1
  <2>3. <<"$", "$">> \o t \in Seq(Chars) /\ x2 = x \o (<<"$", "$">> \o t)
    BY <1>2, <1>10, <2>2, Dollars, TextsAssociate DEF x2
  <2>4. x4 = x2 \o <<"$", "$">>
    BY <1>10, <2>1, Dollars, TextsAssociate DEF x3, x4
  <2> QED BY <1>2, <2>3, <2>4, Dollars, TextsAssociate
<1> HIDE DEF x4
<1> QED BY <1>1, <1>17, <1>18, <1>19 DEF Adds, Rests, t

---------------------------------------------------------------------------

\* The formulas of the first parts of a paragraph.
FoundIn(p) == CHOOSE f : f = [k \in 0 .. Len(p) |->
              IF k = 0 THEN <<>>
              ELSE IF p[k].kind = "text" THEN f[k - 1] ELSE Append(f[k - 1], p[k].tex)]

\* The recursion of Formulas is well founded.
LEMMA FoundExists ==
  ASSUME NEW p, Len(p) \in Nat
  PROVE  \E f : f = [k \in 0 .. Len(p) |->
              IF k = 0 THEN <<>>
              ELSE IF p[k].kind = "text" THEN f[k - 1] ELSE Append(f[k - 1], p[k].tex)]
<1> DEFINE At(f, k) == IF k = 0 THEN <<>>
                       ELSE IF p[k].kind = "text" THEN f[k - 1] ELSE Append(f[k - 1], p[k].tex)
           Part(m, f) == f = [k \in 0 .. m |-> At(f, k)]
           S == {m \in Nat : \E f : Part(m, f)}
<1>1. 0 \in S
  <2> DEFINE f == [k \in 0 .. 0 |-> <<>>]
  <2>1. Part(0, f)
    OBVIOUS
  <2> HIDE DEF f
  <2> QED BY <2>1
<1>2. ASSUME NEW m \in Nat, m \in S PROVE m + 1 \in S
  <2>1. PICK g : Part(m, g)
    BY <1>2
  <2> DEFINE f == [k \in 0 .. m + 1 |-> IF k = m + 1 THEN At(g, m + 1) ELSE g[k]]
  <2>2. \A k \in 0 .. m : f[k] = g[k]
    OBVIOUS
  <2>3. \A k \in 0 .. m + 1 : f[k] = At(f, k)
    <3> TAKE k \in 0 .. m + 1
    <3>1. CASE k \in 0 .. m
      <4>1. k = 0 \/ k - 1 \in 0 .. m
        BY <3>1
      <4>2. g[k] = At(g, k)
        BY <2>1, <3>1
      <4> QED BY <2>2, <3>1, <4>1, <4>2
    <3>2. CASE k = m + 1
      <4>1. f[k] = At(g, k) /\ m \in 0 .. m /\ k - 1 = m
        BY <3>2
      <4> HIDE DEF f
      <4> QED BY <2>2, <3>2, <4>1
    <3> QED BY <3>1, <3>2
  <2>4. f = [k \in 0 .. m + 1 |-> f[k]]
    OBVIOUS
  <2> HIDE DEF f, At
  <2>5. Part(m + 1, f)
    BY <2>3, <2>4, Zenon
  <2> HIDE DEF Part
  <2> QED BY <2>5
<1> HIDE DEF S
<1>3. Len(p) \in S
  BY <1>1, <1>2, SetInduction
<1> QED BY <1>3 DEF S

\* The formulas of a paragraph, part by part.
LEMMA FoundSteps ==
  ASSUME NEW p, Len(p) \in Nat
  PROVE  /\ Formulas(p) = FoundIn(p)[Len(p)] /\ FoundIn(p)[0] = <<>>
         /\ \A m \in Nat : m + 1 <= Len(p) =>
              FoundIn(p)[m + 1] = IF p[m + 1].kind = "text" THEN FoundIn(p)[m]
                                ELSE Append(FoundIn(p)[m], p[m + 1].tex)
<1> DEFINE f == FoundIn(p)
<1>1. f = [k \in 0 .. Len(p) |->
             IF k = 0 THEN <<>>
             ELSE IF p[k].kind = "text" THEN f[k - 1] ELSE Append(f[k - 1], p[k].tex)]
  BY FoundExists DEF FoundIn
<1>2. Formulas(p) = f[Len(p)]
  BY DEF Formulas, FoundIn
<1> HIDE DEF f
<1>3. f[0] = <<>>
  BY <1>1
<1>4. ASSUME NEW m \in Nat, m + 1 <= Len(p)
      PROVE  f[m + 1] = IF p[m + 1].kind = "text" THEN f[m] ELSE Append(f[m], p[m + 1].tex)
  <2>1. m + 1 \in 0 .. Len(p) /\ m + 1 # 0 /\ (m + 1) - 1 = m
    BY <1>4
  <2>2. f[m + 1] = IF m + 1 = 0 THEN <<>>
                   ELSE IF p[m + 1].kind = "text" THEN f[(m + 1) - 1]
                        ELSE Append(f[(m + 1) - 1], p[m + 1].tex)
    BY <1>1, <2>1, Zenon
  <2> QED BY <2>1, <2>2, Zenon
<1> QED BY <1>2, <1>3, <1>4 DEF f

\* Nothing is open at the start.
LEMMA EmptyText ==
  Rests(<<>>) /\ St(<<>>).out = <<>> /\ find_dollar_tex(<<>>) = <<>>
<1> DEFINE s == <<>>
<1>1. s \in Seq(Chars) /\ Len(s) = 0 /\ Closed(s)
  BY DEF Closed
<1> HIDE DEF s
<1>2. ScanOf(s)[0] = Scanner /\ find_dollar_tex(s) = St(s).out
  BY <1>1, ScanSteps
<1>3. St(s) = Scanner
  BY <1>1, <1>2 DEF St
<1>4. Rests(s) /\ St(s).out = <<>> /\ find_dollar_tex(s) = <<>>
  BY <1>1, <1>2, <1>3 DEF Rests, Scanner
<1> QED BY <1>4 DEF s

\* A string is a text.
LEMMA StringsAreTexts ==
  ASSUME NEW t \in Strings
  PROVE  t \in Seq(Chars)
<1>1. <<>> \in Seq(Chars) /\ Closed(<<>>) /\ ~St(<<>>).skip
  BY EmptyText DEF Rests
<1> QED BY <1>1, StringIsKept DEF Kept

\* Every part of a paragraph adds its formula and leaves nothing open.
LEMMA PartStep ==
  ASSUME NEW x, Rests(x), NEW e \in Segments, e.kind = "inline" => e.tex # <<>>
  PROVE  Adds(x, e)
<1>1. e.kind \in {"text", "inline", "display"}
  BY DEF Segments
<1> QED BY <1>1, TextStep, InlineStep, DisplayStep

\* By induction over the parts of a paragraph.
LEMMA ParagraphScan ==
  ASSUME NEW p \in Paragraphs
  PROVE  find_dollar_tex(Source(p)) = Formulas(p)
<1> DEFINE ss == [k \in DOMAIN p |-> Spelt(p[k])]
<1>1. /\ p \in Seq(Segments) /\ Len(p) \in Nat /\ DOMAIN p = 1 .. Len(p)
      /\ \A k \in 1 .. Len(p) : p[k] \in Segments /\ (p[k].kind = "inline" => p[k].tex # <<>>)
  <2>1. p \in UNION {[1 .. n -> Segments] : n \in 0 .. MaxSegments}
    BY DEF Paragraphs
  <2>2. p \in Seq(Segments)
    BY <2>1, DollarAssumption, SeqOfParts
  <2> QED BY <2>2 DEF Paragraphs
<1>2. Source(p) = FlattenSeq(ss)
  BY DEF Source, Spelt
<1>3. \A k \in 1 .. Len(p) : Spelt(p[k]) \in Seq(Chars)
  <2> TAKE k \in 1 .. Len(p)
  <2>1. p[k] \in Segments /\ p[k].tex \in Strings
    BY <1>1 DEF Segments
  <2> QED BY <2>1, StringsAreTexts, SpeltIsText
<1>4. /\ ss \in Seq(Seq(Chars)) /\ Len(ss) = Len(p)
      /\ \A k \in 1 .. Len(p) : ss[k] = Spelt(p[k])
  BY <1>1, <1>3
<1> HIDE DEF ss
<1>5. Rests(<<>>) /\ St(<<>>).out = <<>> /\ find_dollar_tex(<<>>) = <<>>
  BY EmptyText
<1>6. CASE Len(p) = 0
  <2>1. FlattenSeq(ss) = <<>>
    BY <1>4, <1>6 DEF FlattenSeq
  <2>2. Formulas(p) = <<>>
    BY <1>1, <1>6, FoundSteps
  <2> QED BY <1>2, <1>5, <2>1, <2>2
<1>7. CASE Len(p) # 0
  <2>1. PICK f : IsFlat(ss, f) /\ FlattenSeq(ss) = f[Len(p)]
    BY <1>1, <1>4, <1>7, FlatIs
  <2>2. \A m \in Nat : m + 1 <= Len(p) =>
          /\ m = 0 => f[m + 1] = ss[m + 1]
          /\ m # 0 => f[m + 1] = f[m] \o ss[m + 1]
    BY <1>4, <2>1, FlatParts
  <2> DEFINE x(m) == IF m = 0 THEN <<>> ELSE f[m]
             T == {m \in Nat : m <= Len(p) => Rests(x(m)) /\ St(x(m)).out = FoundIn(p)[m]}
  <2>3. 0 \in T
    BY <1>1, <1>5, FoundSteps
  <2>4. ASSUME NEW m \in Nat, m \in T PROVE m + 1 \in T
    <3> SUFFICES ASSUME m + 1 <= Len(p)
                 PROVE  Rests(x(m + 1)) /\ St(x(m + 1)).out = FoundIn(p)[m + 1]
      OBVIOUS
    <3>1. m + 1 \in 1 .. Len(p) /\ m <= Len(p) /\ m + 1 # 0
      BY <1>1
    <3>2. Rests(x(m)) /\ St(x(m)).out = FoundIn(p)[m]
      BY <2>4, <3>1
    <3>3. ss[m + 1] = Spelt(p[m + 1]) /\ ss[m + 1] \in Seq(Chars)
      BY <1>3, <1>4, <3>1
    <3>4. x(m + 1) = x(m) \o Spelt(p[m + 1])
      <4>1. CASE m = 0
        <5>1. <<>> \o ss[m + 1] = ss[m + 1]
          BY <3>3
        <5> QED BY <2>2, <3>1, <3>3, <4>1, <5>1
      <4>2. CASE m # 0
        BY <2>2, <3>1, <3>3, <4>2
      <4> QED BY <4>1, <4>2
    <3> HIDE DEF x
    <3>5. Adds(x(m), p[m + 1])
      BY <1>1, <3>1, <3>2, PartStep
    <3>6. FoundIn(p)[m + 1] = IF p[m + 1].kind = "text" THEN FoundIn(p)[m]
                            ELSE Append(FoundIn(p)[m], p[m + 1].tex)
      BY <1>1, FoundSteps
    <3> QED BY <3>2, <3>4, <3>5, <3>6 DEF Adds
  <2> HIDE DEF T
  <2>5. Len(p) \in T
    BY <1>1, <2>3, <2>4, SetInduction
  <2>6. Rests(f[Len(p)]) /\ St(f[Len(p)]).out = FoundIn(p)[Len(p)]
    BY <1>1, <1>7, <2>5 DEF T
  <2>7. find_dollar_tex(f[Len(p)]) = St(f[Len(p)]).out
    BY <2>6, ScanSteps DEF Rests
  <2> QED BY <1>1, <1>2, <2>1, <2>6, <2>7, FoundSteps
<1> QED BY <1>1, <1>6, <1>7

\* However formulas, displays and texts follow one another in a paragraph, of any
\* number of parts of any length, what find_dollar_tex() takes from it is its
\* formulas, each once and in order.
THEOREM FormulasAreFound == Spec => []DollarFindsFormulas
<1>1. ScanIsExact
  BY ParagraphScan DEF ScanIsExact
<1>2. DollarFindsFormulas
  BY <1>1 DEF DollarFindsFormulas
<1> QED BY <1>2, PTL

================================================================================
