----------------------------- MODULE Catalogue ------------------------------
(***************************************************************************)
(* The listings of the marketplace as their sellers, their visitors and    *)
(* the moderation see them: posting, editing, selling, removing,           *)
(* enquiries, views, pictures, bookmarks, the daily expiry, the hourly     *)
(* sweep for suspicious ones, and the command that stocks the market for a *)
(* demonstration.  (Of a purchase there is here what it does to the status *)
(* of its listing; the money and the stock are in Marketplace.)            *)
(*                                                                         *)
(* No listing is locked: a request keeps the row it has read, an edit      *)
(* saves every column of it and a purchase saves its status.               *)
(***************************************************************************)
EXTENDS Naturals, FiniteSets

CONSTANTS
    Sellers,
    Posts,        \* the requests to list an item, each also the listing it makes
    Poster,       \* Poster[l]: the seller of listing l
    Spam,         \* the posts whose title has one of the suspicious words
    Amends,       \* the edits by sellers
    Amended,      \* Amended[a]: the listing it is about
    Buys, Bought,           \* the purchases, and the listing of each
    Enquiries, About,       \* the enquiries, and the listing of each
    Looks, Watched,         \* the visits of a listing's page, and the listing
    Pictures, Pictured,     \* the pictures, and the listing of each
    Primary,      \* the pictures sent with is_primary
    Stocked, Supplied,      \* the listings, and the pictures, of the command
    Toggles, Marked,        \* the requests to save or unsave: <<who, listing>>
    MaxActive,    \* how many active listings a seller may have: 10
    MaxPictures,  \* and how many pictures a listing: 4
    Often,        \* more than so many active listings in an hour are suspicious: 5
    Visitors      \* the sets of requests that come together in one behaviour

Requests == Posts \cup Amends \cup Buys \cup Enquiries \cup Looks \cup Pictures \cup Toggles

ASSUME CatalogueAssumption ==
    /\ Poster \in [Posts -> Sellers] /\ Spam \subseteq Posts
    /\ Amended \in [Amends -> Posts] /\ About \in [Enquiries -> Posts]
    /\ Bought \in [Buys -> Posts]
    /\ Watched \in [Looks -> Posts] /\ Pictured \in [Pictures -> Posts]
    /\ Stocked \subseteq Posts /\ \A i \in Supplied : i \in Pictures /\ Pictured[i] \in Stocked
    /\ \A t \in Toggles : Marked[t][2] \in Posts
    /\ Primary \subseteq Pictures /\ Visitors \subseteq SUBSET Requests
    /\ MaxActive \in Nat /\ MaxPictures \in Nat /\ Often \in Nat

\* Every request is of one view.
ASSUME ViewsAssumption ==
    /\ Posts \cap (Amends \cup Buys \cup Enquiries \cup Looks \cup Pictures \cup Toggles) = {}
    /\ Amends \cap (Buys \cup Enquiries \cup Looks \cup Pictures \cup Toggles) = {}
    /\ Buys \cap (Enquiries \cup Looks \cup Pictures \cup Toggles) = {}
    /\ Enquiries \cap (Looks \cup Pictures \cup Toggles) = {}
    /\ Looks \cap (Pictures \cup Toggles) = {} /\ Pictures \cap Toggles = {}

\* The command has few pictures of a listing, and one cover (two, and the first).
ASSUME SuppliesAssumption ==
    /\ IsFiniteSet(Supplied)
    /\ \A l \in Posts : Cardinality({i \in Supplied : Pictured[i] = l}) <= MaxPictures
    /\ \A i, k \in Primary \cap Supplied : Pictured[i] = Pictured[k] => i = k

VARIABLES
    row,        \* row[l]: the columns of the listing, status "none" before it is made
    age,        \* age[l]: "hour", "month" or "older"
    step,       \* step[r]: progress of a request
    held,       \* held[a]: the row an edit has read; seen[q]: the count an enquiry has
    seen,
    asked,      \* the Enquiry rows
    album,      \* the ListingImage rows, and those of them that are primary
    covers,
    marks,      \* the SavedListing rows, each named after the request that made it
    found,      \* found[t]: the row a request has found
    crowded,    \* the sellers whose listings came to life two at a time, by an edit,
                \* by a purchase that had seen them alive, or by the command
    miscounted, \* the listings with a count that was invented or written from an old one
    jostled,    \* the listings two pictures were added to at once, or by the command
    muddled     \* the bookmarks that two requests were about at once

catVars == <<row, age, step, held, seen, asked, album, covers, marks, found,
            crowded, miscounted, jostled, muddled>>

Shown == {"active", "paused", "sold", "removed"}
Blank == [status |-> "none", flagged |-> FALSE, enquiries |-> 0, views |-> 0]
Fresh == [Blank EXCEPT !.status = "active"]

CatInit ==
    /\ row = [l \in Posts |-> Blank]
    /\ age = [l \in Posts |-> "hour"]
    /\ \E come \in Visitors :
         step = [r \in Requests |-> IF r \in come THEN "due" ELSE "never"]
    /\ held = [a \in Amends |-> Blank] /\ seen = [q \in Enquiries |-> 0]
    /\ asked = {} /\ album = {} /\ covers = {}
    /\ marks = {} /\ found = [t \in Toggles |-> t]
    /\ crowded = {} /\ miscounted = {} /\ jostled = {} /\ muddled = {}

Listed(l)   == row[l].status # "none"
ActiveOf(s) == {l \in Posts : Poster[l] = s /\ row[l].status = "active"}
Editing(l)  == \E a \in Amends : Amended[a] = l /\ step[a] = "read"

Goes(r, state) == step' = [step EXCEPT ![r] = state]

\* Column c of a listing is written, under the hands of an edit perhaps.
Miscount(l, bad) == miscounted' = IF bad THEN miscounted \cup {l} ELSE miscounted

countVars   == <<held, seen, asked, miscounted>>
pictureVars == <<album, covers, jostled>>
markVars    == <<marks, found, muddled>>

-----------------------------------------------------------------------------
(* ListingCreateView *)

\* Mutant of MayPost: the limit is one too high.
MayPostOneMore(s) == Cardinality(ActiveOf(s)) <= MaxActive

MayPost(s) == Cardinality(ActiveOf(s)) < MaxActive

PostCheck(l) ==
    /\ step[l] = "due" /\ l \notin Stocked
    /\ Goes(l, IF MayPost(Poster[l]) THEN "checked" ELSE "refused")
    /\ crowded' = IF \E o \in Posts \ {l} : Poster[o] = Poster[l] /\ step[o] = "checked"
                  THEN crowded \cup {Poster[l]} ELSE crowded
    /\ UNCHANGED <<row, age, countVars, pictureVars, markVars>>

PostSave(l) ==
    /\ step[l] = "checked"
    /\ row' = [row EXCEPT ![l] = Fresh]
    /\ Goes(l, "done")
    /\ UNCHANGED <<age, countVars, pictureVars, crowded, markVars>>

-----------------------------------------------------------------------------
(* ListingUpdateView *)

AmendRead(a) ==
    /\ step[a] = "due" /\ Listed(Amended[a])
    /\ held' = [held EXCEPT ![a] = row[Amended[a]]]
    /\ Goes(a, "read")
    /\ UNCHANGED <<row, age, seen, asked, miscounted, pictureVars, crowded, markVars>>

\* Mutant of Rewritten: an edited listing counts as looked over.
RewrittenClean(a, status) == [held[a] EXCEPT !.status = status, !.flagged = FALSE]

\* serializer.save(): all the columns that were read, and the ones that are edited,
\* the status among them if the seller likes.
Rewritten(a, status) == [held[a] EXCEPT !.status = status]

AmendSave(a, status) ==
    /\ step[a] = "read"
    /\ LET l == Amended[a] IN
         /\ row' = [row EXCEPT ![l] = Rewritten(a, status)]
         /\ crowded' = IF status = "active" /\ row[l].status # "active"
                       THEN crowded \cup {Poster[l]} ELSE crowded
    /\ Goes(a, "done")
    /\ UNCHANGED <<age, countVars, pictureVars, markVars>>

-----------------------------------------------------------------------------
(* ListingPurchaseView, as the status of the listing sees it *)

\* An active listing is read, before the transaction and without a lock.
BuyRead(b) ==
    /\ step[b] = "due" /\ Listed(Bought[b])
    /\ Goes(b, IF row[Bought[b]].status = "active" THEN "read" ELSE "refused")
    /\ UNCHANGED <<row, age, countVars, pictureVars, crowded, markVars>>

\* The quantity, the wallets, or the balance once the wallets are locked.
BuyRefuse(b) ==
    /\ step[b] = "read"
    /\ Goes(b, "refused")
    /\ UNCHANGED <<row, age, countVars, pictureVars, crowded, markVars>>

\* What is left of the stock decides: the status is written as it was read, or "sold".
BuySave(b, status) ==
    /\ step[b] = "read"
    /\ LET l == Bought[b] IN
         /\ row' = [row EXCEPT ![l].status = status]
         /\ crowded' = IF status = "active" /\ row[l].status # "active"
                       THEN crowded \cup {Poster[l]} ELSE crowded
    /\ Goes(b, "done")
    /\ UNCHANGED <<age, countVars, pictureVars, markVars>>

-----------------------------------------------------------------------------
(* ListingDeleteView and the admin *)

\* By the seller, or by staff in the admin: only the status is written.
TakeDown(l) ==
    /\ row[l].status \in Shown \ {"removed"}
    /\ row' = [row EXCEPT ![l].status = "removed"]
    /\ UNCHANGED <<age, step, countVars, pictureVars, crowded, markVars>>

-----------------------------------------------------------------------------
(* EnquiryCreateView, EnquiryRespondView and increment_listing_views *)

\* The listing is read with its count, and must be active.
AskCheck(q) ==
    /\ step[q] = "due" /\ Listed(About[q])
    /\ IF row[About[q]].status = "active"
         THEN Goes(q, "checked") /\ seen' = [seen EXCEPT ![q] = row[About[q]].enquiries]
         ELSE Goes(q, "refused") /\ UNCHANGED seen
    /\ UNCHANGED <<row, age, held, asked, miscounted, pictureVars, crowded, markVars>>

AskSave(q) ==
    /\ step[q] = "checked"
    /\ asked' = asked \cup {q}
    /\ Goes(q, "saved")
    /\ UNCHANGED <<row, age, held, seen, miscounted, pictureVars, crowded, markVars>>

\* Mutant of NextCount: the count is of the enquiries before this one.
NextCountBefore(q) == seen[q]

\* The count that was read, and one.
NextCount(q) == seen[q] + 1

AskCount(q) ==
    /\ step[q] = "saved"
    /\ LET l == About[q]
           others == {o \in Enquiries \ {q} : About[o] = l /\ step[o] \in {"checked", "saved"}}
       IN /\ row' = [row EXCEPT ![l].enquiries = NextCount(q)]
          /\ Miscount(l, others # {} \/ Editing(l))
    /\ Goes(q, "done")
    /\ UNCHANGED <<age, held, seen, asked, pictureVars, crowded, markVars>>

\* The process dies between the enquiry and the count, or before either.
AskDie(q) ==
    /\ step[q] \in {"checked", "saved"}
    /\ Miscount(About[q], step[q] = "saved")
    /\ Goes(q, "dead")
    /\ UNCHANGED <<row, age, held, seen, asked, pictureVars, crowded, markVars>>

\* Nobody reads the status of an enquiry: it comes after the count or before.
Respond(q) ==
    /\ q \in asked /\ step[q] = "done"
    /\ Goes(q, "responded")
    /\ UNCHANGED <<row, age, countVars, pictureVars, crowded, markVars>>

\* An atomic UPDATE, by a task.
Look(v) ==
    /\ step[v] = "due" /\ row[Watched[v]].status \in {"active", "paused"}
    /\ row' = [row EXCEPT ![Watched[v]].views = @ + 1]
    /\ Miscount(Watched[v], Editing(Watched[v]))
    /\ Goes(v, "done")
    /\ UNCHANGED <<age, held, seen, asked, pictureVars, crowded, markVars>>

-----------------------------------------------------------------------------
(* ListingImageAddView *)

PicturesOf(l) == {i \in album : Pictured[i] = l}
Adding(l, i)  == \E o \in Pictures \ {i} : Pictured[o] = l /\ step[o] \in {"checked", "cleared"}

AddCheck(i) ==
    /\ step[i] = "due" /\ i \notin Supplied /\ Listed(Pictured[i])
    /\ LET l == Pictured[i]
           room == Cardinality(PicturesOf(l)) < MaxPictures
       IN /\ Goes(i, IF ~room THEN "refused" ELSE IF i \in Primary THEN "checked" ELSE "cleared")
          /\ jostled' = IF room /\ Adding(l, i) THEN jostled \cup {l} ELSE jostled
    /\ UNCHANGED <<row, age, countVars, album, covers, crowded, markVars>>

\* A new primary picture takes over from the earlier ones.
Demoted(l) == PicturesOf(l)

AddClear(i) ==
    /\ step[i] = "checked"
    /\ covers' = covers \ Demoted(Pictured[i])
    /\ Goes(i, "cleared")
    /\ UNCHANGED <<row, age, countVars, album, jostled, crowded, markVars>>

AddSave(i) ==
    /\ step[i] = "cleared"
    /\ album' = album \cup {i}
    /\ covers' = covers \cup ({i} \cap Primary)
    /\ Goes(i, "done")
    /\ UNCHANGED <<row, age, countVars, jostled, crowded, markVars>>

DeletePicture(i) ==
    /\ i \in album
    /\ album' = album \ {i} /\ covers' = covers \ {i}
    /\ UNCHANGED <<row, age, step, countVars, jostled, crowded, markVars>>

-----------------------------------------------------------------------------
(* expire_old_listings, flag_suspicious_listings and the admin *)

GrowOlder(l) ==
    /\ Listed(l) /\ age[l] # "older"
    /\ age' = [age EXCEPT ![l] = IF @ = "hour" THEN "month" ELSE "older"]
    /\ UNCHANGED <<row, step, countVars, pictureVars, crowded, markVars>>

\* One UPDATE of all the listings that are due.
PauseOld ==
    /\ row' = [l \in Posts |-> IF row[l].status = "active" /\ age[l] = "older"
                               THEN [row[l] EXCEPT !.status = "paused"] ELSE row[l]]
    /\ UNCHANGED <<age, step, countVars, pictureVars, crowded, markVars>>

\* Who has listed too much within an hour has all of that hour flagged.
SweepOften(s) ==
    /\ Cardinality({l \in ActiveOf(s) : age[l] = "hour"}) > Often
    /\ row' = [l \in Posts |-> IF Poster[l] = s /\ Listed(l) /\ age[l] = "hour"
                               THEN [row[l] EXCEPT !.flagged = TRUE] ELSE row[l]]
    /\ UNCHANGED <<age, step, countVars, pictureVars, crowded, markVars>>

SweepSpam(l) ==
    /\ l \in Spam /\ row[l].status = "active" /\ ~row[l].flagged
    /\ row' = [row EXCEPT ![l].flagged = TRUE]
    /\ UNCHANGED <<age, step, countVars, pictureVars, crowded, markVars>>

Unflag(l) ==
    /\ row[l].flagged
    /\ row' = [row EXCEPT ![l].flagged = FALSE]
    /\ UNCHANGED <<age, step, countVars, pictureVars, crowded, markVars>>

-----------------------------------------------------------------------------
(* SaveListingView *)

RowsFor(t) == {m \in marks : Marked[m] = Marked[t]}

\* get_or_create: there is at most one row, and it is made if there is none.
MarkFind(t) ==
    /\ step[t] = "due" /\ Listed(Marked[t][2])
    /\ IF RowsFor(t) = {}
         THEN marks' = marks \cup {t} /\ Goes(t, "done") /\ UNCHANGED found
         ELSE /\ \E m \in RowsFor(t) : found' = [found EXCEPT ![t] = m]
              /\ Goes(t, "found") /\ UNCHANGED marks
    /\ muddled' = IF \E o \in Toggles : Marked[o] = Marked[t] /\ step[o] = "found"
                  THEN muddled \cup {Marked[t]} ELSE muddled
    /\ UNCHANGED <<row, age, countVars, pictureVars, crowded>>

\* The row that was found, if it is still there.
MarkDelete(t) ==
    /\ step[t] = "found"
    /\ marks' = marks \ {found[t]}
    /\ Goes(t, "done")
    /\ UNCHANGED <<row, age, countVars, pictureVars, crowded, found, muddled>>

-----------------------------------------------------------------------------
(* seed_jobs_and_listings: no transaction, and none of the rules of the views *)

\* The counts are drawn at random; 1 stands for them.
StockListing(l) ==
    /\ step[l] = "due" /\ l \in Stocked
    /\ row' = [row EXCEPT ![l] = [Fresh EXCEPT !.enquiries = 1, !.views = 1]]
    /\ crowded' = crowded \cup {Poster[l]} /\ miscounted' = miscounted \cup {l}
    /\ Goes(l, "stocked")
    /\ UNCHANGED <<age, held, seen, asked, pictureVars, markVars>>

\* The day of the listing is set afterwards, up to 45 days back.
StockDate(l, when) ==
    /\ step[l] = "stocked"
    /\ age' = [age EXCEPT ![l] = when]
    /\ Goes(l, "dated")
    /\ UNCHANGED <<row, countVars, pictureVars, crowded, markVars>>

\* The cover comes first.  Pictures of the seller's do not matter to the command.
StockPicture(i) ==
    /\ step[i] = "due" /\ i \in Supplied /\ step[Pictured[i]] = "dated"
    /\ i \in Primary \/ \A o \in Primary \cap Supplied : Pictured[o] = Pictured[i] => step[o] # "due"
    /\ album' = album \cup {i} /\ covers' = covers \cup ({i} \cap Primary)
    /\ jostled' = IF Adding(Pictured[i], i) \/ ~(PicturesOf(Pictured[i]) \subseteq Supplied)
                  THEN jostled \cup {Pictured[i]} ELSE jostled
    /\ Goes(i, "done")
    /\ UNCHANGED <<row, age, countVars, crowded, markVars>>

-----------------------------------------------------------------------------
CatNext ==
    \/ \E l \in Posts : \/ PostCheck(l) \/ PostSave(l) \/ TakeDown(l)
                        \/ GrowOlder(l) \/ SweepSpam(l) \/ Unflag(l)
                        \/ StockListing(l)
                        \/ \E when \in {"hour", "month", "older"} : StockDate(l, when)
    \/ \E a \in Amends : AmendRead(a) \/ \E status \in Shown : AmendSave(a, status)
    \/ \E b \in Buys : \/ BuyRead(b) \/ BuyRefuse(b)
                       \/ \E status \in {"active", "sold"} : BuySave(b, status)
    \/ \E q \in Enquiries : AskCheck(q) \/ AskSave(q) \/ AskCount(q) \/ AskDie(q) \/ Respond(q)
    \/ \E v \in Looks : Look(v)
    \/ \E i \in Pictures : AddCheck(i) \/ AddClear(i) \/ AddSave(i) \/ DeletePicture(i)
                           \/ StockPicture(i)
    \/ \E t \in Toggles : MarkFind(t) \/ MarkDelete(t)
    \/ PauseOld
    \/ \E s \in Sellers : SweepOften(s)

CatSpec == CatInit /\ [][CatNext]_catVars

-----------------------------------------------------------------------------
CatalogueTypeOK ==
    /\ row \in [Posts -> [status : Shown \cup {"none"}, flagged : BOOLEAN,
                          enquiries : Nat, views : Nat]]
    /\ marks \subseteq Toggles /\ asked \subseteq Enquiries /\ covers \subseteq album /\ album \subseteq Pictures

\* A seller has at most MaxActive active listings, unless two were posted at once, an
\* edit brought one back to life, a purchase wrote back that one was active which had
\* ceased to be since, or the command has stocked the market.
ActiveWithinLimit ==
    \A s \in Sellers : Cardinality(ActiveOf(s)) <= MaxActive \/ s \in crowded

\* The counters of a listing are the enquiries and the visits there have been, unless
\* one was counted while another, or an edit, had the old count in hand, or a process
\* died in between.
CountersAreExact ==
    \A l \in Posts \ miscounted :
        /\ row[l].enquiries = Cardinality({q \in asked : About[q] = l /\ step[q] # "saved"})
        /\ row[l].views = Cardinality({v \in Looks : Watched[v] = l /\ step[v] = "done"})

\* A listing has one cover and at most MaxPictures pictures, unless two were added
\* at once or the command came after the seller.
OneCover ==
    \A l \in Posts \ jostled :
        /\ Cardinality(PicturesOf(l) \cap covers) <= 1
        /\ Cardinality(PicturesOf(l)) <= MaxPictures

\* A bookmark is on after an odd number of requests and off after an even one, unless
\* two of them were under way at once; and there are never two rows of it.
BookmarksToggle ==
    \A t \in Toggles :
        /\ Cardinality(RowsFor(t)) <= 1
        /\ Marked[t] \in muddled \/
             (RowsFor(t) # {}) =
                 (Cardinality({o \in Toggles : Marked[o] = Marked[t] /\ step[o] = "done"}) % 2 = 1)

\* What a listing says about itself agrees with the rows that belong to it.
ListingsAddUp == CountersAreExact /\ OneCover /\ BookmarksToggle

\* A flag is taken off a listing by staff, or by an edit that had read the listing
\* before it was flagged; by nothing else.
FlagStays ==
    [][\A l \in Posts :
         row[l].flagged /\ ~row'[l].flagged =>
             \/ Unflag(l)
             \/ \E a \in Amends : /\ Amended[a] = l /\ ~held[a].flagged
                                  /\ step[a] = "read" /\ step'[a] = "done"]_catVars
=============================================================================
