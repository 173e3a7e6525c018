------------------------------- MODULE Timeline -------------------------------
(***************************************************************************)
(* The pages of a ticket's timeline (glpi/timeline.go, apiGetTimeline).    *)
(* GLPI keeps follow-ups, solutions, validations and history apart; a page *)
(* asks for each in turn and merges them by date.  Meanwhile GLPI adds and *)
(* removes events.  One reader goes from page to page; reading changes     *)
(* nothing at GLPI, so one stands for all.                                 *)
(***************************************************************************)
EXTENDS Integers, FiniteSets

CONSTANTS
  Event,        \* records [kind, id, date, private], private a Boolean
  Present,      \* those the ticket starts with
  Unsupported,  \* the kinds this GLPI does not expose
  Silent,       \* the kinds whose answer may come without a Content-Range
  Sizes,        \* values of per_page that are asked for
  PageSize,     \* defaultTimelinePageSize
  MaxPageSize,  \* maxTimelinePageSize
  MaxFetch,     \* maxTimelineFetchCount
  RemoveCap     \* bound: events removed while the reader turns pages

\* ticketTimelineSources, the first of them required.
Source == <<"followup", "solution", "validation", "history">>
Kind   == {Source[i] : i \in 1..4}

\* The kinds in the order of their names, which settles a tie.
Spelling == [followup |-> 1, history |-> 2, solution |-> 3, validation |-> 4]

\* The order of the merged events.
Newer(e, f) ==
  \/ e.date > f.date
  \/ e.date = f.date /\ e.id > f.id
  \/ e.date = f.date /\ e.id = f.id /\ Spelling[e.kind] < Spelling[f.kind]

\* GLPI numbers the events of a kind as they arrive, and answers in that order.
ASSUME TimelineAssumption ==
  /\ Event \subseteq [kind : Kind, id : Nat \ {0}, date : Nat, private : BOOLEAN]
  /\ IsFiniteSet(Event)
  /\ \A e, f \in Event : e.kind = f.kind =>
       /\ e.id = f.id => e = f
       /\ e.id > f.id => e.date >= f.date
  /\ Present \subseteq Event
  /\ Unsupported \subseteq Kind \ {"followup"}
  /\ Silent \subseteq Kind
  /\ Sizes \subseteq Nat
  /\ MaxPageSize \in Nat \ {0} /\ PageSize \in 1..MaxPageSize
  /\ MaxFetch \in Nat \ {0} /\ RemoveCap \in Nat

VARIABLES
  held,     \* the events of the ticket at GLPI
  removed,  \* those removed since the reader's first page was asked for
  admin,    \* whether the reader is a system administrator
  pc,       \* "idle" or, while a page is made, "fetch"
  page, perPage,   \* the page that is made or was answered last
  next,     \* the source to be asked next
  events,   \* what the sources have answered
  total, totalKnown,
  answer,   \* the last page: its events, its total and has_more
  calm,     \* nothing came or went since this page was asked for
  start,    \* held when the first page was asked for
  shown     \* the events on the pages the reader has been given since

call == <<pc, page, perPage, next, events, total, totalKnown>>
vars == <<held, removed, admin, call, answer, calm, start, shown>>

TypeOK ==
  /\ held \subseteq Event /\ removed \subseteq Event
  /\ admin \in BOOLEAN
  /\ pc \in {"idle", "fetch"}
  /\ page \in Nat /\ perPage \in 1..MaxPageSize
  /\ next \in 1..5
  /\ events \subseteq Event
  /\ total \in Nat /\ totalKnown \in BOOLEAN
  /\ answer \in [events : SUBSET Event, total : Nat, more : BOOLEAN]
  /\ calm \in BOOLEAN /\ start \subseteq Event /\ shown \subseteq Event

-----------------------------------------------------------------------------
OfKind(S, k) == {e \in S : e.kind = k}

\* Those of S that come before e, and the n newest of S.
Ahead(S, e) == {f \in S : Newer(f, e)}
First(S, n) == {e \in S : Cardinality(Ahead(S, e)) < n}

\* What a source answers to range=0-(n-1)&order=DESC.
Rows(k, n) == First(OfKind(held, k), n)

\* Variant: a page of each source, not all that leads up to it.
FetchPageOnly == perPage
FetchCount == page * perPage

Offset == (page - 1) * perPage

\* apiGetTimeline: what is not a page size is taken for the default.
PerPage(asked) == IF asked \in 1..MaxPageSize THEN asked ELSE PageSize

\* VisibleTimelineEvents.
Visible(S) == {e \in S : admin \/ ~ e.private}

\* Variant: counts what was fetched.
HasMoreFetched == totalKnown /\ Cardinality(events) > Offset + perPage

HasMore ==
  /\ totalKnown
  /\ total > IF Offset >= Cardinality(events) THEN Offset
             ELSE IF Offset + perPage > Cardinality(events) THEN Cardinality(events)
             ELSE Offset + perPage

-----------------------------------------------------------------------------
(* GLPI. *)

\* An event is added: the latest of its kind.
Arrive(e) ==
  /\ e \notin held \cup removed
  /\ \A f \in held : f.kind = e.kind => e.id > f.id
  /\ held' = held \cup {e} /\ calm' = FALSE
  /\ UNCHANGED <<removed, admin, call, answer, start, shown>>

Remove(e) ==
  /\ Cardinality(removed) < RemoveCap
  /\ held' = held \ {e} /\ calm' = FALSE
  /\ removed' = removed \cup {e}
  /\ UNCHANGED <<admin, call, answer, start, shown>>

-----------------------------------------------------------------------------
(* The reader and the server.  A page that is refused changes nothing. *)

\* The page out of what was fetched.
ThePage == First(events, Offset + perPage) \ First(events, Offset)

\* What was fetched is gone with the call.
Forget == next' = 1 /\ events' = {} /\ total' = 0

MakePage(p, size) ==
  /\ pc = "idle" /\ pc' = "fetch"
  /\ p <= MaxFetch \div size
  /\ page' = p /\ perPage' = size
  /\ Forget /\ totalKnown' = TRUE
  /\ calm' = TRUE
  /\ answer' = [events |-> {}, total |-> 0, more |-> TRUE]
  /\ UNCHANGED <<held, admin>>

\* The first page.
Open(asked) ==
  /\ MakePage(1, PerPage(asked))
  /\ start' = held /\ removed' = {} /\ shown' = {}

\* The page after the last, while there is one.
Turn ==
  /\ page > 0 /\ answer.more
  /\ MakePage(page + 1, perPage)
  /\ UNCHANGED <<start, removed, shown>>

\* getTicketTimelineSource.
Fetch ==
  /\ pc = "fetch" /\ next \in DOMAIN Source
  /\ LET k == Source[next] IN
     /\ k \notin Unsupported
     /\ events' = events \cup Rows(k, FetchCount)
     /\ \/ total' = total + Cardinality(OfKind(held, k)) /\ UNCHANGED totalKnown
        \/ k \in Silent /\ totalKnown' = FALSE /\ UNCHANGED total
  /\ next' = next + 1
  /\ UNCHANGED <<held, removed, admin, pc, page, perPage, answer, calm, start, shown>>

\* A source that GLPI does not expose is left out.
Skip ==
  /\ pc = "fetch" /\ next \in DOMAIN Source
  /\ Source[next] \in Unsupported
  /\ next' = next + 1
  /\ UNCHANGED <<held, removed, admin, pc, page, perPage, events, total, totalKnown,
                 answer, calm, start, shown>>

\* Any other error is answered as one; the reader may ask for the page again.
Fail ==
  /\ pc = "fetch" /\ next \in DOMAIN Source
  /\ pc' = "idle" /\ page' = page - 1
  /\ Forget
  /\ UNCHANGED <<held, removed, admin, perPage, totalKnown, answer, calm, start, shown>>

\* The rest of GetTicketTimeline and of apiGetTimeline.
Answer ==
  /\ pc = "fetch" /\ next = 5 /\ pc' = "idle"
  /\ answer' =
       [events |-> Visible(ThePage),
        total  |-> IF ~ admin THEN Cardinality(Visible(ThePage))
                   ELSE IF totalKnown THEN total ELSE Cardinality(events),
        more   |-> admin /\ HasMore]
  /\ shown' = shown \cup Visible(ThePage)
  /\ Forget
  /\ UNCHANGED <<held, removed, admin, page, perPage, totalKnown, calm, start>>

-----------------------------------------------------------------------------
Init ==
  /\ held = Present /\ removed = {} /\ admin \in BOOLEAN
  /\ pc = "idle" /\ page = 0 /\ perPage = PageSize
  /\ next = 1 /\ events = {} /\ total = 0 /\ totalKnown = TRUE
  /\ answer = [events |-> {}, total |-> 0, more |-> FALSE]
  /\ calm = TRUE /\ start = {} /\ shown = {}

Next ==
  \/ \E e \in Event \ held : Arrive(e)
  \/ \E e \in held : Remove(e)
  \/ \E asked \in Sizes : Open(asked)
  \/ Turn \/ Fetch \/ Skip \/ Fail \/ Answer

Spec == Init /\ [][Next]_vars

-----------------------------------------------------------------------------
(* Properties. *)

Exposed(S) == {e \in S : e.kind \notin Unsupported}

\* If GLPI does not change while a page is made, the page is that page of the
\* whole timeline, newest first, however the sources divide it; an
\* administrator is told its length and whether more follows
\* (timeline.go:71-74 and 86-89).
PageIsExact ==
  [][Answer /\ calm =>
       LET whole == Exposed(held)
           upto  == page * perPage
       IN  /\ answer'.events = Visible(First(whole, upto) \ First(whole, upto - perPage))
           /\ admin /\ totalKnown =>
                /\ answer'.total = Cardinality(whole)
                /\ (answer'.more <=> Cardinality(whole) > upto)]_vars

\* An administrator who turns pages until has_more is false has been shown all
\* that was there at the beginning, whatever arrived meanwhile: an event is
\* skipped only for one that was removed.
SkipsOnlyForRemoved ==
  pc = "idle" /\ page > 0 /\ admin /\ totalKnown /\ ~ answer.more
    => Cardinality((Exposed(start) \ removed) \ shown) <= Cardinality(removed)

\* The inductive invariant behind PageIsExact: while GLPI does not change, the
\* sources asked so far have answered with their newest events and have been
\* counted in full.
MergesPrefixes ==
  pc = "fetch" /\ calm =>
    LET asked == {e \in Exposed(held) : \E i \in 1..(next - 1) : e.kind = Source[i]}
    IN  /\ events \subseteq asked
        /\ First(asked, page * perPage) \subseteq events
        /\ totalKnown => total = Cardinality(asked)

TimelineInv == TypeOK /\ (pc = "fetch" => page > 0) /\ MergesPrefixes

\* The events an administrator who turns pages has not been shown, of those
\* there at the beginning and there still, and where the pages shown so far end.
Unseen == (Exposed(start) \ removed) \ shown

Passed == (IF pc = "fetch" THEN page - 1 ELSE page) * perPage

\* The inductive invariant behind SkipsOnlyForRemoved.  last is what the sources
\* answered for the last page, gone what was on an answer and is not on the
\* next: what the pages have passed unseen is made up for by as many of those.
Skipped(last) == {e \in Unseen : Cardinality(Ahead(last, e)) < Passed}

AskedFor(last) ==
  {e \in Exposed(start \cup last) \ removed : \E i \in 1..(next - 1) : e.kind = Source[i]}

Accounts(last, gone) ==
  /\ gone \cap (last \cup events) = {}
  /\ Cardinality(Skipped(last)) <= Cardinality(gone)
  /\ pc = "fetch" =>
       /\ \A e \in AskedFor(last) \ events :
            Cardinality(Ahead(OfKind(events, e.kind), e)) >= page * perPage
       /\ totalKnown => total >= Cardinality(events \cup AskedFor(last))
  /\ pc = "idle" /\ page > 0 /\ totalKnown /\ ~ answer.more => Skipped(last) = Unseen

SkipInv ==
  /\ held \cap removed = {} /\ start \subseteq held \cup removed
  /\ events \subseteq Exposed(held \cup removed)
  /\ pc = "fetch" => answer.more
  /\ admin => \E last \in SUBSET Exposed(held \cup removed), gone \in SUBSET removed :
                Accounts(last, gone)
=============================================================================
