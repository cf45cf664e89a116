-------------------------------- MODULE Feed --------------------------------
(***************************************************************************)
(* feed-service: the candidates it projects from the messages of other     *)
(* services, and the pages it serves from them.                            *)
(*                                                                         *)
(* Messages of different topics have no order among each other and the     *)
(* replicas of the group handle them side by side, so any message of any   *)
(* animal may be handled next.  A boost and the statistics are applied by  *)
(* reading a candidate and upserting the changed copy, without a           *)
(* transaction around both.                                                *)
(***************************************************************************)
EXTENDS Naturals, Sequences, FiniteSets, SequencesExt

CONSTANTS
    Animals,            \* animal ids, in the order the list query sorts them
    Consumers,          \* replicas that handle messages
    Viewers,            \* actors that page through the feed
    Point,              \* a score point, in units of the last bit of a sum
    Rates,              \* what click-through rates add, in the same units
    Rounded,            \* rates whose sum with two points depends on the order
    Restored,           \* candidates a service may find in its tables at its start
    OrganicAfterBoost,  \* organic candidates after each boosted one
    PageSize,
    MaxMessages,        \* bound on the messages handled
    None                \* no candidate, no handler under way

ASSUME AnimalsAssumption == Animals \subseteq Nat /\ IsFiniteSet(Animals)
ASSUME RatesAssumption ==
    Point \in Nat \ {0} /\ Rates \subseteq Nat /\ 0 \in Rates /\ Rounded \subseteq Rates \ {0}
ASSUME BoundsAssumption ==
    OrganicAfterBoost \in Nat \ {0} /\ PageSize \in Nat \ {0} /\ MaxMessages \in Nat

\* What a candidate's row holds that ranking looks at: the boosted flag of the
\* profile and two of the score components (freshness is always there).
Candidates ==
    {r \in [boosted: BOOLEAN, lifted: BOOLEAN, ctr: Rates] : r.lifted => r.boosted}

Updates == [kind: {"boost"}, active: BOOLEAN] \cup [kind: {"stats"}, ctr: Rates]

ASSUME RestoredAssumption == Restored \subseteq Candidates

\* An update between its read and its upsert.
Handlings == [animal: Animals, update: Updates, copy: Candidates]

ASSUME NoneAssumption == None \notin Candidates \cup Handlings

VARIABLES
    row,            \* [Animals -> feed_candidates row or None]
    pending,        \* [Consumers -> an update between its read and its upsert]
    cards,          \* animals with rows in feed_served_cards
    seen,           \* [Viewers -> animals swiped]
    stage,          \* [Viewers -> where GetFeed is]
    listing,        \* [Viewers -> candidates as listed]
    page,           \* [Viewers -> ids of the page and the offset of the next]
    token,          \* [Viewers -> offset the viewer will ask for, 0: from the start]
    handled,        \* messages handled so far
    ideal,          \* history: rows as if messages were applied one at a time
    raced,          \* history: animals whose handlers overlapped
    gone,           \* [Viewers -> history: animals removed since the listing]
    late,           \* history: animals with a card saved after their removal
    shown,          \* [Viewers -> history: ids served since the first page]
    calm            \* history: viewers whose feed did not change since then

projection == <<row, pending, ideal, raced>>
paging == <<stage, listing, page, token, shown>>
vars == <<projection, cards, seen, paging, handled, gone, late, calm>>

NoPage == [ids |-> << >>, next |-> 0]
Empty == [a \in Animals |-> None]

\* A started service finds the candidates of earlier runs.
Init ==
    /\ row \in [Animals -> Restored \cup {None}]
    /\ pending = [c \in Consumers |-> None]
    /\ cards = {}
    /\ seen = [v \in Viewers |-> {}]
    /\ stage = [v \in Viewers |-> "idle"]
    /\ listing = [v \in Viewers |-> Empty]
    /\ page = [v \in Viewers |-> NoPage]
    /\ token = [v \in Viewers |-> 0]
    /\ handled = 0
    /\ ideal = row
    /\ raced = {}
    /\ gone = [v \in Viewers |-> {}]
    /\ late = {}
    /\ shown = [v \in Viewers |-> << >>]
    /\ calm = {}

-----------------------------------------------------------------------------
(* Messages.                                                               *)

PendingOn(a) == {c \in Consumers : pending[c] # None /\ pending[c].animal = a}

Receive(c) ==
    /\ pending[c] = None
    /\ handled < MaxMessages
    /\ handled' = handled + 1

\* animal.profile_published: the row is written anew from the snapshot.
Published(boosted) == [boosted |-> boosted, lifted |-> FALSE, ctr |-> 0]

UpsertAnimalProfile(c, a, boosted) ==
    /\ Receive(c)
    /\ row' = [row EXCEPT ![a] = Published(boosted)]
    /\ ideal' = [ideal EXCEPT ![a] = Published(boosted)]
    /\ raced' = IF PendingOn(a) = {} THEN raced ELSE raced \cup {a}
    /\ calm' = {}
    /\ UNCHANGED <<pending, cards, seen, paging, gone, late>>

\* Mutant: the cards served of the animal are kept.
ArchiveKeepingCards(c, a) ==
    /\ Receive(c)
    /\ row' = [row EXCEPT ![a] = None]
    /\ ideal' = [ideal EXCEPT ![a] = None]
    /\ late' = late \ {a}
    /\ raced' = IF PendingOn(a) = {} THEN raced ELSE raced \cup {a}
    /\ gone' = [v \in Viewers |-> gone[v] \cup {a}]
    /\ calm' = {}
    /\ UNCHANGED <<pending, cards, seen, paging>>

\* animal.status_changed to anything but available: one transaction.
ArchiveAnimal(c, a) ==
    /\ Receive(c)
    /\ row' = [row EXCEPT ![a] = None]
    /\ ideal' = [ideal EXCEPT ![a] = None]
    /\ cards' = cards \ {a}
    /\ late' = late \ {a}
    /\ raced' = IF PendingOn(a) = {} THEN raced ELSE raced \cup {a}
    /\ gone' = [v \in Viewers |-> gone[v] \cup {a}]
    /\ calm' = {}
    /\ UNCHANGED <<pending, seen, paging>>

\* Mutant: a boost adds its score but does not mark the profile.
UpdateScoreOnly(u, candidate) ==
    IF candidate = None THEN None
    ELSE IF u.kind = "boost" THEN [candidate EXCEPT !.lifted = u.active]
    ELSE [candidate EXCEPT !.ctr = u.ctr]

\* A boost marks the profile and adds a score component; one that is no longer
\* active takes both away.
Update(u, candidate) ==
    IF candidate = None THEN None
    ELSE IF u.kind = "boost" THEN [candidate EXCEPT !.boosted = u.active, !.lifted = u.active]
    ELSE [candidate EXCEPT !.ctr = u.ctr]

\* billing.boost_activated or analytics.animal_stats_aggregated: getCandidate,
\* which ends the handler when there is none.
GetCandidate(c, a, u) ==
    /\ Receive(c)
    /\ row[a] # None
    /\ pending' = [pending EXCEPT ![c] = [animal |-> a, update |-> u, copy |-> row[a]]]
    /\ raced' = IF PendingOn(a) = {} THEN raced ELSE raced \cup {a}
    /\ UNCHANGED <<row, ideal, cards, seen, paging, gone, late, calm>>

\* Mutant: an update starts from a fresh candidate.
UpsertFresh(c) ==
    /\ pending[c] # None
    /\ LET p == pending[c] IN
        /\ row' = [row EXCEPT ![p.animal] = Update(p.update, Published(FALSE))]
        /\ ideal' = [ideal EXCEPT ![p.animal] = Update(p.update, @)]
    /\ pending' = [pending EXCEPT ![c] = None]
    /\ calm' = {}
    /\ UNCHANGED <<raced, cards, seen, paging, handled, gone, late>>

\* upsertCandidate: the whole copy, whatever became of the row.
UpsertCandidate(c) ==
    /\ pending[c] # None
    /\ LET p == pending[c] IN
        /\ row' = [row EXCEPT ![p.animal] = Update(p.update, p.copy)]
        /\ ideal' = [ideal EXCEPT ![p.animal] = Update(p.update, @)]
    /\ pending' = [pending EXCEPT ![c] = None]
    /\ calm' = {}
    /\ UNCHANGED <<raced, cards, seen, paging, handled, gone, late>>

\* The upsert fails or the replica dies; the offset is committed already, so
\* nobody handles the message again.
LoseMessage(c) ==
    /\ pending[c] # None
    /\ pending' = [pending EXCEPT ![c] = None]
    /\ UNCHANGED <<row, ideal, raced, cards, seen, paging, handled, gone, late, calm>>

\* matching.swipe_recorded.
RecordSwipe(c, v, a) ==
    /\ Receive(c)
    /\ a \notin seen[v]
    /\ seen' = [seen EXCEPT ![v] = @ \cup {a}]
    /\ calm' = calm \ {v}
    /\ UNCHANGED <<projection, cards, paging, gone, late>>

-----------------------------------------------------------------------------
(* Ranking: RankCandidates and paginate.                                   *)

\* totalScore adds the components in the order in which Go walks a map, a new
\* one at every call: when there are three of them, the last bit of the float64
\* may differ from call to call.
Low(candidate) == Point + (IF candidate.lifted THEN Point ELSE 0) + candidate.ctr
High(candidate) ==
    IF candidate.lifted /\ candidate.ctr \in Rounded THEN Low(candidate) + 1 ELSE Low(candidate)

\* Whatever sums are drawn, each candidate of S stays on its side of the score.
Splits(rows, S, score) == \A a \in S : Low(rows[a]) >= score \/ High(rows[a]) < score

\* sortCandidates puts a before b, whatever sums its comparisons draw: a score
\* splits the candidates between them, or they have one score that no other
\* straddles, and the sort is stable over the list query.  (Low(a) > High(b)
\* alone is not enough: a third one can be equal to both, each time it is asked.)
Surely(rows, S, a, b) ==
    \/ \E c \in S : /\ Splits(rows, S, Low(rows[c]))
                    /\ Low(rows[a]) >= Low(rows[c])
                    /\ High(rows[b]) < Low(rows[c])
    \/ /\ a < b /\ Low(rows[a]) = Low(rows[b])
       /\ Splits(rows, S, Low(rows[a])) /\ Splits(rows, S, Low(rows[a]) + 1)

\* The orders the sort may return, best score first.
Orders(rows, S) ==
    {s \in SetToSeqs(S) : \A i, j \in DOMAIN s : i < j => ~ Surely(rows, S, s[j], s[i])}

Boosts(rows, S) == {a \in S : rows[a].boosted}
Organic(rows, S) == S \ Boosts(rows, S)

\* The candidates a is sorted with.
Lane(rows, S, a) == IF rows[a].boosted THEN Boosts(rows, S) ELSE Organic(rows, S)

\* filterCandidates: rows are of available animals, so only swipes filter.
Visible(rows, swiped) == {a \in Animals \ swiped : rows[a] # None}

Least(m, n) == IF m < n THEN m ELSE n

\* Mutant: all the boosted candidates come first.
RankingsLoosely(rows, S) ==
    {b \o o : b \in Orders(rows, Boosts(rows, S)), o \in Orders(rows, Organic(rows, S))}

\* What a turn of the loop appends: the next boosted candidate and the next
\* OrganicAfterBoost organic ones, as far as there are any.
Turn(boosted, organic, r) ==
    SubSeq(boosted, r, Least(r, Len(boosted)))
        \o SubSeq(organic, (r - 1) * OrganicAfterBoost + 1,
                           Least(r * OrganicAfterBoost, Len(organic)))

\* The loop; when the organic ones have run out, the boosted ones follow each
\* other, and when both have, turns append nothing.
InterleaveBoosted(boosted, organic) ==
    LET turns == Len(boosted) + Len(organic)
        ranked[r \in 0..turns] ==
            IF r = 0 THEN << >> ELSE ranked[r - 1] \o Turn(boosted, organic, r)
    IN  ranked[turns]

\* RankCandidates: one of these, drawn anew for every page.
Rankings(rows, S) ==
    {InterleaveBoosted(b, o) : b \in Orders(rows, Boosts(rows, S)), o \in Orders(rows, Organic(rows, S))}

\* Mutant: the next page starts one too far.
PaginateBeyond(ranked, offset) ==
    LET end == Least(offset + PageSize, Len(ranked))
    IN  IF offset >= Len(ranked) THEN NoPage
        ELSE [ids |-> SubSeq(ranked, offset + 1, end),
              next |-> IF end < Len(ranked) THEN end + 1 ELSE 0]

\* paginate: next 0 is the empty token.
Paginate(ranked, offset) ==
    LET end == Least(offset + PageSize, Len(ranked))
    IN  IF offset >= Len(ranked) THEN NoPage
        ELSE [ids |-> SubSeq(ranked, offset + 1, end),
              next |-> IF end < Len(ranked) THEN end ELSE 0]

-----------------------------------------------------------------------------
(* GetFeed: list the candidates, read the swipes, rank, save the cards.    *)

\* The first page of a session, or the one the token names.
ListCandidates(v, first) ==
    /\ stage[v] = "idle"
    /\ first \/ token[v] # 0
    /\ stage' = [stage EXCEPT ![v] = "listed"]
    /\ listing' = [listing EXCEPT ![v] = row]
    /\ gone' = [gone EXCEPT ![v] = {}]
    /\ IF first
       THEN /\ shown' = [shown EXCEPT ![v] = << >>]
            /\ token' = [token EXCEPT ![v] = 0]
            /\ calm' = calm \cup {v}
       ELSE UNCHANGED <<shown, token, calm>>
    /\ UNCHANGED <<projection, cards, seen, page, handled, late>>

RankPage(v) ==
    /\ stage[v] = "listed"
    /\ \E ranked \in Rankings(listing[v], Visible(listing[v], seen[v])) :
          page' = [page EXCEPT ![v] = Paginate(ranked, token[v])]
    /\ listing' = [listing EXCEPT ![v] = Empty]
    /\ stage' = [stage EXCEPT ![v] = "ranked"]
    /\ UNCHANGED <<projection, cards, seen, token, handled, gone, late, shown, calm>>

SaveServedCards(v) ==
    /\ stage[v] = "ranked"
    /\ LET ids == {page[v].ids[i] : i \in DOMAIN page[v].ids} IN
        /\ cards' = cards \cup ids
        /\ late' = late \cup (ids \cap gone[v])
    /\ shown' = [shown EXCEPT ![v] = @ \o page[v].ids]
    /\ token' = [token EXCEPT ![v] = page[v].next]
    /\ page' = [page EXCEPT ![v] = NoPage]
    /\ gone' = [gone EXCEPT ![v] = {}]
    /\ stage' = [stage EXCEPT ![v] = "idle"]
    /\ UNCHANGED <<projection, listing, seen, handled, calm>>

\* A query fails; the viewer keeps the token it has.
GetFeedFails(v) ==
    /\ stage[v] # "idle"
    /\ stage' = [stage EXCEPT ![v] = "idle"]
    /\ listing' = [listing EXCEPT ![v] = Empty]
    /\ page' = [page EXCEPT ![v] = NoPage]
    /\ gone' = [gone EXCEPT ![v] = {}]
    /\ UNCHANGED <<projection, cards, seen, token, handled, late, shown, calm>>

-----------------------------------------------------------------------------
Handle(c) ==
    \/ \E a \in Animals :
        \/ \E boosted \in BOOLEAN : UpsertAnimalProfile(c, a, boosted)
        \/ ArchiveAnimal(c, a)
        \/ \E u \in Updates : GetCandidate(c, a, u)
        \/ \E v \in Viewers : RecordSwipe(c, v, a)
    \/ UpsertCandidate(c)
    \/ LoseMessage(c)

GetFeed(v) ==
    \/ \E first \in BOOLEAN : ListCandidates(v, first)
    \/ RankPage(v)
    \/ SaveServedCards(v)
    \/ GetFeedFails(v)

Next == (\E c \in Consumers : Handle(c)) \/ (\E v \in Viewers : GetFeed(v))

Spec == Init /\ [][Next]_vars
-----------------------------------------------------------------------------
(* Properties.                                                             *)

TypeOK ==
    /\ row \in [Animals -> Candidates \cup {None}]
    /\ pending \in [Consumers -> Handlings \cup {None}]
    /\ cards \subseteq Animals
    /\ seen \in [Viewers -> SUBSET Animals]
    /\ stage \in [Viewers -> {"idle", "listed", "ranked"}]
    /\ listing \in [Viewers -> [Animals -> Candidates \cup {None}]]
    /\ page \in [Viewers -> [ids: Seq(Animals), next: Nat]]
    /\ token \in [Viewers -> Nat]
    /\ handled \in 0..MaxMessages
    /\ ideal \in [Animals -> Candidates \cup {None}]
    /\ raced \subseteq Animals
    /\ gone \in [Viewers -> SUBSET Animals]
    /\ late \subseteq cards
    /\ shown \in [Viewers -> Seq(Animals)]
    /\ calm \subseteq Viewers

\* Only handlers that overlap on one animal can spoil its candidate (bring an
\* archived animal back, take a boost or statistics away): otherwise the row is
\* what the handled messages make of it one at a time, lost ones left out.
ProjectionIsSerial == \A a \in Animals \ raced : row[a] = ideal[a]

\* The served cards of an animal go with its candidate.  A card of an animal
\* that is not listed was saved by a page listed before the animal was removed.
CardsGoWithCandidate == \A a \in cards : row[a] # None \/ a \in late

\* The sums leave no choice: any two candidates that are sorted together are
\* surely in one order.
Decided(rows, S) ==
    \A a, b \in S :
        LET lane == Lane(rows, S, a)
        IN  a # b /\ b \in lane => Surely(rows, lane, a, b) \/ Surely(rows, lane, b, a)

\* The pages a viewer gets while the feed stands still: there are as many cards
\* as visible candidates, each at a place a ranking gives it, and no token after
\* the last.  When no two sums are within a rounding of each other, the pages
\* are the ranking, cut in order: nothing twice and nothing left out.  (When
\* some are, the sorts of two pages may differ, and they do not show that.)
PagesAreTheRanking ==
    \A v \in calm :
        LET visible == Visible(row, seen[v])
            rankings == Rankings(row, visible)
        IN  /\ \A i \in DOMAIN shown[v] :
                  \E ranked \in rankings : i \in DOMAIN ranked /\ shown[v][i] = ranked[i]
            /\ shown[v] # << >> /\ token[v] = 0 => Len(shown[v]) = Cardinality(visible)
            /\ Decided(row, visible) => \A ranked \in rankings : IsPrefix(shown[v], ranked)

\* What interleaving is for, in every ranking the next page may be cut from: each
\* visible candidate has one place, a boosted one comes first, and two boosted
\* ones in a row have OrganicAfterBoost organic ones between them as long as an
\* organic one is left for later.
BoostsAreSpread ==
    \A v \in Viewers : stage[v] = "listed" =>
        LET rows == listing[v]
            visible == Visible(rows, seen[v])
        IN  \A ranked \in Rankings(rows, visible) :
                LET Boosted(i) == rows[ranked[i]].boosted
                    places == DOMAIN ranked
                IN  /\ Len(ranked) = Cardinality(visible)
                    /\ {ranked[i] : i \in places} = visible
                    /\ \A i, j \in places :
                        i < j /\ Boosted(i) = Boosted(j)
                        => ~ Surely(rows, Lane(rows, visible, ranked[i]), ranked[j], ranked[i])
                    /\ (\E i \in places : Boosted(i)) => Boosted(1)
                    /\ \A i, j, k \in places :
                        /\ i < j /\ j < k
                        /\ Boosted(i) /\ Boosted(j) /\ ~ Boosted(k)
                        => j - i > OrganicAfterBoost
=============================================================================
