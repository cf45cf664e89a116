--------------------------- MODULE MatchingProofs ---------------------------
(***************************************************************************)
(* Theorems about Matching, for every set of calls, actors, animals, keys  *)
(* and conversations and every combination of faults.                      *)
(*                                                                         *)
(* OneMatchPerPair is not inductive by itself: nothing in it says that a   *)
(* match has a swipe, which is where the unique index is.  IInv adds how   *)
(* the rows written by one transaction hang together.                      *)
(***************************************************************************)
EXTENDS Matching, TLAPS

\* A call has a row in swipes only once it has committed.
RowsComeFromCommits ==
    \A c \in Calls : c \in swipes => call[c] \in {"ok", "failed"}

\* The unique index on swipes.
OneSwipePerPair ==
    \A c, d \in swipes : SamePair(c, d) => c = d

\* A right swipe and its match are written together.
MatchIffRightSwipe ==
    \A c \in Calls : matches[c] # "none" <=> (c \in swipes /\ RightSwipe(c))

\* A key row and the swipe it points to are written together.
KeyOfSwipe ==
    /\ \A c \in swipes : idempotency[cmd[c].key] = c
    /\ \A k \in Keys : idempotency[k] # None =>
         idempotency[k] \in swipes /\ cmd[idempotency[k]].key = k

\* What an answered call returned is the row of its key.
RepliesComeFromKey ==
    \A c \in Calls : call[c] \in Answered =>
        /\ returned[c] # None
        /\ returned[c] = idempotency[cmd[c].key]

IInv ==
    /\ TypeOK
    /\ RowsComeFromCommits
    /\ OneSwipePerPair
    /\ MatchIffRightSwipe
    /\ KeyOfSwipe
    /\ RepliesComeFromKey
    /\ OutboxMatchesTables

USE DEF Phases, Refused, Answered, Topics, tables

-----------------------------------------------------------------------------
LEMMA InitIInv == Init => IInv
  BY NoneAssumption
  DEF Init, IInv, TypeOK, RowsComeFromCommits, OneSwipePerPair, MatchIffRightSwipe,
      KeyOfSwipe, RepliesComeFromKey, OutboxMatchesTables, Commands

\* The fields of a request.
LEMMA CommandFields ==
    ASSUME TypeOK, NEW c \in Calls
    PROVE  cmd[c].key \in Keys /\ cmd[c].animal \in Animals /\ cmd[c].actor \in Actors
  BY DEF TypeOK, Commands

\* A call that commits changes its own rows only, and adds exactly one of each.
LEMMA CommitEffect ==
    ASSUME TypeOK, NEW c \in Calls, CommitSwipe(c)
    PROVE  /\ swipes' = swipes \cup {c}
           /\ \A d \in Calls : matches'[d] = IF d = c /\ RightSwipe(c) THEN "active" ELSE matches[d]
           /\ \A k \in Keys : idempotency'[k] = IF k = cmd[c].key THEN c ELSE idempotency[k]
           /\ \A d \in Calls : d # c => call'[d] = call[d] /\ returned'[d] = returned[d]
           /\ \/ call'[c] = "ok" /\ returned'[c] = c
              \/ call'[c] = "failed" /\ returned'[c] = None
           /\ \A d \in Calls :
                /\ outbox'["swipe_recorded"][d] =
                     IF d = c THEN outbox["swipe_recorded"][d] + 1 ELSE outbox["swipe_recorded"][d]
                /\ outbox'["match_created"][d] =
                     IF d = c /\ RightSwipe(c) THEN outbox["match_created"][d] + 1
                                               ELSE outbox["match_created"][d]
                /\ outbox'["match_archived"][d] = outbox["match_archived"][d]
           /\ cmd' = cmd
  <1>1. /\ swipes' = swipes \cup {c}
        /\ \A d \in Calls : matches'[d] = IF d = c /\ RightSwipe(c) THEN "active" ELSE matches[d]
        /\ \A k \in Keys : idempotency'[k] = IF k = cmd[c].key THEN c ELSE idempotency[k]
        /\ cmd' = cmd
    BY CommandFields DEF CommitSwipe, TypeOK, Return
  <1>2. /\ \A d \in Calls : d # c => call'[d] = call[d] /\ returned'[d] = returned[d]
        /\ \/ call'[c] = "ok" /\ returned'[c] = c
           \/ call'[c] = "failed" /\ returned'[c] = None
    BY DEF CommitSwipe, TypeOK, Return
  <1>3. \A d \in Calls :
          /\ outbox'["swipe_recorded"][d] =
               IF d = c THEN outbox["swipe_recorded"][d] + 1 ELSE outbox["swipe_recorded"][d]
          /\ outbox'["match_created"][d] =
               IF d = c /\ RightSwipe(c) THEN outbox["match_created"][d] + 1
                                         ELSE outbox["match_created"][d]
          /\ outbox'["match_archived"][d] = outbox["match_archived"][d]
    BY DEF CommitSwipe, TypeOK, WithSwipeEvents
  <1>. QED BY <1>1, <1>2, <1>3

-----------------------------------------------------------------------------
(* TypeOK. *)

LEMMA TypePreserved == TypeOK /\ [Next]_vars => TypeOK'
  <1>. SUFFICES ASSUME TypeOK, [Next]_vars PROVE TypeOK'
    OBVIOUS
  <1>1. ASSUME NEW c \in Calls, RecordSwipe(c) PROVE TypeOK'
    <2>1. CASE ReplaySwipe(c)
      BY <2>1, CommandFields DEF ReplaySwipe, Return, TypeOK
    <2>2. CASE RejectUnavailable(c) \/ StartSwipe(c) \/ RejectDuplicate(c)
                 \/ RejectConflict(c) \/ AbortSwipe(c)
      BY <2>2 DEF RejectUnavailable, StartSwipe, RejectDuplicate, RejectConflict,
                  AbortSwipe, Return, TypeOK
    <2>3. CASE CommitSwipe(c)
      <3>1. WithSwipeEvents(c) \in [Topics -> [Calls -> Nat]]
        BY DEF TypeOK, WithSwipeEvents
      <3>2. QED
        BY <2>3, <3>1, CommandFields DEF CommitSwipe, Return, TypeOK
    <2>4. QED BY <1>1, <2>1, <2>2, <2>3 DEF RecordSwipe
  <1>2. ASSUME NEW a \in Animals, HandleAnimalEvent(a) PROVE TypeOK'
    <2>1. CASE \E avail \in BOOLEAN : HandleAnimalStatusChanged(a, avail)
      BY <2>1 DEF HandleAnimalStatusChanged, TypeOK
    <2>2. ASSUME ArchiveActive(a), archiving' \subseteq archiving PROVE TypeOK'
      <3>1. outbox' \in [Topics -> [Calls -> Nat]]
        BY <2>2 DEF ArchiveActive, TypeOK
      <3>2. matches' \in [Calls -> {"none", "active", "archived"}]
        BY <2>2 DEF ArchiveActive, TypeOK
      <3>3. QED BY <2>2, <3>1, <3>2 DEF ArchiveActive, TypeOK
    <2>3. CASE ArchiveMatchesByAnimal(a)
      BY <2>2, <2>3 DEF ArchiveMatchesByAnimal, HandlerEnds, TypeOK
    <2>4. CASE StatusHandlerFails(a)
      BY <2>4 DEF StatusHandlerFails, HandlerEnds, TypeOK
    <2>5. CASE HandleAnimalArchived(a)
      BY <2>2, <2>5 DEF HandleAnimalArchived
    <2>6. QED BY <1>2, <2>1, <2>3, <2>4, <2>5 DEF HandleAnimalEvent
  <1>3. ASSUME NEW m \in Calls, NEW conv \in Conversations, UpdateMatchConversation(m, conv)
        PROVE  TypeOK'
    BY <1>3 DEF UpdateMatchConversation, TypeOK
  <1>4. CASE UNCHANGED vars
    BY <1>4 DEF vars, TypeOK
  <1>5. QED BY <1>1, <1>2, <1>3, <1>4 DEF Next

\* Type correctness of the whole service.
THEOREM TypeCorrect == Spec => []TypeOK
  <1>1. Init => TypeOK
    BY InitIInv DEF IInv
  <1>2. QED BY <1>1, TypePreserved, PTL DEF Spec

-----------------------------------------------------------------------------
(* IInv is preserved by each step. *)

\* A call that returns without writing leaves the tables alone.
LEMMA ReturnPreserves ==
    ASSUME IInv, NEW c \in Calls, NEW phase \in Phases, NEW swipe \in Calls \cup {None},
           TypeOK', Return(c, phase, swipe), UNCHANGED tables,
           call[c] \in {"new", "writing"},
           phase \in Answered => swipe # None /\ swipe = idempotency[cmd[c].key]
    PROVE  IInv'
  <1>1. RowsComeFromCommits'
    BY DEF IInv, TypeOK, Return, RowsComeFromCommits
  <1>2. OneSwipePerPair' /\ MatchIffRightSwipe' /\ KeyOfSwipe' /\ OutboxMatchesTables'
    BY DEF IInv, Return, OneSwipePerPair, MatchIffRightSwipe, KeyOfSwipe,
           OutboxMatchesTables, SamePair, RightSwipe
  <1>3. RepliesComeFromKey'
    BY DEF IInv, TypeOK, Return, RepliesComeFromKey
  <1>4. QED BY <1>1, <1>2, <1>3 DEF IInv

LEMMA CommitPreserves ==
    ASSUME IInv, NEW c \in Calls, TypeOK', CommitSwipe(c)
    PROVE  IInv'
  <1>. USE CommitEffect, CommandFields DEF IInv
  <1>0. c \notin swipes /\ call[c] = "writing" /\ SwipeIsNew(c) /\ KeyIsNew(c)
    BY DEF CommitSwipe, RowsComeFromCommits
  <1>1. RowsComeFromCommits'
    BY DEF RowsComeFromCommits
  <1>2. OneSwipePerPair'
    <2>1. \A d, e : SamePair(d, e)' <=> SamePair(d, e)
      BY DEF SamePair
    <2>2. \A d \in swipes : ~ SamePair(c, d) /\ ~ SamePair(d, c)
      BY <1>0 DEF SwipeIsNew, SamePair
    <2>3. \A d, e \in swipes \cup {c} : SamePair(d, e) => d = e
      BY <2>2 DEF OneSwipePerPair
    <2>4. swipes' = swipes \cup {c}
      OBVIOUS
    <2>5. QED BY <2>1, <2>3, <2>4 DEF OneSwipePerPair
  <1>3. MatchIffRightSwipe'
    BY <1>0 DEF MatchIffRightSwipe, RightSwipe
  <1>4. KeyOfSwipe'
    <2>1. ASSUME NEW d \in swipes' PROVE idempotency'[cmd'[d].key] = d
      BY <1>0, <2>1, NoneAssumption DEF KeyOfSwipe, KeyIsNew, TypeOK
    <2>2. ASSUME NEW k \in Keys, idempotency'[k] # None
          PROVE  idempotency'[k] \in swipes' /\ cmd'[idempotency'[k]].key = k
      BY <2>2 DEF KeyOfSwipe
    <2>3. QED BY <2>1, <2>2 DEF KeyOfSwipe
  <1>5. RepliesComeFromKey'
    BY <1>0, NoneAssumption DEF RepliesComeFromKey, KeyIsNew
  <1>6. OutboxMatchesTables'
    BY <1>0 DEF OutboxMatchesTables, MatchIffRightSwipe
  <1>7. QED BY <1>1, <1>2, <1>3, <1>4, <1>5, <1>6

LEMMA ArchivePreserves ==
    ASSUME IInv, NEW a \in Animals, TypeOK', ArchiveActive(a)
    PROVE  IInv'
  <1>1. /\ \A c \in Calls : matches'[c] # "none" <=> matches[c] # "none"
        /\ UNCHANGED <<cmd, call, returned, swipes, idempotency>>
    BY DEF ArchiveActive, ActiveOn, IInv, TypeOK
  <1>2. RowsComeFromCommits' /\ OneSwipePerPair' /\ MatchIffRightSwipe' /\ KeyOfSwipe'
          /\ RepliesComeFromKey'
    BY <1>1 DEF IInv, RowsComeFromCommits, OneSwipePerPair, MatchIffRightSwipe, KeyOfSwipe,
                RepliesComeFromKey, SamePair, RightSwipe
  <1>3. OutboxMatchesTables'
    <2>1. \A c \in Calls :
            /\ matches'[c] = IF c \in ActiveOn(a) THEN "archived" ELSE matches[c]
            /\ outbox'["swipe_recorded"][c] = outbox["swipe_recorded"][c]
            /\ outbox'["match_created"][c] = outbox["match_created"][c]
            /\ outbox'["match_archived"][c] =
                 IF c \in ActiveOn(a) THEN outbox["match_archived"][c] + 1
                                      ELSE outbox["match_archived"][c]
      BY DEF ArchiveActive, IInv, TypeOK
    <2>2. QED BY <1>1, <2>1 DEF OutboxMatchesTables, IInv, ActiveOn
  <1>4. QED BY <1>2, <1>3 DEF IInv

LEMMA NextIInv == IInv /\ [Next]_vars => IInv'
  <1>. SUFFICES ASSUME IInv, [Next]_vars PROVE IInv'
    OBVIOUS
  <1>0. TypeOK /\ TypeOK'
    BY TypePreserved DEF IInv
  <1>1. ASSUME NEW c \in Calls, RecordSwipe(c) PROVE IInv'
    <2>1. CASE ReplaySwipe(c)
      <3>1. idempotency[cmd[c].key] \in Calls \cup {None}
        BY <1>0, CommandFields DEF TypeOK
      <3>2. QED BY <1>0, <2>1, <3>1, ReturnPreserves DEF ReplaySwipe
    <2>2. CASE RejectUnavailable(c) \/ StartSwipe(c) \/ RejectDuplicate(c)
                 \/ RejectConflict(c) \/ AbortSwipe(c)
      BY <1>0, <2>2, ReturnPreserves
      DEF RejectUnavailable, StartSwipe, RejectDuplicate, RejectConflict, AbortSwipe
    <2>3. CASE CommitSwipe(c)
      BY <1>0, <2>3, CommitPreserves
    <2>4. QED BY <1>1, <2>1, <2>2, <2>3 DEF RecordSwipe
  <1>2. ASSUME NEW a \in Animals, HandleAnimalEvent(a) PROVE IInv'
    <2>1. CASE ArchiveMatchesByAnimal(a) \/ HandleAnimalArchived(a)
      BY <1>0, <2>1, ArchivePreserves DEF ArchiveMatchesByAnimal, HandleAnimalArchived
    <2>2. CASE \/ \E avail \in BOOLEAN : HandleAnimalStatusChanged(a, avail)
               \/ StatusHandlerFails(a)
      <3>1. UNCHANGED <<cmd, call, returned, swipes, matches, idempotency, outbox>>
        BY <2>2 DEF HandleAnimalStatusChanged, StatusHandlerFails
      <3>2. QED
        BY <1>0, <3>1
        DEF IInv, RowsComeFromCommits, OneSwipePerPair, MatchIffRightSwipe, KeyOfSwipe,
            RepliesComeFromKey, OutboxMatchesTables, SamePair, RightSwipe
    <2>3. QED BY <1>2, <2>1, <2>2 DEF HandleAnimalEvent
  <1>3. CASE \/ \E m \in Calls, conv \in Conversations : UpdateMatchConversation(m, conv)
             \/ UNCHANGED vars
    <2>1. UNCHANGED <<cmd, call, returned, swipes, matches, idempotency, outbox>>
      BY <1>3 DEF UpdateMatchConversation, vars
    <2>2. QED
      BY <1>0, <2>1
      DEF IInv, RowsComeFromCommits, OneSwipePerPair, MatchIffRightSwipe, KeyOfSwipe,
          RepliesComeFromKey, OutboxMatchesTables, SamePair, RightSwipe
  <1>4. QED BY <1>1, <1>2, <1>3 DEF Next

LEMMA InductiveInvariant == Spec => []IInv
  BY InitIInv, NextIInv, PTL DEF Spec

-----------------------------------------------------------------------------
\* An adopter and an animal are matched at most once over the whole history.
THEOREM SpecOneMatchPerPair == Spec => []OneMatchPerPair
  <1>1. IInv => OneMatchPerPair
    BY DEF IInv, MatchIffRightSwipe, OneSwipePerPair, OneMatchPerPair
  <1>2. QED BY <1>1, InductiveInvariant, PTL

\* Every call answered under one idempotency key was given the same swipe.
THEOREM SpecRepliesAgree == Spec => []RepliesAgree
  <1>1. IInv => RepliesAgree
    BY DEF IInv, RepliesComeFromKey, RepliesAgree
  <1>2. QED BY <1>1, InductiveInvariant, PTL

\* The outbox holds exactly the events of the rows the tables hold.
THEOREM SpecOutboxMatchesTables == Spec => []OutboxMatchesTables
  <1>1. IInv => OutboxMatchesTables
    BY DEF IInv
  <1>2. QED BY <1>1, InductiveInvariant, PTL

\* The partial unique index on active matches never rejects an insert: a call
\* that passed the swipe index passes it, which is why RecordSwipe need not map
\* its violation to an error of its own.
THEOREM ActiveMatchIndexNeverFires ==
    ASSUME IInv, NEW c \in Calls, SwipeIsNew(c)
    PROVE  NoActiveMatch(c)
  BY DEF IInv, SwipeIsNew, NoActiveMatch, MatchIffRightSwipe

\* A match stays archived and keeps its conversation.
THEOREM SpecMatchHistory == Spec => MatchHistory
  <1>1. TypeOK /\ RowsComeFromCommits /\ MatchIffRightSwipe /\ [Next]_vars =>
          [\A m \in Calls :
             /\ matches[m] = "archived" => matches'[m] = "archived"
             /\ conversation[m] # None => conversation'[m] = conversation[m]]_vars
    <2>. SUFFICES ASSUME TypeOK, RowsComeFromCommits, MatchIffRightSwipe, Next,
                         NEW m \in Calls
                  PROVE  /\ matches[m] = "archived" => matches'[m] = "archived"
                         /\ conversation[m] # None => conversation'[m] = conversation[m]
      BY DEF vars
    <2>1. ASSUME NEW c \in Calls, RecordSwipe(c)
          PROVE  conversation' = conversation /\ (matches[m] = "archived" => matches'[m] = "archived")
      <3>1. CASE CommitSwipe(c)
        <4>1. conversation' = conversation
          BY <3>1 DEF CommitSwipe
        <4>2. matches[m] = "archived" => m # c
          BY <3>1 DEF CommitSwipe, RowsComeFromCommits, MatchIffRightSwipe
        <4>3. QED BY <3>1, <4>1, <4>2, CommitEffect
      <3>2. CASE UNCHANGED tables
        BY <3>2
      <3>3. QED
        BY <2>1, <3>1, <3>2 DEF RecordSwipe, ReplaySwipe, RejectUnavailable, StartSwipe,
                                RejectDuplicate, RejectConflict, AbortSwipe
    <2>2. ASSUME NEW a \in Animals, HandleAnimalEvent(a)
          PROVE  conversation' = conversation /\ (matches[m] = "archived" => matches'[m] = "archived")
      BY <2>2 DEF HandleAnimalEvent, HandleAnimalStatusChanged, ArchiveMatchesByAnimal,
                  StatusHandlerFails, HandleAnimalArchived, ArchiveActive
    <2>3. ASSUME NEW n \in Calls, NEW conv \in Conversations, UpdateMatchConversation(n, conv)
          PROVE  /\ matches' = matches
                 /\ conversation[m] # None => conversation'[m] = conversation[m]
      BY <2>3 DEF UpdateMatchConversation, TypeOK
    <2>4. QED BY <2>1, <2>2, <2>3 DEF Next
  <1>2. IInv => TypeOK /\ RowsComeFromCommits /\ MatchIffRightSwipe
    BY DEF IInv
  <1>3. QED BY <1>1, <1>2, InductiveInvariant, PTL DEF Spec, MatchHistory

-----------------------------------------------------------------------------
(* Matching implements SwipeBook.                                          *)

\* The mapping shows an open call as a call without an answer and a new line as
\* one without a conversation: neither is written before its time.
NothingAhead ==
    \A c \in Calls :
        /\ call[c] \in {"new", "writing"} => returned[c] = None
        /\ matches[c] = "none" => conversation[c] = None

LEMMA InitNothingAhead == Init => NothingAhead
  BY DEF Init, NothingAhead

LEMMA NextNothingAhead == IInv /\ NothingAhead /\ [Next]_vars => NothingAhead'
  <1>. SUFFICES ASSUME TypeOK, IInv, NothingAhead, [Next]_vars, NEW d \in Calls
                PROVE  /\ call'[d] \in {"new", "writing"} => returned'[d] = None
                       /\ matches'[d] = "none" => conversation'[d] = None
    BY DEF NothingAhead, IInv
  <1>. USE DEF NothingAhead
  <1>1. ASSUME NEW c \in Calls, RecordSwipe(c)
        PROVE  /\ call'[d] \in {"new", "writing"} => returned'[d] = None
               /\ matches'[d] = "none" => conversation'[d] = None
    <2>1. CASE CommitSwipe(c)
      <3>1. conversation' = conversation /\ call[c] = "writing"
        BY <2>1 DEF CommitSwipe
      <3>2. c \notin swipes /\ matches[c] = "none"
        BY <3>1 DEF IInv, RowsComeFromCommits, MatchIffRightSwipe
      <3>3. QED BY <2>1, <3>1, <3>2, CommitEffect
    <2>2. CASE UNCHANGED tables
      BY <1>1, <2>1, <2>2 DEF RecordSwipe, ReplaySwipe, RejectUnavailable, StartSwipe,
             RejectDuplicate, RejectConflict, AbortSwipe, Return, TypeOK
    <2>3. QED
      BY <1>1, <2>1, <2>2 DEF RecordSwipe, ReplaySwipe, RejectUnavailable, StartSwipe,
                              RejectDuplicate, RejectConflict, AbortSwipe
  <1>2. ASSUME NEW a \in Animals, HandleAnimalEvent(a)
        PROVE  /\ UNCHANGED <<call, returned, conversation>>
               /\ matches'[d] = "none" => matches[d] = "none"
    BY <1>2 DEF HandleAnimalEvent, HandleAnimalStatusChanged, ArchiveMatchesByAnimal,
                StatusHandlerFails, HandleAnimalArchived, ArchiveActive, ActiveOn
  <1>3. ASSUME NEW m \in Calls, NEW conv \in Conversations, UpdateMatchConversation(m, conv)
        PROVE  /\ UNCHANGED <<call, returned, matches>>
               /\ matches[d] = "none" => conversation'[d] = conversation[d]
    BY <1>3 DEF UpdateMatchConversation, TypeOK
  <1>4. CASE UNCHANGED vars
    BY <1>4 DEF vars
  <1>5. QED BY <1>1, <1>2, <1>3, <1>4 DEF Next

LEMMA NothingAheadHolds == Spec => []NothingAhead
  BY InitNothingAhead, NextNothingAhead, InductiveInvariant, PTL DEF Spec

\* The values the mapping gives to the variables of SwipeBook.
Outcome == [c \in Calls |-> IF call[c] \in {"new", "writing"} THEN "open" ELSE call[c]]
LineOf(c) == [swipe |-> c, match |-> matches[c], conversation |-> conversation[c]]
Lines == {LineOf(c) : c \in swipes}

LEMMA BookLines ==
    ASSUME NEW c \in Calls
    PROVE  Book!IsWritten(c) <=> ~ SwipeIsNew(c)
  <1>1. Book!IsWritten(c) <=>
          \E l \in Lines : cmd[l.swipe].actor = cmd[c].actor /\ cmd[l.swipe].animal = cmd[c].animal
    BY DEF Book!IsWritten, Lines, LineOf
  <1>2. ASSUME NEW d \in swipes, SamePair(c, d) PROVE Book!IsWritten(c)
    <2>1. LineOf(d) \in Lines /\ LineOf(d).swipe = d
      BY DEF Lines, LineOf
    <2>2. QED BY <1>1, <1>2, <2>1 DEF SamePair
  <1>3. ASSUME NEW l \in Lines, cmd[l.swipe].actor = cmd[c].actor, cmd[l.swipe].animal = cmd[c].animal
        PROVE  ~ SwipeIsNew(c)
    <2>1. PICK d \in swipes : l = LineOf(d)
      BY DEF Lines
    <2>2. l.swipe = d
      BY <2>1 DEF LineOf
    <2>3. QED BY <1>3, <2>2 DEF SwipeIsNew, SamePair
  <1>4. QED BY <1>1, <1>2, <1>3 DEF SwipeIsNew

\* The mapped tables of a step that writes none of the book's tables.
LEMMA BookUntouched ==
    ASSUME UNCHANGED <<swipes, matches, conversation, idempotency>>
    PROVE  Lines' = Lines /\ idempotency' = idempotency
  BY DEF Lines, LineOf

\* The mapped outcome of a call that returns.
LEMMA BookReturn ==
    ASSUME TypeOK, NEW c \in Calls, NEW phase \in Phases \ {"new", "writing"}, NEW swipe,
           Return(c, phase, swipe), call[c] \in {"new", "writing"}
    PROVE  /\ Outcome[c] = "open"
           /\ Outcome' = [Outcome EXCEPT ![c] = phase]
           /\ returned' = [returned EXCEPT ![c] = swipe]
           /\ cmd' = cmd
  BY DEF Return, Outcome, TypeOK

\* A step of Matching is a step of the book, or one it does not show.
LEMMA BookStep == IInv /\ NothingAhead /\ [Next]_vars => [Book!Next]_(Book!vars)
  <1>. SUFFICES ASSUME IInv, NothingAhead, [Next]_vars PROVE [Book!Next]_(Book!vars)
    OBVIOUS
  <1>0. TypeOK
    BY DEF IInv
  <1>1. ASSUME NEW c \in Calls, RecordSwipe(c) PROVE Book!Call(c) \/ UNCHANGED Book!vars
    <2>1. CASE StartSwipe(c)
      <3>1. Outcome' = Outcome
        BY <1>0, <2>1 DEF StartSwipe, Return, TypeOK, Outcome
      <3>2. returned' = returned /\ cmd' = cmd
        BY <1>0, <2>1 DEF StartSwipe, Return, TypeOK, NothingAhead
      <3>3. Lines' = Lines /\ idempotency' = idempotency
        BY <2>1, BookUntouched DEF StartSwipe
      <3>4. QED BY <3>1, <3>2, <3>3 DEF Book!vars, Outcome, Lines, LineOf
    <2>2. CASE CommitSwipe(c)
      <3>1. /\ ~ Book!IsWritten(c)
            /\ idempotency[cmd[c].key] = None
            /\ idempotency' = [idempotency EXCEPT ![cmd[c].key] = c]
        BY <2>2, BookLines DEF CommitSwipe, KeyIsNew
      <3>2. Lines' = Lines \cup {Book!NewLine(c)}
        <4>1. c \notin swipes /\ matches[c] = "none" /\ conversation[c] = None
          BY <2>2 DEF CommitSwipe, IInv, RowsComeFromCommits, MatchIffRightSwipe, NothingAhead
        <4>2. swipes' = swipes \cup {c} /\ conversation' = conversation
          BY <2>2 DEF CommitSwipe
        <4>3. LineOf(c)' = Book!NewLine(c)
          BY <1>0, <2>2, <4>1, <4>2, CommitEffect DEF LineOf, Book!NewLine, RightSwipe
        <4>4. \A d \in swipes : LineOf(d)' = LineOf(d)
          BY <1>0, <2>2, <4>1, <4>2, CommitEffect DEF LineOf, TypeOK
        <4>5. QED BY <4>2, <4>3, <4>4 DEF Lines
      <3>3. \/ Return(c, "ok", c)
            \/ Return(c, "failed", None)
        BY <2>2 DEF CommitSwipe
      <3>4. call[c] = "writing"
        BY <2>2 DEF CommitSwipe
      <3>5. QED
        BY <1>0, <3>1, <3>2, <3>3, <3>4, BookReturn
        DEF Book!Call, Book!Record, Book!End, Outcome, Lines, LineOf
    <2>3. CASE ReplaySwipe(c) \/ RejectUnavailable(c) \/ RejectDuplicate(c)
                 \/ RejectConflict(c) \/ AbortSwipe(c)
      <3>1. Lines' = Lines /\ idempotency' = idempotency
        BY <2>3, BookUntouched
        DEF ReplaySwipe, RejectUnavailable, RejectDuplicate, RejectConflict, AbortSwipe
      <3>2. call[c] \in {"new", "writing"}
        BY <2>3
        DEF ReplaySwipe, RejectUnavailable, RejectDuplicate, RejectConflict, AbortSwipe
      <3>3. ASSUME NEW phase \in Phases \ {"new", "writing"}, NEW swipe, Return(c, phase, swipe)
            PROVE  /\ Outcome[c] = "open"
                   /\ Book!End(c, phase, swipe)
                   /\ cmd' = cmd
        BY <1>0, <3>2, <3>3, BookReturn DEF Book!End, Outcome
      <3>4. Book!Replay(c) \/ Book!Refuse(c) \/ Book!Fail(c)
        <4>1. CASE ReplaySwipe(c)
          <5>1. Return(c, "replayed", idempotency[cmd[c].key]) /\ idempotency[cmd[c].key] # None
            BY <4>1 DEF ReplaySwipe
          <5>2. Book!End(c, "replayed", idempotency[cmd[c].key])
            BY <1>0, <3>2, <5>1 DEF Book!End, Return, TypeOK
          <5>3. QED BY <5>1, <5>2 DEF Book!Replay
        <4>2. CASE RejectUnavailable(c)
          BY <3>3, <4>2 DEF RejectUnavailable, Book!Refuse
        <4>3. CASE RejectDuplicate(c)
          BY <3>3, <4>3, BookLines DEF RejectDuplicate, Book!Refuse
        <4>4. CASE RejectConflict(c)
          BY <3>3, <4>4, BookLines DEF RejectConflict, KeyIsNew, Book!Refuse
        <4>5. CASE AbortSwipe(c)
          BY <3>3, <4>5 DEF AbortSwipe, Book!Fail
        <4>6. QED BY <2>3, <4>1, <4>2, <4>3, <4>4, <4>5
      <3>5. Outcome[c] = "open" /\ cmd' = cmd
        BY <2>3, <3>3
        DEF ReplaySwipe, RejectUnavailable, RejectDuplicate, RejectConflict, AbortSwipe
      <3>6. QED BY <3>1, <3>4, <3>5 DEF Book!Call, Outcome, Lines, LineOf
    <2>4. QED BY <1>1, <2>1, <2>2, <2>3 DEF RecordSwipe
  <1>2. ASSUME NEW a \in Animals, HandleAnimalEvent(a)
        PROVE  Book!CloseMatches(a) \/ UNCHANGED Book!vars
    <2>1. ASSUME ArchiveActive(a) PROVE Book!CloseMatches(a)
      <3>1. /\ UNCHANGED <<cmd, call, returned, swipes, conversation, idempotency>>
            /\ \A c \in Calls : matches'[c] =
                 IF matches[c] = "active" /\ cmd[c].animal = a THEN "archived" ELSE matches[c]
        BY <2>1 DEF ArchiveActive, ActiveOn
      <3>2. \A c \in swipes :
              LineOf(c)' = IF cmd[c].animal = a THEN Book!Closed(LineOf(c)) ELSE LineOf(c)
        BY <1>0, <3>1 DEF LineOf, Book!Closed, TypeOK
      <3>3. \A c : LineOf(c).swipe = c
        BY DEF LineOf
      <3>4. Lines' = {IF cmd[l.swipe].animal = a THEN Book!Closed(l) ELSE l : l \in Lines}
        BY <3>1, <3>2, <3>3 DEF Lines
      <3>5. Outcome' = Outcome
        BY <3>1 DEF Outcome
      <3>6. QED
        BY <3>1, <3>4, <3>5 DEF Book!CloseMatches, Outcome, Lines, LineOf
    <2>2. CASE ArchiveMatchesByAnimal(a) \/ HandleAnimalArchived(a)
      BY <2>1, <2>2 DEF ArchiveMatchesByAnimal, HandleAnimalArchived
    <2>3. CASE \/ \E avail \in BOOLEAN : HandleAnimalStatusChanged(a, avail)
               \/ StatusHandlerFails(a)
      <3>1. UNCHANGED <<cmd, call, returned, swipes, matches, conversation, idempotency>>
        BY <2>3 DEF HandleAnimalStatusChanged, StatusHandlerFails
      <3>2. QED BY <3>1, BookUntouched DEF Book!vars, Lines, LineOf
    <2>4. QED BY <1>2, <2>2, <2>3 DEF HandleAnimalEvent
  <1>3. ASSUME NEW m \in Calls, NEW conv \in Conversations, UpdateMatchConversation(m, conv)
        PROVE  \E l \in Lines : Book!NameConversation(l, conv)
    <2>1. /\ UNCHANGED <<cmd, call, returned, swipes, matches, idempotency>>
          /\ matches[m] # "none"
          /\ conversation[m] \in {None, conv}
          /\ \A c \in Calls : conversation'[c] = IF c = m THEN conv ELSE conversation[c]
      BY <1>0, <1>3 DEF UpdateMatchConversation, TypeOK
    <2>2. m \in swipes /\ LineOf(m) \in Lines
      BY <2>1 DEF IInv, MatchIffRightSwipe, Lines
    <2>3. LineOf(m)' = [LineOf(m) EXCEPT !.conversation = conv]
      BY <2>1 DEF LineOf
    <2>4. \A c \in swipes : c # m => LineOf(c)' = LineOf(c) /\ LineOf(c) # LineOf(m)
      BY <1>0, <2>1 DEF LineOf, TypeOK
    <2>5. Lines' = (Lines \ {LineOf(m)}) \cup {[LineOf(m) EXCEPT !.conversation = conv]}
      BY <2>1, <2>2, <2>3, <2>4 DEF Lines
    <2>6. Book!NameConversation(LineOf(m), conv)
      BY <2>1, <2>5 DEF Book!NameConversation, Outcome, Lines, LineOf
    <2>7. QED BY <2>2, <2>6
  <1>4. CASE UNCHANGED vars
    BY <1>4 DEF vars, Book!vars
  <1>5. QED
    BY <1>1, <1>2, <1>3, <1>4 DEF Next, Book!Next, Lines, LineOf

\* For its callers RecordSwipe is a book in which every call takes effect at one
\* moment or not at all, for any number of calls and whatever fails between the
\* snapshot and the commit, and in which only the topic handlers change a line.
THEOREM SpecImplementsSwipeBook == Spec => ImplementsSwipeBook
  <1>1. Init => Book!Init
    BY DEF Init, Book!Init, Commands
  <1>2. QED BY <1>1, BookStep, InductiveInvariant, NothingAheadHolds, PTL
        DEF Spec, ImplementsSwipeBook, Book!Spec
=============================================================================
