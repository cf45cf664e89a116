----------------------------- MODULE SwipeBook -----------------------------
(***************************************************************************)
(* What RecordSwipe promises its callers: a book with one line for each    *)
(* adopter and animal, and one for each idempotency key, in which every    *)
(* call takes effect at one moment or not at all.                          *)
(*                                                                         *)
(* A line is never written over.  A match is a state of its line, opened   *)
(* with a right swipe and closed once, by whatever ends the animal's       *)
(* availability.  Which animals are available is not in the book, so a     *)
(* call without a line of its key may be refused for that at any time.     *)
(***************************************************************************)
CONSTANTS Calls, Actors, Animals, Keys, Conversations, None

VARIABLES
    cmd,            \* [Calls -> the request a call carries]
    outcome,        \* [Calls -> what became of it]
    given,          \* [Calls -> the swipe its caller was given, or None]
    lines,          \* the book: one line for each swipe recorded
    keyLines        \* [Keys -> the swipe recorded with the key, or None]

vars == <<cmd, outcome, given, lines, keyLines>>

Init ==
    /\ cmd \in [Calls -> [actor: Actors, animal: Animals, direction: {"left", "right"}, key: Keys]]
    /\ outcome = [c \in Calls |-> "open"]
    /\ given = [c \in Calls |-> None]
    /\ lines = {}
    /\ keyLines = [k \in Keys |-> None]

IsWritten(c) ==
    \E l \in lines : cmd[l.swipe].actor = cmd[c].actor /\ cmd[l.swipe].animal = cmd[c].animal

NewLine(c) ==
    [swipe |-> c,
     match |-> IF cmd[c].direction = "right" THEN "active" ELSE "none",
     conversation |-> None]

\* A call ends once, with what it has of the book at that moment.
End(c, end, swipe) ==
    /\ outcome' = [outcome EXCEPT ![c] = end]
    /\ given' = [given EXCEPT ![c] = swipe]

\* The caller is told, or the reply is lost.
Record(c) ==
    /\ ~ IsWritten(c)
    /\ keyLines[cmd[c].key] = None
    /\ End(c, "ok", c) \/ End(c, "failed", None)
    /\ lines' = lines \cup {NewLine(c)}
    /\ keyLines' = [keyLines EXCEPT ![cmd[c].key] = c]

Replay(c) ==
    /\ keyLines[cmd[c].key] # None
    /\ End(c, "replayed", keyLines[cmd[c].key])

Refuse(c) ==
    \/ End(c, "unavailable", None) /\ keyLines[cmd[c].key] = None
    \/ End(c, "duplicate", None) /\ IsWritten(c)
    \/ End(c, "conflict", None) /\ ~ IsWritten(c) /\ keyLines[cmd[c].key] # None

Fail(c) == End(c, "failed", None)

Call(c) ==
    /\ outcome[c] = "open"
    /\ \/ Record(c)
       \/ (Replay(c) \/ Refuse(c) \/ Fail(c)) /\ UNCHANGED <<lines, keyLines>>
    /\ UNCHANGED cmd

Closed(l) == IF l.match = "active" THEN [l EXCEPT !.match = "archived"] ELSE l

CloseMatches(a) ==
    /\ lines' = {IF cmd[l.swipe].animal = a THEN Closed(l) ELSE l : l \in lines}
    /\ UNCHANGED <<cmd, outcome, given, keyLines>>

NameConversation(l, conv) ==
    /\ l.match # "none"
    /\ l.conversation \in {None, conv}
    /\ lines' = (lines \ {l}) \cup {[l EXCEPT !.conversation = conv]}
    /\ UNCHANGED <<cmd, outcome, given, keyLines>>

Next ==
    \/ \E c \in Calls : Call(c)
    \/ \E a \in Animals : CloseMatches(a)
    \/ \E l \in lines, conv \in Conversations : NameConversation(l, conv)

Spec == Init /\ [][Next]_vars
=============================================================================
