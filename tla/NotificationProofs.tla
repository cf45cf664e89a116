------------------------- MODULE NotificationProofs -------------------------
(* Theorems about Notification, for any replicas, callers, notes and faults. *)
EXTENDS Notification, TLAPS

USE NotesAssumption, BoundsAssumption, NoneAssumption, WorkersAssumption

\* Stages of a creator that has still to publish an event of the kind.
Before(k) ==
    CASE k = "requested" -> {"requesting"}
      [] k = "delivered" -> {"requesting", "updating", "delivering"}
      [] k = "failed" -> {"requesting", "refusing"}

\* What one note's row, events and creator say of each other.
NoteOK(n) ==
    /\ \A w, x \in CreatorsOf(n) : w = x
    /\ status[n] = "none" =>
        /\ CreatorsOf(n) = {}
        /\ \A k \in Kinds : announced[k][n] = 0
        /\ n \notin hasRead \cup channels \cup cutShort
    /\ n \notin channels => status[n] \in {"none", "failed", "read"}
    /\ \A w \in CreatorsOf(n) :
        /\ stage[w] # "requesting" => announced["requested"][n] > 0
        /\ stage[w] \in {"updating", "delivering"} => n \in channels
        /\ stage[w] = "refusing" => n \notin channels
        /\ stage[w] = "delivering" => status[n] \in {"delivered", "read"}
        /\ \A k \in Kinds : stage[w] \in Before(k) => announced[k][n] <= faults
        /\ n \in hasRead => n \in readEarly
    /\ \A k \in Kinds : announced[k][n] <= 1 + faults
    /\ announced["delivered"][n] > 0 =>
        /\ announced["requested"][n] > 0
        /\ n \in channels
        /\ status[n] \in {"delivered", "read"}
    /\ announced["failed"][n] > 0 => announced["requested"][n] > 0 /\ n \notin channels
    /\ n \in hasRead => status[n] = "read" \/ n \in readEarly
    /\ status[n] # "none" => Settled(n)

NotesOK == \A n \in Notes : NoteOK(n)

\* Every note of the message has a row, unless its handler reported an error.
Dealt(k) == k \in failed \/ \A n \in Notes : From[n] = k => status[n] # "none"

\* Offsets that are committed, wait for the commit or lie behind the reader
\* were dealt with, but for the message the reader is at.
OffsetsOK ==
    /\ \A w \in Callers : message[w] = 0
    /\ \A c \in Consumers : stage[c] # "idle" => message[c] > 0
    /\ \A w \in Workers, n \in Notes :
        stage[w] # "idle" /\ message[w] > 0 /\ From[n] = message[w] =>
            n \in todo[w] \/ note[w] = n \/ status[n] # "none"
    /\ \A k \in 1..committed : Dealt(k)
    /\ \A c \in Consumers : \A k \in 1..marked[c] : Dealt(k)
    /\ \A w \in Workers : stage[w] # "idle" => \A k \in 1..message[w] : k # message[w] => Dealt(k)
    /\ owner # None =>
        \A k \in 1..position : Dealt(k) \/ (stage[owner] # "idle" /\ message[owner] = k)

IInv == TypeOK /\ NotesOK /\ OffsetsOK

LEMMA InitIInv == Init => IInv
<1> SUFFICES ASSUME Init PROVE IInv
    OBVIOUS
<1>1. TypeOK
    BY DEF Init, TypeOK, Stages, Statuses, Kinds, Workers
<1>2. NotesOK
    BY DEF Init, NotesOK, NoteOK, CreatorsOf, Creating, Kinds, Workers
<1>3. OffsetsOK
    BY DEF Init, OffsetsOK, Dealt, Workers
<1> QED BY <1>1, <1>2, <1>3 DEF IInv

-----------------------------------------------------------------------------
(* Types.                                                                  *)

\* What a broken off call leaves of the types.
LEMMA BreakOffTypes ==
    ASSUME TypeOK, NEW w \in Workers, BreakOff(w)
    PROVE  /\ stage' \in [Workers -> Stages]
           /\ message' \in [Workers -> 0..written]
           /\ todo' \in [Workers -> SUBSET Notes]
           /\ note' \in [Workers -> Notes \cup {None}]
           /\ status' \in [Notes -> Statuses]
           /\ hasRead' \subseteq Notes /\ channels' \subseteq Notes /\ cutShort' \subseteq Notes
           /\ announced' \in [Kinds -> [Notes -> Nat]]
           /\ faults' \in Nat /\ faults' + moves <= MaxTroubles
           /\ \A x \in Workers : stage'[x] \in {"idle", "looking"} <=> note'[x] = None
<1> USE DEF TypeOK, BreakOff, Leave, GoTo, Stages, Statuses
<1>1. stage[w] \in {"inserting", "updating"} \cup {"requesting", "delivering", "refusing"} => note[w] \in Notes
    OBVIOUS
<1>2. CASE UNCHANGED <<rows, announced>>
    BY <1>1, <1>2 DEF rows, Fault, Creating
<1>3. CASE /\ stage[w] = "inserting"
           /\ \E granted \in BOOLEAN : Row(note[w], granted)
           /\ UNCHANGED announced
    BY <1>1, <1>3 DEF Row, Fault, Creating
<1>4. CASE /\ stage[w] = "updating"
           /\ status' = [status EXCEPT ![note[w]] = "delivered"]
           /\ UNCHANGED <<hasRead, channels, announced>>
    BY <1>1, <1>4 DEF Fault, Creating
<1>5. ASSUME NEW k \in Publishing(w), Announce(k, note[w]), UNCHANGED rows
      PROVE  /\ announced' \in [Kinds -> [Notes -> Nat]]
             /\ UNCHANGED <<status, hasRead, channels>>
             /\ note[w] \in Notes
    BY <1>1, <1>5 DEF Announce, rows, Publishing, Kinds
<1>6. CASE (\E k \in Publishing(w) : Announce(k, note[w])) /\ UNCHANGED rows
    BY <1>5, <1>6 DEF Fault, Creating
<1> QED BY <1>2, <1>3, <1>4, <1>6 DEF LostReply

LEMMA TypePreserved == TypeOK /\ [Next]_vars => TypeOK'
<1> SUFFICES ASSUME TypeOK, [Next]_vars PROVE TypeOK'
    OBVIOUS
<1> USE DEF TypeOK, GoTo, topic, work, rows, history
<1>0. ASSUME NEW w \in Workers PROVE failed \cup ({message[w]} \ {0}) \subseteq 1..written
  <2>1. message[w] \in 0..written /\ written \in Nat
    OBVIOUS
  <2>2. message[w] # 0 => message[w] \in 1..written
    BY <2>1
  <2> QED BY <2>2
<1>1. CASE Write
    BY <1>1 DEF Write
<1>2. ASSUME NEW c \in Consumers, Join(c) \/ Rebalance(c) PROVE TypeOK'
  <2>1. CASE Join(c)
    BY <2>1 DEF Join, StartAtCommitted
  <2>2. CASE Rebalance(c)
    BY <2>2 DEF Rebalance, StartAtCommitted
  <2> QED BY <1>2, <2>1, <2>2
<1>3. ASSUME NEW c \in Consumers, FetchMessage(c) PROVE TypeOK'
    BY <1>3 DEF FetchMessage, Workers, Due, Stages
<1>4. ASSUME NEW c \in Consumers, Commit(c) PROVE TypeOK'
    BY <1>4 DEF Commit
<1>5. ASSUME NEW c \in Consumers, Crash(c) PROVE TypeOK'
  <2>1. c \in Workers
    BY DEF Workers
  <2> QED BY <1>5, <2>1, BreakOffTypes DEF Crash
<1>6. ASSUME NEW w \in Workers, Fail(w) PROVE TypeOK'
  <2>1. failed' \subseteq 1..written
    BY <1>6, <1>0 DEF Fail
  <2> QED BY <1>6, <2>1, BreakOffTypes DEF Fail
<1>7. ASSUME NEW w \in Callers, NEW n \in Asked, Call(w, n) PROVE TypeOK'
    BY <1>7 DEF Call, Workers, Stages
<1>8. ASSUME NEW w \in Workers, NEW n \in Notes, Find(w, n) PROVE TypeOK'
  <2>1. CASE status[n] = "none"
    <3>1. /\ todo' = [todo EXCEPT ![w] = @ \ {n}]
          /\ note' = [note EXCEPT ![w] = n]
          /\ stage' = [stage EXCEPT ![w] = "inserting"]
          /\ UNCHANGED <<topic, message, rows, announced, faults, history>>
      BY <1>8, <2>1 DEF Find
    <3>2. todo' \in [Workers -> SUBSET Notes] /\ note' \in [Workers -> Notes \cup {None}]
      BY <3>1
    <3>3. /\ stage' \in [Workers -> Stages]
          /\ \A x \in Workers : stage'[x] \in {"idle", "looking"} <=> note'[x] = None
      BY <3>1 DEF Stages
    <3> QED BY <3>1, <3>2, <3>3
  <2>2. CASE status[n] # "none"
    BY <1>8, <2>2 DEF Find, Stages
  <2> QED BY <2>1, <2>2
<1>9. ASSUME NEW w \in Workers, NEW granted \in BOOLEAN, Insert(w, granted) PROVE TypeOK'
    BY <1>9 DEF Insert, Row, Stages, Statuses
<1>10. ASSUME NEW w \in Workers, Conflict(w) PROVE TypeOK'
  <2>1. failed' \subseteq 1..written
    BY <1>10, <1>0 DEF Conflict
  <2> QED BY <1>10, <2>1 DEF Conflict, Leave, Stages
<1>11. ASSUME NEW w \in Workers, NEW k \in Kinds, note[w] \in Notes, Announce(k, note[w])
       PROVE  announced' \in [Kinds -> [Notes -> Nat]]
    BY <1>11 DEF Announce
<1>12. ASSUME NEW w \in Workers, PublishRequested(w) PROVE TypeOK'
  <2>1. announced' \in [Kinds -> [Notes -> Nat]]
    BY <1>11, <1>12 DEF PublishRequested, Kinds
  <2> QED BY <1>12, <2>1 DEF PublishRequested, Stages
<1>13. ASSUME NEW w \in Workers, UpdateNotificationStatus(w) PROVE TypeOK'
    BY <1>13 DEF UpdateNotificationStatus, Stages, Statuses
<1>14. ASSUME NEW w \in Workers, PublishDelivered(w) PROVE TypeOK'
  <2>1. announced' \in [Kinds -> [Notes -> Nat]]
    BY <1>11, <1>14 DEF PublishDelivered, Kinds
  <2> QED BY <1>14, <2>1 DEF PublishDelivered, Stages
<1>15. ASSUME NEW w \in Workers, PublishFailed(w) PROVE TypeOK'
  <2>1. announced' \in [Kinds -> [Notes -> Nat]]
    BY <1>11, <1>15 DEF PublishFailed, Kinds
  <2> QED BY <1>15, <2>1 DEF PublishFailed, Stages
<1>16. ASSUME NEW w \in Workers, Succeed(w) PROVE TypeOK'
  <2>1. marked' \in [Consumers -> 0..written]
    BY <1>16 DEF Succeed
  <2> QED BY <1>16, <2>1 DEF Succeed, Leave, Stages
<1>20. ASSUME NEW c \in Consumers, Skip(c) PROVE TypeOK'
  <2>0. c \in Workers
    BY DEF Workers
  <2>1. message[c] \in 1..written
    BY <1>20, <2>0, RefusedAssumption DEF Skip
  <2>2. marked' \in [Consumers -> 0..written] /\ failed' \subseteq 1..written
    <3>1. message[c] \in 0..written
      BY <2>1
    <3> QED BY <1>20, <2>1, <3>1 DEF Skip
  <2> QED BY <1>20, <2>0, <2>2 DEF Skip, Leave, Stages
<1>17. ASSUME NEW w \in Workers, RepeatWrite(w) PROVE TypeOK'
  <2>1. announced' \in [Kinds -> [Notes -> Nat]]
    BY <1>11, <1>17 DEF RepeatWrite, Publishing, Kinds
  <2> QED BY <1>17, <2>1 DEF RepeatWrite, Fault
<1>18. ASSUME NEW n \in Notes, MarkNotificationRead(n) PROVE TypeOK'
    BY <1>18 DEF MarkNotificationRead, Statuses
<1>19. CASE UNCHANGED vars
    BY <1>19 DEF vars
<1> QED
    BY <1>1, <1>2, <1>3, <1>4, <1>5, <1>6, <1>7, <1>8, <1>9, <1>10, <1>12, <1>13, <1>14,
       <1>15, <1>16, <1>17, <1>18, <1>19, <1>20 DEF Next, Create

-----------------------------------------------------------------------------
(* One note.                                                               *)

IsCreator(w, n) == note[w] = n /\ stage[w] \in Creating

\* A note that a step does not touch stays right, also when a failure somewhere
\* else is counted.
LEMMA NoteFrame ==
    ASSUME NEW n \in Notes, NoteOK(n), faults \in Nat, faults' \in Nat, faults <= faults',
           announced \in [Kinds -> [Notes -> Nat]],
           status'[n] = status[n],
           n \in hasRead' <=> n \in hasRead, n \in channels' <=> n \in channels,
           n \in cutShort' <=> n \in cutShort, n \in readEarly => n \in readEarly',
           \A k \in Kinds : announced'[k][n] = announced[k][n],
           \A w \in Workers : IsCreator(w, n)' <=> IsCreator(w, n),
           \A w \in Workers : IsCreator(w, n) => stage'[w] = stage[w]
    PROVE  NoteOK(n)'
<1>1. CreatorsOf(n)' = CreatorsOf(n)
  <2>1. CreatorsOf(n) = {w \in Workers : IsCreator(w, n)}
    BY DEF CreatorsOf, IsCreator
  <2>2. CreatorsOf(n)' = {w \in Workers : IsCreator(w, n)'}
    BY DEF CreatorsOf, IsCreator
  <2> QED BY <2>1, <2>2
<1>2. \A w \in CreatorsOf(n) : stage'[w] = stage[w]
  BY DEF CreatorsOf, IsCreator
<1>3. Settled(n) => Settled(n)'
  BY <1>1 DEF Settled, Kinds
<1>4. \A k \in Kinds : announced[k][n] \in Nat
  OBVIOUS
<1> QED BY <1>1, <1>2, <1>3, <1>4 DEF NoteOK, Kinds

\* Steps of the topic and its readers, and what a worker does before it has
\* inserted a row or after it has announced one.
LEMMA NotesKept ==
    ASSUME TypeOK, NotesOK, UNCHANGED <<rows, announced, cutShort, readEarly>>,
           faults' \in Nat, faults <= faults',
           \A w \in Workers, n \in Notes : IsCreator(w, n)' <=> IsCreator(w, n),
           \A w \in Workers, n \in Notes : IsCreator(w, n) => stage'[w] = stage[w]
    PROVE  NotesOK'
<1> SUFFICES ASSUME NEW n \in Notes PROVE NoteOK(n)'
    BY DEF NotesOK
<1>1. NoteOK(n) /\ faults \in Nat /\ announced \in [Kinds -> [Notes -> Nat]]
    BY DEF NotesOK, TypeOK
<1> QED BY <1>1, NoteFrame DEF rows

\* What the types say of a creator.
LEMMA CreatorTypes ==
    ASSUME TypeOK, NEW w \in Workers, stage[w] \in Creating
    PROVE  note[w] \in Notes /\ w \in CreatorsOf(note[w]) /\ status[note[w]] \in Statuses
BY DEF TypeOK, Creating, CreatorsOf

\* A step of one worker touches no note but its own.
LEMMA OthersKept ==
    ASSUME TypeOK, NotesOK, NEW w \in Workers, NEW m \in Notes, note[w] = m,
           faults' \in Nat, faults <= faults',
           \A n \in Notes \ {m} :
               /\ status'[n] = status[n]
               /\ n \in hasRead' <=> n \in hasRead
               /\ n \in channels' <=> n \in channels
               /\ n \in cutShort' <=> n \in cutShort
               /\ n \in readEarly' <=> n \in readEarly
               /\ \A k \in Kinds : announced'[k][n] = announced[k][n],
           \A x \in Workers \ {w} : stage'[x] = stage[x] /\ note'[x] = note[x],
           note'[w] = m \/ note'[w] = None,
           NoteOK(m)'
    PROVE  NotesOK'
<1> SUFFICES ASSUME NEW n \in Notes \ {m} PROVE NoteOK(n)'
    BY DEF NotesOK
<1>1. NoteOK(n) /\ faults \in Nat /\ announced \in [Kinds -> [Notes -> Nat]]
    BY DEF NotesOK, TypeOK
<1>2. \A x \in Workers : (IsCreator(x, n)' <=> IsCreator(x, n)) /\ (IsCreator(x, n) => stage'[x] = stage[x])
    BY DEF IsCreator
<1> QED BY <1>1, <1>2, NoteFrame

\* The creators of a note after a step of its only creator.
LEMMA CreatorsAfter ==
    ASSUME TypeOK, NEW w \in Workers, NEW m \in Notes, note[w] = m,
           \A x \in CreatorsOf(m) : x = w,
           \A x \in Workers \ {w} : stage'[x] = stage[x] /\ note'[x] = note[x]
    PROVE  CreatorsOf(m)' = IF note'[w] = m /\ stage'[w] \in Creating THEN {w} ELSE {}
BY DEF CreatorsOf

LEMMA InsertKeeps ==
    ASSUME TypeOK, NotesOK, NEW w \in Workers, NEW m, note[w] = m, NEW granted \in BOOLEAN, Insert(w, granted)
    PROVE  NotesOK'
<1> USE DEF topic, work, rows, history, GoTo
<1>1. m \in Notes /\ stage[w] = "inserting" /\ status[m] = "none" /\ NoteOK(m)
    BY DEF Insert, Row, TypeOK, NotesOK
<1>2. /\ stage' = [stage EXCEPT ![w] = "requesting"]
      /\ status' = [status EXCEPT ![m] = IF granted THEN "pending" ELSE "failed"]
      /\ channels' = IF granted THEN channels \cup {m} ELSE channels
      /\ UNCHANGED <<note, hasRead, announced, faults, cutShort, readEarly>>
    BY DEF Insert, Row
<1>3. stage'[w] = "requesting" /\ status'[m] = (IF granted THEN "pending" ELSE "failed")
    BY <1>1, <1>2 DEF TypeOK
<1>4. CreatorsOf(m)' = {w}
  <2>1. \A x \in Workers \ {w} : stage'[x] = stage[x] /\ note'[x] = note[x]
    BY <1>2 DEF TypeOK
  <2>2. \A x \in CreatorsOf(m) : x = w
    BY <1>1 DEF NoteOK
  <2> QED BY <1>1, <1>2, <1>3, <2>1, <2>2, CreatorsAfter DEF Creating
<1>5. m \notin hasRead \cup channels \cup cutShort /\ \A k \in Kinds : announced[k][m] = 0
    BY <1>1 DEF NoteOK
<1>6. NoteOK(m)'
  <2>1. faults \in Nat
    BY DEF TypeOK
  <2>2. \A k \in Kinds : announced'[k][m] = 0
    BY <1>2, <1>5
  <2>3. m \notin hasRead' /\ (m \in channels' <=> granted)
    BY <1>2, <1>5
  <2> QED BY <1>2, <1>3, <1>4, <2>1, <2>2, <2>3 DEF NoteOK, Settled, Kinds
<1>7. \A n \in Notes \ {m} : status'[n] = status[n] /\ (n \in channels' <=> n \in channels)
    BY <1>2 DEF TypeOK
<1>8. \A x \in Workers \ {w} : stage'[x] = stage[x] /\ note'[x] = note[x]
    BY <1>2 DEF TypeOK
<1> QED
  <2>1. faults \in Nat
    BY DEF TypeOK
  <2> QED BY <1>1, <1>2, <1>6, <1>7, <1>8, <2>1, OthersKept

\* A creator publishes what it has to, and its note is right again.
LEMMA PublishKeeps ==
    ASSUME TypeOK, NotesOK, NEW w \in Workers, NEW m, note[w] = m,
           PublishRequested(w) \/ PublishDelivered(w) \/ PublishFailed(w)
    PROVE  NotesOK'
<1> USE DEF topic, work, rows, history, GoTo
<1>1. stage[w] \in Creating /\ m \in Notes /\ NoteOK(m) /\ w \in CreatorsOf(m) /\ status[m] # "none"
  <2>1. stage[w] \in Creating
    BY DEF PublishRequested, PublishDelivered, PublishFailed, Creating
  <2> QED BY <2>1, CreatorTypes DEF NotesOK, NoteOK
<1>2. UNCHANGED <<status, hasRead, channels, faults, cutShort, readEarly>>
    BY DEF PublishRequested, PublishDelivered, PublishFailed
<1>3. \A x \in Workers \ {w} : stage'[x] = stage[x] /\ note'[x] = note[x]
    BY DEF PublishRequested, PublishDelivered, PublishFailed, TypeOK
<1>4. \A k \in Kinds, n \in Notes \ {m} : announced'[k][n] = announced[k][n]
    BY DEF PublishRequested, PublishDelivered, PublishFailed, Announce, TypeOK, Kinds
<1>5. \A x \in CreatorsOf(m) : x = w
    BY <1>1 DEF NoteOK
<1>6. faults \in Nat /\ \A k \in Kinds : announced[k][m] \in Nat
    BY <1>1 DEF TypeOK
<1>7. CASE PublishRequested(w)
  <2>1. /\ announced'["requested"][m] = announced["requested"][m] + 1
        /\ announced'["delivered"][m] = announced["delivered"][m]
        /\ announced'["failed"][m] = announced["failed"][m]
    BY <1>1, <1>7 DEF PublishRequested, Announce, TypeOK, Kinds
  <2>2. stage[w] = "requesting" /\ stage'[w] = (IF m \in channels THEN "updating" ELSE "refusing") /\ note'[w] = m
    BY <1>7 DEF PublishRequested, TypeOK
  <2>3. CreatorsOf(m)' = {w}
    BY <1>1, <1>3, <1>5, <2>2, CreatorsAfter DEF Creating
  <2>4. NoteOK(m)'
    <3> QED BY <1>1, <1>2, <1>6, <2>1, <2>2, <2>3 DEF NoteOK, Settled, Kinds, Before
  <2> QED BY <1>1, <1>2, <1>3, <1>4, <1>6, <2>2, <2>4, OthersKept
<1>8. CASE PublishDelivered(w)
  <2>1. /\ announced'["delivered"][m] = announced["delivered"][m] + 1
        /\ announced'["requested"][m] = announced["requested"][m]
        /\ announced'["failed"][m] = announced["failed"][m]
    BY <1>1, <1>8 DEF PublishDelivered, Announce, TypeOK, Kinds
  <2>2. stage[w] = "delivering" /\ note'[w] = None
    BY <1>8 DEF PublishDelivered, TypeOK
  <2>3. CreatorsOf(m)' = {}
    BY <1>1, <1>3, <1>5, <2>2, CreatorsAfter
  <2>4. NoteOK(m)'
    <3> QED BY <1>1, <1>2, <1>6, <2>1, <2>2, <2>3 DEF NoteOK, Settled, Kinds, Before
  <2> QED BY <1>1, <1>2, <1>3, <1>4, <1>6, <2>2, <2>4, OthersKept
<1>9. CASE PublishFailed(w)
  <2>1. /\ announced'["failed"][m] = announced["failed"][m] + 1
        /\ announced'["requested"][m] = announced["requested"][m]
        /\ announced'["delivered"][m] = announced["delivered"][m]
    BY <1>1, <1>9 DEF PublishFailed, Announce, TypeOK, Kinds
  <2>2. stage[w] = "refusing" /\ note'[w] = None
    BY <1>9 DEF PublishFailed, TypeOK
  <2>3. CreatorsOf(m)' = {}
    BY <1>1, <1>3, <1>5, <2>2, CreatorsAfter
  <2>4. NoteOK(m)'
    <3> QED BY <1>1, <1>2, <1>6, <2>1, <2>2, <2>3 DEF NoteOK, Settled, Kinds, Before
  <2> QED BY <1>1, <1>2, <1>3, <1>4, <1>6, <2>2, <2>4, OthersKept
<1> QED BY <1>7, <1>8, <1>9

LEMMA UpdateKeeps ==
    ASSUME TypeOK, NotesOK, NEW w \in Workers, NEW m, note[w] = m, UpdateNotificationStatus(w)
    PROVE  NotesOK'
<1> USE DEF topic, work, rows, history, GoTo
<1>1. stage[w] = "updating" /\ m \in Notes /\ NoteOK(m) /\ w \in CreatorsOf(m)
  <2>1. stage[w] = "updating" /\ stage[w] \in Creating
    BY DEF UpdateNotificationStatus, Creating
  <2> QED BY <2>1, CreatorTypes DEF NotesOK
<1>2. /\ stage'[w] = "delivering" /\ status'[m] = "delivered"
      /\ UNCHANGED <<note, hasRead, channels, announced, faults, cutShort, readEarly>>
      /\ \A x \in Workers \ {w} : stage'[x] = stage[x]
      /\ \A n \in Notes \ {m} : status'[n] = status[n]
    BY <1>1 DEF UpdateNotificationStatus, TypeOK
<1>3. CreatorsOf(m)' = {w}
  <2>1. \A x \in CreatorsOf(m) : x = w
    BY <1>1 DEF NoteOK
  <2> QED BY <1>1, <1>2, <2>1, CreatorsAfter DEF Creating
<1>4. faults \in Nat
    BY DEF TypeOK
<1>5. NoteOK(m)'
    BY <1>1, <1>2, <1>3, <1>4 DEF NoteOK, Settled, Kinds, Before
<1> QED BY <1>1, <1>2, <1>4, <1>5, OthersKept

LEMMA RepeatKeeps ==
    ASSUME TypeOK, NotesOK, NEW w \in Workers, NEW m, note[w] = m, RepeatWrite(w)
    PROVE  NotesOK'
<1> USE DEF topic, work, rows, history, GoTo
<1>1. PICK k \in Publishing(w) : Announce(k, m)
    BY DEF RepeatWrite
<1>2. /\ UNCHANGED <<stage, note, status, hasRead, channels, cutShort, readEarly>>
      /\ faults \in Nat /\ faults' = faults + 1
    BY DEF RepeatWrite, Fault, TypeOK
<1>3. /\ stage[w] \in Creating /\ k \in Kinds
      /\ stage[w] = IF k = "requested" THEN "requesting" ELSE IF k = "delivered" THEN "delivering" ELSE "refusing"
    BY <1>1 DEF Publishing, Creating, Kinds
<1>4. m \in Notes /\ NoteOK(m) /\ w \in CreatorsOf(m) /\ status[m] # "none"
    BY <1>3, CreatorTypes DEF NotesOK, NoteOK
<1>5. /\ announced'[k][m] = announced[k][m] + 1
      /\ \A j \in Kinds \ {k} : announced'[j][m] = announced[j][m]
      /\ \A j \in Kinds, n \in Notes \ {m} : announced'[j][n] = announced[j][n]
      /\ \A j \in Kinds : announced[j][m] \in Nat
    BY <1>1, <1>3, <1>4 DEF Announce, TypeOK
<1>6. CreatorsOf(m)' = CreatorsOf(m) /\ \A x \in CreatorsOf(m) : x = w
    BY <1>2, <1>4 DEF CreatorsOf, NoteOK
<1>7. NoteOK(m)'
    BY <1>2, <1>3, <1>4, <1>5, <1>6 DEF NoteOK, Settled, Kinds, Before
<1> QED BY <1>2, <1>4, <1>5, <1>7, OthersKept

LEMMA ReadKeeps ==
    ASSUME TypeOK, NotesOK, NEW m \in Notes, MarkNotificationRead(m)
    PROVE  NotesOK'
<1> USE DEF topic, work, rows, history, GoTo
<1>1. /\ status[m] # "none" /\ status'[m] = "read" /\ hasRead' = hasRead \cup {m}
      /\ readEarly' = IF CreatorsOf(m) = {} THEN readEarly ELSE readEarly \cup {m}
      /\ UNCHANGED <<stage, note, channels, announced, faults, cutShort>>
      /\ \A n \in Notes \ {m} : status'[n] = status[n]
    BY DEF MarkNotificationRead, TypeOK
<1>2. faults \in Nat /\ announced \in [Kinds -> [Notes -> Nat]]
    BY DEF TypeOK
<1>3. CreatorsOf(m)' = CreatorsOf(m)
    BY <1>1 DEF CreatorsOf
<1>4. NoteOK(m)'
    BY <1>1, <1>2, <1>3 DEF NotesOK, NoteOK, Settled, Kinds
<1>5. ASSUME NEW n \in Notes \ {m} PROVE NoteOK(n)'
  <2>1. \A x \in Workers : IsCreator(x, n)' <=> IsCreator(x, n)
    BY <1>1 DEF IsCreator
  <2>2. NoteOK(n)
    BY DEF NotesOK
  <2> QED BY <1>1, <1>2, <2>1, <2>2, NoteFrame
<1> QED BY <1>4, <1>5 DEF NotesOK

LEMMA BreakOffKeeps ==
    ASSUME TypeOK, NotesOK, NEW w \in Workers, NEW m, note[w] = m, BreakOff(w), UNCHANGED readEarly
    PROVE  NotesOK'
<1> USE DEF rows, GoTo, Leave
<1>1. /\ stage' = [stage EXCEPT ![w] = "idle"] /\ note' = [note EXCEPT ![w] = None]
      /\ stage'[w] = "idle" /\ note'[w] = None
      /\ \A x \in Workers \ {w} : stage'[x] = stage[x] /\ note'[x] = note[x]
      /\ faults \in Nat /\ faults' = faults + 1
    BY DEF BreakOff, Fault, TypeOK
<1>2. CASE stage[w] \notin Creating /\ stage[w] # "inserting"
  <2>1. UNCHANGED <<rows, announced>>
    BY <1>2 DEF BreakOff, LostReply, Publishing, Creating
  <2>2. cutShort' = cutShort
    BY <1>2, <2>1 DEF BreakOff
  <2>3. \A x \in Workers, n \in Notes :
            (IsCreator(x, n)' <=> IsCreator(x, n)) /\ (IsCreator(x, n) => stage'[x] = stage[x])
    BY <1>1, <1>2 DEF IsCreator, Creating
  <2> QED BY <1>1, <2>1, <2>2, <2>3, NotesKept
<1>3. CASE stage[w] = "inserting" /\ UNCHANGED <<rows, announced>>
  <2>1. cutShort' = cutShort
    BY <1>3 DEF BreakOff, Creating
  <2>2. \A x \in Workers, n \in Notes :
            (IsCreator(x, n)' <=> IsCreator(x, n)) /\ (IsCreator(x, n) => stage'[x] = stage[x])
    BY <1>1, <1>3 DEF IsCreator, Creating
  <2> QED BY <1>1, <1>3, <2>1, <2>2, NotesKept
<1>4. CASE stage[w] = "inserting" /\ ~ UNCHANGED <<rows, announced>>
  <2>1. PICK granted \in BOOLEAN : Row(m, granted) /\ UNCHANGED announced
    BY <1>4 DEF BreakOff, LostReply, Publishing
  <2>2. m \in Notes /\ NoteOK(m)
    BY <1>4 DEF TypeOK, NotesOK
  <2>3. /\ status[m] = "none" /\ status'[m] = (IF granted THEN "pending" ELSE "failed")
        /\ channels' = IF granted THEN channels \cup {m} ELSE channels
        /\ hasRead' = hasRead
        /\ \A n \in Notes \ {m} : status'[n] = status[n]
    BY <2>1, <2>2 DEF Row, TypeOK
  <2>4. cutShort' = cutShort \cup {m}
    BY <2>3 DEF BreakOff
  <2>5. CreatorsOf(m)' = {}
    BY <1>1, <2>2, <2>3, CreatorsAfter DEF NoteOK
  <2>6. NoteOK(m)'
    BY <1>1, <2>1, <2>2, <2>3, <2>4, <2>5 DEF NoteOK, Settled, Kinds
  <2> QED BY <1>1, <2>1, <2>2, <2>3, <2>4, <2>6, OthersKept
<1>5. CASE stage[w] \in Creating
  <2>1. m \in Notes /\ NoteOK(m) /\ w \in CreatorsOf(m) /\ status[m] # "none"
    BY <1>5, CreatorTypes DEF NotesOK, NoteOK
  <2>2. cutShort' = cutShort \cup {m}
    BY <1>5 DEF BreakOff
  <2>3. CreatorsOf(m)' = {}
    BY <1>1, <2>1, CreatorsAfter DEF NoteOK
  <2>0. \A k \in Kinds : announced[k][m] \in Nat
    BY <2>1 DEF TypeOK
  <2>4. CASE UNCHANGED <<rows, announced>>
    <3>1. NoteOK(m)'
      BY <1>1, <2>0, <2>1, <2>2, <2>3, <2>4 DEF NoteOK, Settled, Kinds
    <3> QED BY <1>1, <2>1, <2>2, <2>4, <3>1, OthersKept
  <2>5. CASE stage[w] = "updating" /\ ~ UNCHANGED <<rows, announced>>
    <3>1. /\ status'[m] = "delivered" /\ UNCHANGED <<hasRead, channels, announced>>
          /\ \A n \in Notes \ {m} : status'[n] = status[n]
      BY <2>1, <2>5 DEF BreakOff, LostReply, Publishing, TypeOK
    <3>2. NoteOK(m)'
      BY <1>1, <2>0, <2>1, <2>2, <2>3, <2>5, <3>1 DEF NoteOK, Settled, Kinds
    <3> QED BY <1>1, <2>1, <2>2, <3>1, <3>2, OthersKept
  <2>6. CASE stage[w] # "updating" /\ ~ UNCHANGED <<rows, announced>>
    <3>1. PICK k \in Publishing(w) : Announce(k, m) /\ UNCHANGED rows
      BY <1>5, <2>6 DEF BreakOff, LostReply, Creating
    <3>2. /\ k \in Kinds
          /\ stage[w] = IF k = "requested" THEN "requesting" ELSE IF k = "delivered" THEN "delivering" ELSE "refusing"
      BY <3>1 DEF Publishing, Kinds
    <3>3. /\ announced'[k][m] = announced[k][m] + 1
          /\ \A j \in Kinds \ {k} : announced'[j][m] = announced[j][m]
          /\ \A j \in Kinds, n \in Notes \ {m} : announced'[j][n] = announced[j][n]
          /\ \A j \in Kinds : announced[j][m] \in Nat
      BY <2>1, <3>1, <3>2 DEF Announce, TypeOK
    <3>4. NoteOK(m)'
      BY <1>1, <2>1, <2>2, <2>3, <3>1, <3>2, <3>3 DEF NoteOK, Settled, Kinds, Before
    <3> QED BY <1>1, <2>1, <2>2, <3>1, <3>3, <3>4, OthersKept
  <2> QED BY <2>4, <2>5, <2>6
<1> QED BY <1>2, <1>3, <1>4, <1>5

LEMMA NotesPreserved == TypeOK /\ NotesOK /\ [Next]_vars => NotesOK'
<1> SUFFICES ASSUME TypeOK, NotesOK, [Next]_vars PROVE NotesOK'
    OBVIOUS
<1> USE DEF topic, work, rows, history, GoTo
<1>1. ASSUME UNCHANGED <<work, rows, announced, faults, cutShort, readEarly>> PROVE NotesOK'
    BY <1>1, NotesKept DEF IsCreator, TypeOK
<1>2. ASSUME NEW c \in Consumers, Join(c) \/ Rebalance(c) \/ Commit(c) PROVE NotesOK'
    BY <1>1, <1>2 DEF Join, Rebalance, StartAtCommitted, Commit
<1>3. CASE Write \/ UNCHANGED vars
    BY <1>1, <1>3 DEF Write, vars
<1>4. ASSUME NEW w \in Workers, stage[w] \in {"idle", "looking", "inserting"}, stage'[w] \notin Creating,
             \A x \in Workers \ {w} : stage'[x] = stage[x] /\ note'[x] = note[x],
             UNCHANGED <<rows, announced, faults, cutShort, readEarly>>
      PROVE  NotesOK'
  <2>1. \A x \in Workers, n \in Notes :
            (IsCreator(x, n)' <=> IsCreator(x, n)) /\ (IsCreator(x, n) => stage'[x] = stage[x])
    BY <1>4 DEF IsCreator, Creating
  <2> QED BY <1>4, <2>1, NotesKept DEF TypeOK
<1>5. ASSUME NEW c \in Consumers, FetchMessage(c) PROVE NotesOK'
    BY <1>4, <1>5 DEF FetchMessage, Workers, TypeOK, Creating
<1>6. ASSUME NEW w \in Callers, NEW n \in Asked, Call(w, n) PROVE NotesOK'
    BY <1>4, <1>6 DEF Call, Workers, TypeOK, Creating
<1>7. ASSUME NEW w \in Workers, NEW n \in Notes, Find(w, n) PROVE NotesOK'
    BY <1>4, <1>7 DEF Find, TypeOK, Creating
<1>8. ASSUME NEW w \in Workers, Conflict(w) \/ Succeed(w) \/ Skip(w) PROVE NotesOK'
    BY <1>4, <1>8 DEF Conflict, Succeed, Skip, Leave, TypeOK, Creating
<1>9. ASSUME NEW w \in Workers,
             \/ \E granted \in BOOLEAN : Insert(w, granted)
             \/ PublishRequested(w) \/ UpdateNotificationStatus(w) \/ PublishDelivered(w)
             \/ PublishFailed(w) \/ RepeatWrite(w)
      PROVE  NotesOK'
    BY <1>9, InsertKeeps, PublishKeeps, UpdateKeeps, RepeatKeeps
<1>10. ASSUME NEW w \in Workers, Fail(w) PROVE NotesOK'
    BY <1>10, BreakOffKeeps DEF Fail
<1>11. ASSUME NEW c \in Consumers, Crash(c) PROVE NotesOK'
    BY <1>11, BreakOffKeeps DEF Crash, Workers
<1>12. ASSUME NEW n \in Notes, MarkNotificationRead(n) PROVE NotesOK'
    BY <1>12, ReadKeeps
<1> QED
    BY <1>2, <1>3, <1>5, <1>6, <1>7, <1>8, <1>9, <1>10, <1>11, <1>12 DEF Next, Create
-----------------------------------------------------------------------------
(* The offsets.                                                            *)

\* No row goes away and no error is forgotten: what was dealt with stays so.
LEMMA DealtStays ==
    ASSUME TypeOK, [Next]_vars
    PROVE  /\ \A n \in Notes : status[n] # "none" => status'[n] # "none"
           /\ failed \subseteq failed'
           /\ \A k : Dealt(k) => Dealt(k)'
<1> USE DEF topic, work, rows, history
<1>1. ASSUME NEW w \in Workers, BreakOff(w)
      PROVE  \A n \in Notes : status[n] # "none" => status'[n] # "none"
    BY <1>1 DEF BreakOff, LostReply, Row, TypeOK
<1>2. ASSUME NEW w \in Workers, Create(w)
      PROVE  (\A n \in Notes : status[n] # "none" => status'[n] # "none") /\ failed \subseteq failed'
    BY <1>2 DEF Create, Find, Insert, Row, Conflict, PublishRequested, UpdateNotificationStatus,
                PublishDelivered, PublishFailed, Succeed, Skip, TypeOK
<1>3. ASSUME NEW n \in Notes, MarkNotificationRead(n)
      PROVE  (\A m \in Notes : status[m] # "none" => status'[m] # "none") /\ failed \subseteq failed'
    BY <1>3 DEF MarkNotificationRead, TypeOK
<1>4. /\ \A n \in Notes : status[n] # "none" => status'[n] # "none"
      /\ failed \subseteq failed'
  <2>1. ASSUME NEW c \in Consumers, Join(c) \/ Rebalance(c) \/ FetchMessage(c) \/ Commit(c)
        PROVE  UNCHANGED <<status, failed>>
    BY <2>1 DEF Join, Rebalance, StartAtCommitted, FetchMessage, Commit
  <2>2. ASSUME NEW c \in Consumers, Crash(c) PROVE c \in Workers /\ BreakOff(c) /\ UNCHANGED failed
    BY <2>2 DEF Crash, Workers
  <2>3. ASSUME NEW w \in Workers, Fail(w) PROVE BreakOff(w) /\ failed \subseteq failed'
    BY <2>3 DEF Fail
  <2>4. ASSUME NEW w \in Workers, RepeatWrite(w) PROVE UNCHANGED <<status, failed>>
    BY <2>4 DEF RepeatWrite
  <2>5. ASSUME NEW w \in Callers, NEW n \in Asked, Call(w, n) PROVE UNCHANGED <<status, failed>>
    BY <2>5 DEF Call
  <2>6. CASE Write \/ UNCHANGED vars
    BY <2>6 DEF Write, vars
  <2> QED BY <1>1, <1>2, <1>3, <2>1, <2>2, <2>3, <2>4, <2>5, <2>6 DEF Next
<1> QED BY <1>4 DEF Dealt

\* A step that leaves the topic alone and ends no handler.
LEMMA OffsetsKept ==
    ASSUME TypeOK, OffsetsOK, UNCHANGED <<topic, message>>, \A k : Dealt(k) => Dealt(k)',
           \A x \in Workers : x \in Callers \/ (stage'[x] = "idle" <=> stage[x] = "idle"),
           \A x \in Workers, n \in Notes :
                stage'[x] # "idle" /\ message[x] > 0 /\ From[n] = message[x] =>
                    n \in todo'[x] \/ note'[x] = n \/ status'[n] # "none"
    PROVE  OffsetsOK'
<1> USE DEF OffsetsOK, topic
<1>1. /\ \A x \in Callers : message'[x] = 0
      /\ \A c \in Consumers : stage'[c] # "idle" => message'[c] > 0
    BY DEF Workers
<1>2. /\ \A k \in 1..committed' : Dealt(k)'
      /\ \A c \in Consumers : \A k \in 1..marked'[c] : Dealt(k)'
    OBVIOUS
<1>3. \A x \in Workers : stage'[x] # "idle" => \A k \in 1..message'[x] : k # message'[x] => Dealt(k)'
  <2> SUFFICES ASSUME NEW x \in Workers, stage'[x] # "idle", NEW k \in 1..message[x], k # message[x]
               PROVE Dealt(k)'
    OBVIOUS
  <2>1. x \notin Callers
    OBVIOUS
  <2> QED BY <2>1
<1>4. owner' # None =>
        \A k \in 1..position' : Dealt(k)' \/ (stage'[owner'] # "idle" /\ message'[owner'] = k)
  <2> SUFFICES ASSUME owner # None, NEW k \in 1..position, ~ Dealt(k)
               PROVE stage'[owner] # "idle" /\ message[owner] = k
    OBVIOUS
  <2>1. owner \in Consumers
    BY DEF TypeOK
  <2> QED BY <2>1 DEF Workers
<1> QED BY <1>1, <1>2, <1>3, <1>4

\* A step that ends a handler: its message was dealt with, or its replica is
\* gone, and so are its marks.
LEMMA OffsetsLeft ==
    ASSUME TypeOK, OffsetsOK, NEW w \in Workers, NEW d, message[w] = d, stage[w] # "idle", Leave(w),
           \A k : Dealt(k) => Dealt(k)',
           \A n \in Notes : status[n] # "none" => status'[n] # "none",
           UNCHANGED <<written, committed, position>>,
           marked' \in [Consumers -> Nat],
           \A c \in Consumers : marked'[c] = marked[c] \/ marked'[c] = 0 \/ (c = w /\ marked'[c] = message[w]),
           \/ Dealt(d)' /\ owner' = owner
           \/ w \in Callers /\ owner' = owner
           \/ owner' = (IF owner = w THEN None ELSE owner) /\ marked'[w] = 0
    PROVE  OffsetsOK'
<1> USE DEF Leave, GoTo
<1>1. /\ stage'[w] = "idle" /\ message'[w] = 0
      /\ \A x \in Workers \ {w} :
            stage'[x] = stage[x] /\ message'[x] = message[x] /\ todo'[x] = todo[x] /\ note'[x] = note[x]
    BY DEF TypeOK
<1>2. \A x \in Callers : message'[x] = 0
    BY <1>1 DEF OffsetsOK, Workers
<1>3. \A c \in Consumers : stage'[c] # "idle" => message'[c] > 0
    BY <1>1 DEF OffsetsOK, Workers
<1>4. \A x \in Workers, n \in Notes :
        stage'[x] # "idle" /\ message'[x] > 0 /\ From[n] = message'[x] =>
            n \in todo'[x] \/ note'[x] = n \/ status'[n] # "none"
    BY <1>1 DEF OffsetsOK
<1>5. \A k \in 1..committed' : Dealt(k)'
    BY DEF OffsetsOK
<1>6. \A x \in Workers : stage'[x] # "idle" => \A k \in 1..message'[x] : k # message'[x] => Dealt(k)'
    BY <1>1 DEF OffsetsOK
<1>7. \A k \in 1..message[w] : k # message[w] => Dealt(k)'
    BY DEF OffsetsOK
<1>8. ASSUME NEW c \in Consumers, NEW k \in 1..marked'[c] PROVE Dealt(k)'
  <2>1. CASE marked'[c] = marked[c]
    BY <2>1 DEF OffsetsOK
  <2>2. CASE marked'[c] = 0
    BY <2>2
  <2>3. CASE c = w /\ marked'[c] = message[w] /\ marked'[c] # 0
    <3>1. Dealt(d)' 
      BY <2>3, WorkersAssumption
    <3>2. k \in 1..message[w]
      BY <2>3
    <3> QED BY <1>7, <3>1, <3>2
  <2> QED BY <2>1, <2>2, <2>3
<1>9. ASSUME owner' # None, NEW k \in 1..position'
      PROVE  Dealt(k)' \/ (stage'[owner'] # "idle" /\ message'[owner'] = k)
  <2>1. owner' = owner /\ owner \in Consumers
    BY <1>9 DEF TypeOK
  <2>2. CASE owner # w
    BY <1>1, <1>9, <2>1, <2>2 DEF OffsetsOK, Workers
  <2>3. CASE owner = w
    <3>1. Dealt(d)'
      BY <1>9, <2>1, <2>3, WorkersAssumption
    <3>2. Dealt(k) \/ message[w] = k
      BY <1>9, <2>1, <2>3 DEF OffsetsOK
    <3> QED BY <3>1, <3>2
  <2> QED BY <2>2, <2>3
<1> QED BY <1>2, <1>3, <1>4, <1>5, <1>6, <1>8, <1>9 DEF OffsetsOK

LEMMA OffsetsPreserved == IInv /\ [Next]_vars => OffsetsOK'
<1> SUFFICES ASSUME TypeOK, NotesOK, OffsetsOK, [Next]_vars PROVE OffsetsOK'
    BY DEF IInv
<1> USE DEF topic, work, rows, history, GoTo
<1>1. /\ \A k : Dealt(k) => Dealt(k)'
      /\ \A n \in Notes : status[n] # "none" => status'[n] # "none"
      /\ failed \subseteq failed'
    BY DealtStays
<1>2. /\ written \in Nat /\ committed \in Nat /\ position \in Nat
      /\ message \in [Workers -> Nat] /\ marked \in [Consumers -> Nat]
    BY DEF TypeOK
<1>3. CASE Write \/ UNCHANGED vars
    BY <1>1, <1>3 DEF Write, vars, OffsetsOK
<1>4. ASSUME NEW c \in Consumers, Join(c) \/ Rebalance(c) PROVE OffsetsOK'
    BY <1>1, <1>4 DEF Join, Rebalance, StartAtCommitted, OffsetsOK
<1>5. ASSUME NEW c \in Consumers, Commit(c) PROVE OffsetsOK'
  <2>1. /\ committed' = marked[c] /\ marked' = [marked EXCEPT ![c] = 0]
        /\ UNCHANGED <<owner, position, work>>
    BY <1>5 DEF Commit
  <2>2. \A k \in 1..committed' : Dealt(k)'
    BY <1>1, <2>1 DEF OffsetsOK
  <2>3. \A x \in Consumers : \A k \in 1..marked'[x] : Dealt(k)'
    BY <1>1, <1>2, <2>1 DEF OffsetsOK
  <2> QED BY <1>1, <1>5, <2>1, <2>2, <2>3 DEF OffsetsOK, Commit
<1>6. ASSUME NEW c \in Consumers, FetchMessage(c) PROVE OffsetsOK'
  <2>1. /\ owner = c /\ owner' = c /\ stage[c] = "idle" /\ position' = position + 1
        /\ stage'[c] = "looking" /\ message'[c] = position + 1 /\ todo'[c] = Due(position + 1)
        /\ \A x \in Workers \ {c} : stage'[x] = stage[x] /\ message'[x] = message[x] /\ todo'[x] = todo[x]
        /\ UNCHANGED <<note, status, failed, committed, marked>>
        /\ c \in Workers /\ c \notin Callers
    BY <1>6 DEF FetchMessage, TypeOK, Workers
  <2>2. \A k \in 1..position : Dealt(k)'
    BY <1>1, <2>1, NoneAssumption DEF OffsetsOK
  <2>3. \A x \in Callers : message'[x] = 0
    BY <2>1 DEF OffsetsOK, Workers
  <2>4. \A x \in Consumers : stage'[x] # "idle" => message'[x] > 0
    BY <1>2, <2>1 DEF OffsetsOK, Workers
  <2>5. \A x \in Workers, n \in Notes :
          stage'[x] # "idle" /\ message'[x] > 0 /\ From[n] = message'[x] =>
              n \in todo'[x] \/ note'[x] = n \/ status'[n] # "none"
    BY <2>1 DEF OffsetsOK, Due
  <2>6. \A x \in Workers : stage'[x] # "idle" => \A k \in 1..message'[x] : k # message'[x] => Dealt(k)'
    <3>1. \A k \in 1..message'[c] : k # message'[c] => Dealt(k)'
      BY <1>2, <2>1, <2>2
    <3> QED BY <1>1, <2>1, <3>1 DEF OffsetsOK
  <2>7. \A k \in 1..position' : Dealt(k)' \/ (stage'[owner'] # "idle" /\ message'[owner'] = k)
    BY <1>2, <2>1, <2>2
  <2> QED BY <1>1, <2>1, <2>3, <2>4, <2>5, <2>6, <2>7 DEF OffsetsOK
<1>7. ASSUME NEW w \in Callers, NEW n \in Asked, Call(w, n) PROVE OffsetsOK'
  <2>1. UNCHANGED <<topic, message, status>> /\ message[w] = 0
    BY <1>7 DEF Call, OffsetsOK
  <2>2. /\ \A x \in Workers \ {w} : stage'[x] = stage[x] /\ todo'[x] = todo[x]
        /\ note' = note
    BY <1>7 DEF Call, TypeOK
  <2>3. \A x \in Workers, m \in Notes :
            stage'[x] # "idle" /\ message[x] > 0 /\ From[m] = message[x] =>
                m \in todo'[x] \/ note'[x] = m \/ status'[m] # "none"
    BY <2>1, <2>2 DEF OffsetsOK
  <2>4. \A x \in Workers : x \in Callers \/ (stage'[x] = "idle" <=> stage[x] = "idle")
    BY <2>2
  <2> QED BY <1>1, <2>1, <2>3, <2>4, OffsetsKept
<1>8. ASSUME NEW w \in Workers, UNCHANGED <<topic, message>>,
             stage[w] # "idle", stage'[w] # "idle",
             \A x \in Workers \ {w} : stage'[x] = stage[x] /\ todo'[x] = todo[x] /\ note'[x] = note[x],
             \A n \in Notes : n \in todo[w] \/ note[w] = n =>
                n \in todo'[w] \/ note'[w] = n \/ status'[n] # "none"
      PROVE  OffsetsOK'
  <2>1. \A x \in Workers, m \in Notes :
            stage'[x] # "idle" /\ message[x] > 0 /\ From[m] = message[x] =>
                m \in todo'[x] \/ note'[x] = m \/ status'[m] # "none"
    BY <1>1, <1>8 DEF OffsetsOK
  <2>2. \A x \in Workers : x \in Callers \/ (stage'[x] = "idle" <=> stage[x] = "idle")
    BY <1>8
  <2> QED BY <1>1, <1>8, <2>1, <2>2, OffsetsKept
<1>9. ASSUME NEW w \in Workers, NEW n \in Notes, Find(w, n) PROVE OffsetsOK'
  <2>1. note[w] = None
    BY <1>9 DEF Find, TypeOK
  <2> QED BY <1>8, <1>9, <2>1 DEF Find, TypeOK
<1>10. ASSUME NEW w \in Workers, NEW granted \in BOOLEAN, Insert(w, granted) PROVE OffsetsOK'
    BY <1>8, <1>10 DEF Insert, TypeOK
<1>11. ASSUME NEW w \in Workers, PublishRequested(w) \/ UpdateNotificationStatus(w) PROVE OffsetsOK'
  <2>1. /\ stage[w] \in {"requesting", "updating"}
        /\ stage'[w] \in {"updating", "refusing", "delivering"}
        /\ \A x \in Workers \ {w} : stage'[x] = stage[x]
        /\ UNCHANGED <<topic, message, todo, note>>
    BY <1>11 DEF PublishRequested, UpdateNotificationStatus, TypeOK
  <2> QED BY <1>8, <2>1
<1>12. ASSUME NEW w \in Workers, PublishDelivered(w) \/ PublishFailed(w) PROVE OffsetsOK'
  <2>1. stage[w] \in Creating
    BY <1>12 DEF PublishDelivered, PublishFailed, Creating
  <2>2. note[w] \in Notes /\ status[note[w]] # "none"
    BY <2>1, CreatorTypes DEF NotesOK, NoteOK
  <2> QED BY <1>1, <1>8, <1>12, <2>2 DEF PublishDelivered, PublishFailed, TypeOK
<1>13. ASSUME NEW w \in Workers, RepeatWrite(w) PROVE OffsetsOK'
    BY <1>1, <1>13, OffsetsKept DEF RepeatWrite, OffsetsOK
<1>14. ASSUME NEW n \in Notes, MarkNotificationRead(n) PROVE OffsetsOK'
    BY <1>1, <1>14, OffsetsKept DEF MarkNotificationRead, OffsetsOK
<1>15. ASSUME NEW w \in Workers, NEW d, message[w] = d, Conflict(w) \/ Fail(w) PROVE OffsetsOK'
  <2>1. Leave(w) /\ UNCHANGED topic /\ failed' = failed \cup ({d} \ {0}) /\ stage[w] # "idle"
    BY <1>15 DEF Conflict, Fail, BreakOff
  <2>2. w \in Callers \/ d # 0
    BY <1>2, <1>15, <2>1 DEF OffsetsOK, Workers
  <2>3. w \in Callers \/ Dealt(d)'
    BY <2>1, <2>2 DEF Dealt
  <2> QED BY <1>1, <1>2, <1>15, <2>1, <2>3, OffsetsLeft
<1>16. ASSUME NEW c \in Consumers, Crash(c) PROVE OffsetsOK'
  <2>1. c \in Workers /\ Leave(c) /\ stage[c] # "idle" /\ UNCHANGED <<written, committed, position>>
    BY <1>16 DEF Crash, BreakOff, Workers
  <2>2. owner' = (IF owner = c THEN None ELSE owner) /\ marked' = [marked EXCEPT ![c] = 0]
    BY <1>16 DEF Crash
  <2> QED BY <1>1, <1>2, <2>1, <2>2, OffsetsLeft
<1>17. ASSUME NEW w \in Workers, NEW d, message[w] = d, Succeed(w) PROVE OffsetsOK'
  <2>1. /\ Leave(w) /\ UNCHANGED <<written, committed, owner, position, status>>
        /\ stage[w] = "looking" /\ todo[w] = {} /\ note[w] = None
        /\ marked' = IF w \in Consumers THEN [marked EXCEPT ![w] = d] ELSE marked
    BY <1>17 DEF Succeed, TypeOK
  <2>2. w \in Callers \/ Dealt(d)'
    <3>1. ASSUME w \notin Callers, NEW n \in Notes, From[n] = d PROVE status[n] # "none"
      BY <1>2, <1>17, <2>1, <3>1 DEF OffsetsOK, Workers
    <3> QED BY <2>1, <3>1 DEF Dealt
  <2>3. marked' \in [Consumers -> Nat] /\ \A c \in Consumers : marked'[c] = marked[c] \/ (c = w /\ marked'[c] = d)
    BY <1>2, <1>17, <2>1
  <2> QED BY <1>1, <1>17, <2>1, <2>2, <2>3, OffsetsLeft
<1>18. ASSUME NEW c \in Consumers, NEW d, message[c] = d, Skip(c) PROVE OffsetsOK'
  <2>1. /\ Leave(c) /\ UNCHANGED <<written, committed, owner, position>>
        /\ c \in Workers /\ stage[c] # "idle"
        /\ failed' = failed \cup {d}
        /\ marked' = [marked EXCEPT ![c] = d]
    BY <1>18 DEF Skip, Workers
  <2>2. Dealt(d)'
    BY <2>1 DEF Dealt
  <2>3. /\ marked' \in [Consumers -> Nat]
        /\ \A x \in Consumers : marked'[x] = marked[x] \/ (x = c /\ marked'[x] = d)
    BY <1>2, <1>18, <2>1
  <2> QED BY <1>1, <1>18, <2>1, <2>2, <2>3, OffsetsLeft
<1> QED
    BY <1>3, <1>4, <1>5, <1>6, <1>7, <1>9, <1>10, <1>11, <1>12, <1>13, <1>14, <1>15, <1>16, <1>17, <1>18
       DEF Next, Create

LEMMA SpecIInv == Spec => []IInv
<1>1. IInv /\ [Next]_vars => IInv'
    BY TypePreserved, NotesPreserved, OffsetsPreserved DEF IInv
<1> QED BY <1>1, InitIInv, PTL DEF Spec

-----------------------------------------------------------------------------
(* Theorems.                                                               *)

\* Every reachable state is typed, and a worker holds a note exactly while
\* CreateNotification is between its lookup and its last event.
THEOREM TypeCorrect == Spec => []TypeOK
<1>1. IInv => TypeOK
    BY DEF IInv
<1> QED BY <1>1, SpecIInv, PTL

\* Whatever replicas, callers and errors do to one key, its events and its row
\* tell one story.
THEOREM SpecOneStory == Spec => []OneStory
<1>1. IInv => OneStory
  <2> SUFFICES ASSUME IInv, NEW n \in Notes
               PROVE  /\ \A k \in Kinds : announced[k][n] <= 1 + faults
                      /\ announced["delivered"][n] > 0 =>
                          /\ announced["requested"][n] > 0
                          /\ announced["failed"][n] = 0
                          /\ status[n] \in {"delivered", "read"}
                      /\ announced["failed"][n] > 0 =>
                          announced["requested"][n] > 0 /\ status[n] \in {"failed", "read"}
    BY DEF OneStory
  <2>1. NoteOK(n) /\ \A k \in Kinds : announced[k][n] \in Nat
    BY DEF IInv, NotesOK, TypeOK
  <2> QED BY <2>1 DEF NoteOK, Kinds
<1> QED BY <1>1, SpecIInv, PTL

\* No committed message is silently without its notifications.
THEOREM SpecCommittedWasNotified == Spec => []CommittedWasNotified
<1>1. IInv => CommittedWasNotified
    BY DEF IInv, CommittedWasNotified, OffsetsOK, Dealt, NotesOK, NoteOK
<1> QED BY <1>1, SpecIInv, PTL

\* Only a read that came before the end of the creation is ever lost.
THEOREM SpecReadStays == Spec => []ReadStays
<1>1. IInv => ReadStays
    BY DEF IInv, ReadStays, NotesOK, NoteOK, TypeOK
<1> QED BY <1>1, SpecIInv, PTL
=============================================================================
