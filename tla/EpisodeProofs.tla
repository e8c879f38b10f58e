---------------------------- MODULE EpisodeProofs ----------------------------
(* One episode and what is read off it.  The episode and its fault nodes, for *)
(* any schedule, any delay of a sensor message and any loss at the teardown:  *)
(* the clean prefix is kept, and an accepted episode is complete and was      *)
(* treated.  The labels, for recordings of any length and any kill of the     *)
(* extraction: every event is the earliest of those its definition singles    *)
(* out, and every row is labelled by its distances.                           *)
EXTENDS Episode, AlarmTuning, FiniteSetTheorems, SequenceTheorems, WellFoundedInduction, TLAPS

Words == {"injection_planned", "injection_started", "injection_ended",
          "injection_ineligible", "injection_error", "recording_window_started",
          "recording_window_ended", "episode_started", "no_injection_control",
          "goal_dispatched", "terminal_event"}
Event == [type : Words, time : Nat]
Time == Nat \cup {Never}

-----------------------------------------------------------------------------
(* The inductive invariant of the fault nodes: what they published, what     *)
(* they corrupted and what they built agree with the one schedule.           *)

FaultTypes ==
    /\ now \in Nat /\ family \in Families
    /\ schedule \in [armed : Time, onset : Time, rejected : Time]
    /\ stamps \in [Streams -> Time]
    /\ corrupted \subseteq Nat
    /\ wire \in Seq(Event)

OnsetAfterPrefix ==
    schedule.onset # Never =>
        /\ schedule.armed # Never /\ schedule.onset - schedule.armed >= Onset
        /\ schedule.onset <= now

WireFollowsSchedule ==
    /\ \A i, j \in Published("injection_planned") : i = j
    /\ \A i, j \in Published("injection_started") : i = j
    /\ \A i \in Published("injection_planned") :
         schedule.armed # Never /\ wire[i].time = schedule.armed
    /\ schedule.armed # Never => Published("injection_planned") # {}
    /\ \A i \in Published("injection_started") :
         /\ schedule.onset # Never /\ wire[i].time = schedule.onset
         /\ \E j \in Published("injection_planned") : j < i

\* A stream that lags behind the one that started the fault may be corrupted
\* from before the onset, but no longer than a message is late.
CorruptionBounded ==
    /\ schedule.onset = Never => corrupted = {}
    /\ \A t \in corrupted : /\ t >= schedule.onset - MaxLag
                            /\ t <= schedule.onset + Duration
    /\ family # "semantic" =>
         /\ \A t \in corrupted : t >= schedule.onset
         /\ schedule.onset # Never => \A s \in Streams : stamps[s] >= schedule.onset

StartedIsTreated ==
    /\ family \in Environment /\ Published("injection_started") # {} => entities = Wanted
    /\ family \notin Environment /\ readable /\ schedule.onset # Never => corrupted # {}

FaultInv == FaultTypes /\ OnsetAfterPrefix /\ WireFollowsSchedule /\ CorruptionBounded
              /\ StartedIsTreated

-----------------------------------------------------------------------------
(* Events in order.                                                        *)

\* Events are appended with one time.
Stamped(types, time) == [i \in DOMAIN types |-> [type |-> types[i], time |-> time]]

LEMMA AppendStamped ==
  ASSUME NEW rows \in Seq(Event), NEW types \in Seq(Words), NEW time \in Nat
  PROVE  LET more == rows \o Stamped(types, time)
         IN /\ more \in Seq(Event) /\ Len(more) = Len(rows) + Len(types)
            /\ DOMAIN rows = 1..Len(rows) /\ Len(rows) \in Nat
            /\ DOMAIN more = 1..(Len(rows) + Len(types)) /\ Len(types) \in Nat
            /\ \A i \in 1..Len(rows) : more[i] = rows[i]
            /\ \A i \in 1..Len(types) :
                  more[Len(rows) + i] = [type |-> types[i], time |-> time]
  <1> DEFINE more == rows \o Stamped(types, time)
  <1> DEFINE tail == Stamped(types, time)
  <1>1. /\ DOMAIN types = 1..Len(types) /\ Len(types) \in Nat
        /\ \A i \in 1..Len(types) : types[i] \in Words
    BY LenProperties, ElementOfSeq
  <1>2. tail \in [1..Len(types) -> Event]
    BY <1>1 DEF Stamped, Event
  <1>3. tail \in Seq(Event) /\ Len(tail) = Len(types)
    <2>1. tail \in Seq(Event)
      BY <1>1, <1>2, SeqDef
    <2>2. QED
      BY <1>1, <1>2, <2>1, LenProperties
  <1>4. \A i \in 1..Len(types) : tail[i] = [type |-> types[i], time |-> time]
    BY <1>1 DEF Stamped
  <1> HIDE DEF tail, more
  <1>5. /\ rows \o tail \in Seq(Event) /\ Len(rows \o tail) = Len(rows) + Len(tail)
        /\ \A i \in 1..(Len(rows) + Len(tail)) :
              (rows \o tail)[i] = IF i <= Len(rows) THEN rows[i] ELSE tail[i - Len(rows)]
    BY <1>3, ConcatProperties
  <1>6. more = rows \o tail
    BY DEF tail, more
  <1>7. Len(rows) \in Nat /\ DOMAIN rows = 1..Len(rows) /\ DOMAIN more = 1..Len(more)
    BY <1>5, <1>6, LenProperties
  <1>8. \A i \in 1..Len(rows) : more[i] = rows[i]
    BY <1>1, <1>3, <1>5, <1>6, <1>7
  <1>9. \A i \in 1..Len(types) : more[Len(rows) + i] = tail[i]
    BY <1>1, <1>3, <1>5, <1>6, <1>7
  <1>10. QED
    BY <1>1, <1>3, <1>4, <1>5, <1>6, <1>7, <1>8, <1>9 DEF more

Says(types, time) == wire' = wire \o Stamped(types, time)

\* What was published stays, and what is new has one time and comes last.
LEMMA PublishedAfter ==
  ASSUME FaultTypes, NEW types \in Seq(Words), NEW time \in Nat, Says(types, time)
  PROVE  /\ wire' \in Seq(Event) /\ Len(wire) \in Nat /\ DOMAIN wire = 1..Len(wire)
         /\ \A i \in DOMAIN wire : i \in DOMAIN wire' /\ wire'[i] = wire[i]
         /\ \A i \in DOMAIN wire' :
              \/ i \in DOMAIN wire
              \/ i - Len(wire) \in DOMAIN types /\ i \in Nat /\ i > Len(wire)
  <1>1. /\ wire' \in Seq(Event) /\ Len(wire') = Len(wire) + Len(types)
        /\ DOMAIN wire = 1..Len(wire) /\ Len(wire) \in Nat
        /\ DOMAIN wire' = 1..(Len(wire) + Len(types)) /\ Len(types) \in Nat
        /\ \A i \in 1..Len(wire) : wire'[i] = wire[i]
    BY AppendStamped DEF FaultTypes, Says
  <1>2. DOMAIN types = 1..Len(types)
    BY LenProperties
  <1>3. \A i \in DOMAIN wire : i \in DOMAIN wire' /\ wire'[i] = wire[i]
    BY <1>1
  <1>4. \A i \in DOMAIN wire' :
              \/ i \in DOMAIN wire
              \/ i - Len(wire) \in DOMAIN types /\ i \in Nat /\ i > Len(wire)
    BY <1>1, <1>2
  <1>5. QED
    BY <1>1, <1>3, <1>4

LEMMA PublishedStays ==
  ASSUME FaultTypes, NEW types \in Seq(Words), NEW time \in Nat, Says(types, time), NEW type \in Words
  PROVE  /\ Published(type) \subseteq Published(type)'
         /\ \A i \in Published(type) : wire'[i] = wire[i]
  BY PublishedAfter DEF Published

Without(types, type) == \A n \in DOMAIN types : types[n] # type
AtMostFirst(types, type) == \A n \in DOMAIN types : types[n] = type => n = 1

LEMMA PublishedNew ==
  ASSUME FaultTypes, NEW types \in Seq(Words), NEW time \in Nat, Says(types, time), NEW type \in Words,
         NEW i \in Published(type)', i \notin Published(type)
  PROVE  /\ i - Len(wire) \in DOMAIN types /\ i \in Nat /\ i > Len(wire)
         /\ ~Without(types, type)
         /\ AtMostFirst(types, type) => i = Len(wire) + 1
         /\ wire'[i] = [type |-> type, time |-> time]
  <1>1. i \in DOMAIN wire' /\ wire'[i].type = type
    BY DEF Published
  <1>2. i \notin DOMAIN wire
    BY <1>1, PublishedAfter DEF Published
  <1> DEFINE n == i - Len(wire)
  <1>3. n \in DOMAIN types /\ i \in Nat /\ i > Len(wire) /\ Len(wire) \in Nat
    BY <1>1, <1>2, PublishedAfter
  <1>4. DOMAIN types = 1..Len(types)
    BY LenProperties
  <1>5. wire'[Len(wire) + n] = [type |-> types[n], time |-> time]
    <2>1. wire \in Seq(Event) /\ wire' = wire \o Stamped(types, time)
      BY DEF FaultTypes, Says
    <2>2. n \in 1..Len(types)
      BY <1>3, <1>4
    <2> HIDE DEF n
    <2>3. (wire \o Stamped(types, time))[Len(wire) + n] = [type |-> types[n], time |-> time]
      BY <2>1, <2>2, AppendStamped
    <2>4. QED
      BY <2>1, <2>3
  <1>6. Len(wire) + n = i
    BY <1>3
  <1>7. wire'[i] = [type |-> types[n], time |-> time] /\ types[n] = type
    BY <1>1, <1>5, <1>6
  <1>8. ~Without(types, type)
    BY <1>3, <1>7 DEF Without
  <1>9. AtMostFirst(types, type) => n = 1
    BY <1>3, <1>7 DEF AtMostFirst
  <1>10. QED
    BY <1>3, <1>7, <1>8, <1>9

LEMMA ShortSeqs ==
  ASSUME NEW S, NEW a \in S, NEW b \in S
  PROVE  /\ <<>> \in Seq(S) /\ <<a>> \in Seq(S) /\ <<a, b>> \in Seq(S)
         /\ <<a>> \o <<b>> = <<a, b>> /\ <<>> \o <<b>> = <<b>>
         /\ <<a>> \o <<>> = <<a>> /\ <<>> \o <<>> = <<>>
         /\ DOMAIN <<>> = {} /\ DOMAIN <<a>> = {1} /\ DOMAIN <<a, b>> = {1, 2}
  <1>1. /\ <<>> \in Seq(S) /\ <<a>> \in Seq(S) /\ <<b>> \in Seq(S) /\ <<a, b>> \in Seq(S)
        /\ <<>> \o <<b>> = <<b>> /\ <<a>> \o <<>> = <<a>> /\ <<>> \o <<>> = <<>>
        /\ DOMAIN <<>> = {} /\ DOMAIN <<a>> = {1} /\ DOMAIN <<a, b>> = {1, 2}
        /\ Len(<<a>>) = 1 /\ Len(<<b>>) = 1 /\ Len(<<a, b>>) = 2
    OBVIOUS
  <1> DEFINE c == <<a>> \o <<b>>
  <1>2. /\ c \in Seq(S) /\ Len(c) = 2
        /\ \A i \in 1..2 : c[i] = IF i <= 1 THEN <<a>>[i] ELSE <<b>>[i - 1]
    BY <1>1, ConcatProperties
  <1> HIDE DEF c
  <1>3. c[1] = <<a>>[1] /\ c[2] = <<b>>[1]
    <2>1. 1 \in 1..2 /\ 2 \in 1..2 /\ 2 - 1 = 1 /\ ~(2 <= 1)
      OBVIOUS
    <2>2. QED
      BY <1>2, <2>1
  <1>4. \A i \in 1..2 : c[i] = <<a, b>>[i]
    BY <1>3
  <1>5. c = <<a, b>>
    BY <1>1, <1>2, <1>4, SeqEqual
  <1>6. QED
    BY <1>1, <1>5 DEF c

LEMMA PublishOne ==
  ASSUME FaultTypes, NEW type \in Words, NEW time \in Nat, Publish(type, time)
  PROVE  /\ <<type>> \in Seq(Words) /\ DOMAIN <<type>> = {1} /\ <<type>>[1] = type
         /\ Says(<<type>>, time)
         /\ Len(wire) + 1 \in Published(type)'
  <1>1. wire' = Append(wire, [type |-> type, time |-> time]) /\ wire \in Seq(Event)
    BY DEF Publish, FaultTypes
  <1>2. Stamped(<<type>>, time) = <<[type |-> type, time |-> time]>>
    BY DEF Stamped
  <1>3. [type |-> type, time |-> time] \in Event
    BY DEF Event
  <1>4. Append(wire, [type |-> type, time |-> time]) = wire \o <<[type |-> type, time |-> time]>>
    BY <1>1, <1>3
  <1>5. /\ Len(wire) + 1 \in DOMAIN wire'
        /\ wire'[Len(wire) + 1] = [type |-> type, time |-> time]
    BY <1>1, <1>3, AppendProperties, LenProperties
  <1>6. <<type>> \in Seq(Words) /\ DOMAIN <<type>> = {1} /\ <<type>>[1] = type
    BY ShortSeqs
  <1>7. Says(<<type>>, time)
    BY <1>1, <1>2, <1>4 DEF Says
  <1>8. wire'[Len(wire) + 1].type = type
    BY <1>5
  <1>9. Len(wire) + 1 \in Published(type)'
    BY <1>5, <1>8 DEF Published
  <1>10. QED
    BY <1>6, <1>7, <1>9

\* What the schedule answers.
LEMMA PhaseFacts ==
  ASSUME FaultTypes, NEW time \in Nat, NEW ok
  PROVE  /\ Phase(time, ok) = "activated" =>
              /\ schedule.armed # Never /\ schedule.onset = Never
              /\ time - schedule.armed >= Onset
         /\ Phase(time, ok) = "active" =>
              schedule.onset # Never /\ time <= schedule.onset + Duration
         /\ Phase(time, ok) = "rejected" => schedule.onset = Never
  <1> USE DEF FaultTypes
  <1>1. CASE schedule.armed = Never
    BY <1>1 DEF Phase
  <1>2. CASE schedule.armed # Never /\ schedule.onset # Never
    BY <1>2 DEF Phase
  <1>3. CASE schedule.armed # Never /\ schedule.onset = Never /\ schedule.rejected # Never
    BY <1>3 DEF Phase
  <1>4. CASE schedule.armed # Never /\ schedule.onset = Never /\ schedule.rejected = Never
    <2> DEFINE elapsed == time - schedule.armed
               answer == CASE elapsed < CleanPrefix -> "clean_prefix"
                           [] elapsed >= CleanPrefix /\ elapsed < Onset -> "waiting_for_onset"
                           [] elapsed >= Onset /\ ok -> "activated"
                           [] elapsed > Onset + MaxWait /\ ~ok -> "rejected"
                           [] OTHER -> "waiting_for_eligibility"
    <2>1. Phase(time, ok) = answer
      BY <1>4 DEF Phase
    <2>2. elapsed \in Int
      BY <1>4 DEF Time, Never
    <2> HIDE DEF elapsed
    <2>3. answer = "activated" => elapsed >= Onset
      BY <2>2, ScheduleOK
    <2>4. answer # "active"
      BY <2>2, ScheduleOK
    <2>5. QED
      BY <1>4, <2>1, <2>3, <2>4 DEF elapsed
  <1>5. QED
    BY <1>1, <1>2, <1>3, <1>4

\* What one message makes the proxy publish.
Told(phase) ==
    CASE phase = "activated" -> <<"injection_started">>
      [] phase = "rejected"  -> <<"injection_ineligible">>
      [] phase = "complete" /\ last = "active" -> <<"injection_ended">>
      [] OTHER -> <<>>
Erred(phase) ==
    IF phase \in {"activated", "active"} /\ ~readable THEN <<"injection_error">> ELSE <<>>

LEMMA MessageEvents ==
  ASSUME NEW phase
  PROVE  LET types == Told(phase) \o Erred(phase)
         IN /\ types \in Seq(Words)
            /\ Without(types, "injection_planned") /\ AtMostFirst(types, "injection_started")
            /\ phase # "activated" => Without(types, "injection_started")
  <1> DEFINE types == Told(phase) \o Erred(phase)
  <1>1. /\ Erred(phase) = <<"injection_error">> \/ Erred(phase) = <<>>
        /\ "injection_error" \in Words
    BY DEF Erred, Words
  <1>2. ASSUME NEW a \in Words, Told(phase) = <<a>>, a # "injection_planned",
               a = "injection_started" => phase = "activated"
        PROVE  /\ types \in Seq(Words)
               /\ Without(types, "injection_planned") /\ AtMostFirst(types, "injection_started")
               /\ phase # "activated" => Without(types, "injection_started")
    <2>1. CASE Erred(phase) = <<"injection_error">>
      <3>1. types = <<a, "injection_error">> /\ types \in Seq(Words) /\ DOMAIN types = {1, 2}
        BY <1>1, <1>2, <2>1, ShortSeqs
      <3>2. types[1] = a /\ types[2] = "injection_error"
        BY <3>1
      <3> HIDE DEF types
      <3>3. QED
        BY <1>2, <3>1, <3>2 DEF Without, AtMostFirst
    <2>2. CASE Erred(phase) = <<>>
      <3>1. types = <<a>> /\ types \in Seq(Words) /\ DOMAIN types = {1}
        BY <1>2, <2>2, ShortSeqs
      <3>2. types[1] = a
        BY <3>1
      <3> HIDE DEF types
      <3>3. QED
        BY <1>2, <3>1, <3>2 DEF Without, AtMostFirst
    <2>3. QED
      BY <1>1, <2>1, <2>2
  <1>3. CASE Told(phase) = <<>>
    <2>1. CASE Erred(phase) = <<"injection_error">>
      <3>1. types = <<"injection_error">> /\ types \in Seq(Words) /\ DOMAIN types = {1}
        BY <1>1, <1>3, <2>1, ShortSeqs
      <3>2. types[1] = "injection_error"
        BY <3>1
      <3> HIDE DEF types
      <3>3. QED
        BY <3>1, <3>2 DEF types, Without, AtMostFirst
    <2>2. CASE Erred(phase) = <<>>
      <3>1. types = <<>> /\ types \in Seq(Words) /\ DOMAIN types = {}
        BY <1>3, <2>2, ShortSeqs
      <3> HIDE DEF types
      <3>2. QED
        BY <3>1 DEF types, Without, AtMostFirst
    <2>3. QED
      BY <1>1, <2>1, <2>2
  <1>4. CASE phase = "activated"
    <2>1. Told(phase) = <<"injection_started">> /\ "injection_started" \in Words
      BY <1>4 DEF Told, Words
    <2>2. QED
      BY <1>2, <1>4, <2>1
  <1>5. CASE phase = "rejected"
    <2>1. Told(phase) = <<"injection_ineligible">> /\ "injection_ineligible" \in Words
      BY <1>5 DEF Told, Words
    <2>2. QED
      BY <1>2, <2>1
  <1>6. CASE phase = "complete" /\ last = "active"
    <2>1. Told(phase) = <<"injection_ended">> /\ "injection_ended" \in Words
      BY <1>6 DEF Told, Words
    <2>2. QED
      BY <1>2, <2>1
  <1>7. CASE phase \notin {"activated", "rejected"} /\ ~(phase = "complete" /\ last = "active")
    BY <1>3, <1>7 DEF Told
  <1>8. QED
    BY <1>4, <1>5, <1>6, <1>7

-----------------------------------------------------------------------------
(* Each step of the fault nodes keeps the invariant.                       *)

\* Nothing the invariant speaks of changes, but time may pass.
FaultIdle ==
    /\ UNCHANGED <<family, schedule, readable, stamps, corrupted, entities, wire>>
    /\ now' \in Nat /\ now' >= now

LEMMA IdleInv ==
  ASSUME FaultInv, FaultIdle
  PROVE  FaultInv'
  <1> USE DEF FaultIdle
  <1>1. FaultTypes'
    BY DEF FaultInv, FaultTypes, Streams
  <1>2. OnsetAfterPrefix'
    BY DEF FaultInv, FaultTypes, OnsetAfterPrefix, Time, Never
  <1>3. WireFollowsSchedule'
    BY DEF FaultInv, WireFollowsSchedule, Published
  <1>4. CorruptionBounded'
    BY DEF FaultInv, CorruptionBounded, Streams
  <1>5. StartedIsTreated'
    BY DEF FaultInv, StartedIsTreated, Published, Wanted
  <1>6. QED
    BY <1>1, <1>2, <1>3, <1>4, <1>5 DEF FaultInv

\* The first goal signal arms the schedule and is announced.
LEMMA ArmInv ==
  ASSUME FaultInv, NEW time \in Nat, Arm(time),
         UNCHANGED <<now, family, readable, stamps, corrupted, entities>>
  PROVE  FaultInv'
  <1>1. CASE schedule.armed # Never
    <2>1. FaultIdle
      BY <1>1 DEF Arm, FaultIdle, FaultInv, FaultTypes
    <2>2. QED
      BY <2>1, IdleInv
  <1>2. CASE schedule.armed = Never
    <2> USE DEF FaultInv
    <2>1. /\ schedule' = [schedule EXCEPT !.armed = time] /\ Publish("injection_planned", time)
          /\ schedule'.armed = time /\ schedule'.onset = schedule.onset /\ time # Never
          /\ schedule.onset = Never
      BY <1>2 DEF Arm, FaultTypes, Never, OnsetAfterPrefix
    <2> DEFINE types == <<"injection_planned">>
    <2>2. {"injection_planned", "injection_started"} \subseteq Words
      BY DEF Words
    <2>3. /\ types \in Seq(Words) /\ time \in Int /\ Says(types, time)
          /\ DOMAIN types = {1} /\ types[1] = "injection_planned"
          /\ Len(wire) + 1 \in Published("injection_planned")'
      BY <2>1, <2>2, PublishOne
    <2> HIDE DEF types
    <2>4. FaultTypes'
      <3>1. wire' \in Seq(Event)
        BY <2>3, PublishedAfter
      <3>2. QED
        BY <2>1, <3>1 DEF FaultTypes, Streams, Time
    <2>5. /\ Published("injection_planned") = {} /\ Published("injection_started") = {}
      BY <1>2, <2>1 DEF WireFollowsSchedule
    <2>6. Published("injection_started")' = {}
      <3>1. Without(types, "injection_started")
        BY <2>3 DEF Without
      <3>2. QED
        BY <2>2, <2>3, <2>5, <3>1, PublishedNew
    <2>7. ASSUME NEW i \in Published("injection_planned")'
          PROVE  i = Len(wire) + 1 /\ wire'[i].time = time
      <3>1. i - Len(wire) \in DOMAIN types /\ i \in Nat
        BY <2>2, <2>3, <2>5, PublishedNew
      <3>2. wire'[i] = [type |-> "injection_planned", time |-> time]
        BY <2>2, <2>3, <2>5, PublishedNew
      <3>3. Len(wire) \in Nat
        BY <2>3, PublishedAfter
      <3>4. QED
        BY <2>3, <3>1, <3>2, <3>3
    <2>9. WireFollowsSchedule'
      BY <2>1, <2>3, <2>6, <2>7 DEF WireFollowsSchedule
    <2>10. OnsetAfterPrefix' /\ CorruptionBounded' /\ StartedIsTreated'
      BY <2>1, <2>6 DEF OnsetAfterPrefix, CorruptionBounded, StartedIsTreated, Streams
    <2>11. QED
      BY <2>4, <2>9, <2>10
  <1>3. QED
    BY <1>1, <1>2

\* Events of other types leave what was planned and started as it was.
LEMMA SaysOther ==
  ASSUME FaultTypes, NEW types \in Seq(Words), NEW time \in Nat, Says(types, time),
         NEW type \in Words, Without(types, type)
  PROVE  /\ Published(type)' = Published(type)
         /\ \A i \in Published(type) : wire'[i] = wire[i]
  <1>1. ASSUME NEW i \in Published(type)', i \notin Published(type)
        PROVE  FALSE
    BY <1>1, PublishedNew
  <1>2. QED
    BY <1>1, PublishedStays

LEMMA SaysNothingNew ==
  ASSUME FaultTypes, WireFollowsSchedule,
         NEW types \in Seq(Words), NEW time \in Nat, Says(types, time),
         Without(types, "injection_planned"), Without(types, "injection_started"),
         schedule'.armed = schedule.armed,
         schedule.onset = Never \/ schedule'.onset = schedule.onset
  PROVE  /\ WireFollowsSchedule'
         /\ Published("injection_started")' = Published("injection_started")
  <1>1. {"injection_planned", "injection_started"} \subseteq Words
    BY DEF Words
  <1>2. /\ Published("injection_planned")' = Published("injection_planned")
        /\ \A i \in Published("injection_planned") : wire'[i] = wire[i]
    BY <1>1, SaysOther
  <1>3. /\ Published("injection_started")' = Published("injection_started")
        /\ \A i \in Published("injection_started") : wire'[i] = wire[i]
    BY <1>1, SaysOther
  <1>4. QED
    BY <1>2, <1>3 DEF WireFollowsSchedule

\* A start is announced once, after the plan, when the schedule takes its onset.
LEMMA SaysStarted ==
  ASSUME FaultTypes, WireFollowsSchedule,
         NEW types \in Seq(Words), NEW time \in Nat, Says(types, time),
         Without(types, "injection_planned"), AtMostFirst(types, "injection_started"),
         schedule.armed # Never, schedule.onset = Never,
         schedule'.armed = schedule.armed, schedule'.onset = time
  PROVE  WireFollowsSchedule'
  <1>1. {"injection_planned", "injection_started"} \subseteq Words /\ time # Never /\ time \in Int
    BY DEF Words, Never
  <1>2. /\ Published("injection_planned")' = Published("injection_planned")
        /\ \A i \in Published("injection_planned") : wire'[i] = wire[i]
    BY <1>1, SaysOther
  <1>3. Published("injection_started") = {}
    BY DEF WireFollowsSchedule
  <1>4. ASSUME NEW i \in Published("injection_started")'
        PROVE  i - Len(wire) = 1 /\ i \in Nat /\ i > Len(wire)
    <2> i \notin Published("injection_started")
      BY <1>3
    <2>1. i = Len(wire) + 1 /\ Len(wire) \in Nat
      BY <1>1, PublishedNew, PublishedAfter
    <2>2. QED
      BY <2>1
  <1>5. ASSUME NEW i \in Published("injection_started")'
        PROVE  wire'[i] = [type |-> "injection_started", time |-> time]
    BY <1>1, <1>3, PublishedNew
  <1>6. Len(wire) \in Nat /\ DOMAIN wire = 1..Len(wire)
    BY <1>1, PublishedAfter
  <1>7. PICK j \in Published("injection_planned") : j \in 1..Len(wire)
    BY <1>6 DEF WireFollowsSchedule, Published
  <1>8. \A i \in Published("injection_started")' : j < i /\ wire'[i].time = time
    BY <1>4, <1>5, <1>6, <1>7
  <1>9. \A i, k \in Published("injection_started")' : i = k
    BY <1>4, <1>6
  <1>10. QED
    BY <1>1, <1>2, <1>7, <1>8, <1>9 DEF WireFollowsSchedule

LEMMA StreamsOf ==
  ASSUME family \in Families
  PROVE  /\ family \in Environment => Streams = {}
         /\ family # "semantic" => \A s, r \in Streams : s = r
  BY ScheduleOK DEF Streams, Environment

\* A message through the proxy.
LEMMA MessageInv ==
  ASSUME FaultInv, NEW s \in Streams, NEW time \in Nat, time <= now, now - time <= MaxLag,
         Message(s, time)
  PROVE  FaultInv'
  <1> DEFINE phase == Phase(time, eligible)
             types == Told(phase) \o Erred(phase)
  <1>1. /\ schedule.armed # Never /\ time > stamps[s]
        /\ stamps' = [stamps EXCEPT ![s] = time]
        /\ schedule' = Remember(phase, time)
        /\ corrupted' = IF phase \in {"activated", "active"} /\ readable
                           /\ (family = "pose" => corrupted = {})
                        THEN corrupted \cup {time} ELSE corrupted
        /\ UNCHANGED <<now, family, readable, entities>>
    BY DEF Message, worldVars
  <1>2. Says(types, time)
    BY DEF Message, Says, Stamped, Told, Erred
  <1>3. /\ types \in Seq(Words)
        /\ Without(types, "injection_planned") /\ AtMostFirst(types, "injection_started")
        /\ phase # "activated" => Without(types, "injection_started")
    BY MessageEvents
  <1>4. /\ phase = "activated" => /\ schedule.onset = Never
                                  /\ time - schedule.armed >= Onset
        /\ phase = "active" => schedule.onset # Never /\ time <= schedule.onset + Duration
    BY PhaseFacts DEF FaultInv
  <1>5. /\ schedule' \in [armed : Time, onset : Time, rejected : Time]
        /\ schedule'.armed = schedule.armed
        /\ schedule'.onset = IF phase = "activated" THEN time ELSE schedule.onset
    BY <1>1 DEF FaultInv, FaultTypes, Remember, Time
  <1> HIDE DEF phase, types
  <1>6. time \in Int /\ time # Never
    BY DEF Never
  <1>7. /\ FaultTypes /\ OnsetAfterPrefix /\ WireFollowsSchedule /\ CorruptionBounded
        /\ StartedIsTreated /\ now \in Nat /\ family \in Families
        /\ schedule.armed \in Time /\ schedule.onset \in Time
        /\ stamps \in [Streams -> Time] /\ corrupted \subseteq Nat
    BY DEF FaultInv, FaultTypes
  <1>8. FaultTypes'
    <2>1. wire' \in Seq(Event)
      BY <1>2, <1>3, <1>6, <1>7, PublishedAfter
    <2>2. Streams' = Streams
      BY <1>1 DEF Streams
    <2>3. QED
      BY <1>1, <1>5, <1>7, <2>1, <2>2 DEF FaultTypes, Time
  <1>9. OnsetAfterPrefix'
    BY <1>1, <1>4, <1>5, <1>7 DEF OnsetAfterPrefix
  <1>10. WireFollowsSchedule'
    <2>1. CASE phase = "activated"
      BY <1>1, <1>2, <1>3, <1>4, <1>5, <1>7, <2>1, SaysStarted
    <2>2. CASE phase # "activated"
      BY <1>2, <1>3, <1>5, <1>6, <1>7, <2>2, SaysNothingNew
    <2>3. QED
      BY <2>1, <2>2
  <1>11. CorruptionBounded'
    <2>1. Duration \in Nat /\ MaxLag \in Nat
      BY ScheduleOK
    <2>2. Streams' = Streams
      BY <1>1 DEF Streams
    <2>3. family # "semantic" => \A r \in Streams : stamps'[r] = time
      BY <1>1, <1>7, StreamsOf
    <2>4. stamps[s] \in Time
      BY <1>7
    <2>5. CASE phase = "activated"
      <3>1. corrupted' \subseteq {time} /\ schedule'.onset = time
        BY <1>1, <1>4, <1>5, <1>7, <2>5 DEF CorruptionBounded
      <3>2. QED
        BY <1>1, <1>6, <2>1, <2>2, <2>3, <3>1 DEF CorruptionBounded
    <2>6. CASE phase # "activated"
      <3>1. schedule'.onset = schedule.onset
        BY <1>5, <2>6
      <3>2. schedule.onset # Never => schedule.onset \in Nat /\ schedule.onset <= now
        BY <1>7 DEF OnsetAfterPrefix, Time
      <3>3. CASE phase = "active"
        <4>1. /\ schedule.onset \in Nat /\ time >= schedule.onset - MaxLag
              /\ time <= schedule.onset + Duration
          BY <1>4, <1>7, <2>1, <3>2, <3>3
        <4>2. family # "semantic" => time >= schedule.onset
          BY <1>1, <1>4, <1>7, <2>4, <3>2, <3>3 DEF CorruptionBounded, Time, Never
        <4>3. corrupted' \subseteq corrupted \cup {time} /\ schedule.onset # Never
          BY <1>1, <1>4, <3>3
        <4>4. QED
          BY <1>1, <1>7, <2>2, <2>3, <3>1, <4>1, <4>2, <4>3 DEF CorruptionBounded
      <3>4. CASE phase # "active"
        <4>1. corrupted' = corrupted
          BY <1>1, <2>6, <3>4
        <4>2. family # "semantic" /\ schedule.onset # Never => time >= schedule.onset
          BY <1>1, <1>7, <2>4, <3>2 DEF CorruptionBounded, Time, Never
        <4>3. QED
          BY <1>1, <1>7, <2>2, <2>3, <3>1, <4>1, <4>2 DEF CorruptionBounded
      <3>5. QED
        BY <3>3, <3>4
    <2>7. QED
      BY <2>5, <2>6
  <1>12. StartedIsTreated'
    <2>1. family \notin Environment /\ family' = family /\ readable' = readable
      BY <1>1, <1>7, StreamsOf
    <2>2. CASE phase = "activated"
      <3>1. readable => time \in corrupted'
        BY <1>1, <1>4, <1>7, <2>2 DEF CorruptionBounded
      <3>2. QED
        BY <2>1, <3>1 DEF StartedIsTreated
    <2>3. CASE phase # "activated"
      BY <1>1, <1>5, <1>7, <2>1, <2>3 DEF StartedIsTreated
    <2>4. QED
      BY <2>2, <2>3
  <1>13. QED
    BY <1>8, <1>9, <1>10, <1>11, <1>12 DEF FaultInv

\* The timer of the environment node.
LEMMA TickInv ==
  ASSUME FaultInv, EnvironmentTick
  PROVE  FaultInv'
  <1> DEFINE phase == Phase(now, eligible)
  <1> USE DEF FaultInv
  <1>1. /\ family \in Environment /\ family \in Families /\ now \in Nat /\ now # Never /\ now \in Int
        /\ UNCHANGED <<now, family, readable, stamps, corrupted>>
    BY DEF EnvironmentTick, FaultTypes, proxyVars, Never
  <1>2. Streams = {} /\ Streams' = Streams /\ stamps' \in [Streams -> Time]
    BY <1>1, StreamsOf DEF Streams, FaultTypes
  <1>3. {"injection_planned", "injection_started", "injection_ended", "injection_ineligible",
         "injection_error"} \subseteq Words
    BY DEF Words
  \* An event that is neither plan nor start, and no onset but an unheard one.
  <1>4. ASSUME NEW type \in Words \ {"injection_planned", "injection_started"},
               Publish(type, now),
               schedule' \in [armed : Time, onset : Time, rejected : Time],
               schedule'.armed = schedule.armed,
               \/ schedule'.onset = schedule.onset /\ entities' = entities
               \/ schedule.onset = Never /\ OnsetAfterPrefix'
        PROVE  FaultInv'
    <2> DEFINE types == <<type>>
    <2>1. /\ types \in Seq(Words) /\ DOMAIN types = {1} /\ types[1] = type /\ Says(types, now)
      BY <1>1, <1>4, PublishOne
    <2> HIDE DEF types
    <2>2. Without(types, "injection_planned") /\ Without(types, "injection_started")
      BY <1>4, <2>1 DEF Without
    <2>3. FaultTypes /\ WireFollowsSchedule
      OBVIOUS
    <2>4. /\ WireFollowsSchedule'
          /\ Published("injection_started")' = Published("injection_started")
      BY <1>1, <1>4, <2>1, <2>2, <2>3, SaysNothingNew
    <2>5. FaultTypes'
      <3>1. wire' \in Seq(Event)
        BY <1>1, <2>1, <2>3, PublishedAfter
      <3>2. QED
        BY <1>1, <1>2, <1>4, <3>1 DEF FaultTypes
    <2>6. OnsetAfterPrefix'
      BY <1>1, <1>4 DEF OnsetAfterPrefix
    <2>7. CorruptionBounded'
      BY <1>1, <1>2, <1>4 DEF CorruptionBounded
    <2>8. StartedIsTreated'
      <3>1. schedule.onset = Never => Published("injection_started") = {}
        BY DEF WireFollowsSchedule
      <3>2. QED
        BY <1>1, <1>4, <2>4, <3>1 DEF StartedIsTreated, Wanted
    <2>9. QED
      BY <2>4, <2>5, <2>6, <2>7, <2>8
  <1>5. CASE phase = "activated" /\ Activate
    <2>1. /\ schedule.armed # Never /\ schedule.onset = Never
          /\ now - schedule.armed >= Onset
      BY <1>1, <1>5, PhaseFacts
    <2>2. /\ schedule' \in [armed : Time, onset : Time, rejected : Time]
          /\ schedule'.armed = schedule.armed /\ schedule'.onset = now
      BY <1>1, <1>5 DEF Activate, FaultTypes, Time
    <2>3. OnsetAfterPrefix'
      BY <1>1, <2>1, <2>2 DEF OnsetAfterPrefix
    <2>4. CASE Publish("injection_started", now) /\ entities' = Wanted
      <3> DEFINE types == <<"injection_started">>
      <3>1. /\ types \in Seq(Words) /\ DOMAIN types = {1} /\ types[1] = "injection_started"
            /\ Says(types, now)
        BY <1>1, <1>3, <2>4, PublishOne
      <3> HIDE DEF types
      <3>2. Without(types, "injection_planned") /\ AtMostFirst(types, "injection_started")
        BY <3>1 DEF Without, AtMostFirst
      <3>3. FaultTypes /\ WireFollowsSchedule
        OBVIOUS
      <3>4. WireFollowsSchedule'
        BY <1>1, <2>1, <2>2, <3>1, <3>2, <3>3, SaysStarted
      <3>5. FaultTypes'
        <4>1. wire' \in Seq(Event)
          BY <1>1, <3>1, <3>3, PublishedAfter
        <4>2. QED
          BY <1>1, <1>2, <2>2, <4>1 DEF FaultTypes
      <3>6. CorruptionBounded'
        BY <1>1, <1>2, <2>1 DEF CorruptionBounded
      <3>7. StartedIsTreated'
        BY <1>1, <2>4 DEF StartedIsTreated, Wanted
      <3>8. QED
        BY <2>3, <3>4, <3>5, <3>6, <3>7
    <2>5. CASE Publish("injection_error", now)
      BY <1>3, <1>4, <2>1, <2>2, <2>3, <2>5
    <2>6. CASE wire' = wire
      <3>1. Published("injection_started") = {} /\ Published("injection_started")' = {}
        BY <2>1, <2>6 DEF WireFollowsSchedule, Published
      <3>2. FaultTypes'
        BY <1>1, <1>2, <2>2, <2>6 DEF FaultTypes
      <3>3. WireFollowsSchedule'
        BY <2>1, <2>2, <2>6, <3>1 DEF WireFollowsSchedule, Published
      <3>4. CorruptionBounded'
        BY <1>1, <1>2, <2>1 DEF CorruptionBounded
      <3>5. StartedIsTreated'
        BY <1>1, <3>1 DEF StartedIsTreated
      <3>6. QED
        BY <2>3, <3>2, <3>3, <3>4, <3>5
    <2>7. QED
      BY <1>5, <2>4, <2>5, <2>6 DEF Activate
  <1>6. CASE /\ phase = "rejected" /\ schedule' = Remember(phase, now)
             /\ Publish("injection_ineligible", now) /\ UNCHANGED worldVars
    <2>1. /\ schedule' \in [armed : Time, onset : Time, rejected : Time]
          /\ schedule'.armed = schedule.armed /\ schedule'.onset = schedule.onset
          /\ entities' = entities
      BY <1>1, <1>6 DEF Remember, FaultTypes, Time, worldVars
    <2>2. QED
      BY <1>3, <1>4, <1>6, <2>1
  <1>7. CASE RemoveEntities
    <2>1. CASE Publish("injection_ended", now) /\ UNCHANGED <<schedule, entities>>
      BY <1>3, <1>4, <2>1 DEF FaultTypes
    <2>2. CASE UNCHANGED <<schedule, entities, wire>>
      <3>1. FaultIdle
        BY <1>1, <2>2 DEF FaultIdle
      <3>2. QED
        BY <3>1, IdleInv
    <2>3. QED
      BY <1>7, <2>1, <2>2 DEF RemoveEntities
  <1>8. QED
    BY <1>5, <1>6, <1>7 DEF EnvironmentTick

-----------------------------------------------------------------------------
(* The runner's marks: what it wrote is in the order of the mission.        *)

InOrder ==
    \E i \in Marked("recording_window_started"), j \in Marked("goal_dispatched"),
       k \in Marked("terminal_event"), n \in Marked("recording_window_ended") :
       i < j /\ j < k /\ k < n

MarksInOrder ==
    /\ marks \in Seq(Event)
    /\ pc = "start" => terminal = "invalid"
    /\ pc \in {"recheck", "dispatch"} => Marked("recording_window_started") # {}
    /\ pc \in {"mission", "verdict"} =>
         \E i \in Marked("recording_window_started"), j \in Marked("goal_dispatched") : i < j
    /\ pc = "terminal" =>
         \E i \in Marked("recording_window_started"), j \in Marked("goal_dispatched"),
            k \in Marked("terminal_event") : i < j /\ j < k
    /\ /\ pc \in {"teardown", "promote", "summary", "events", "validate", "exited"}
       /\ terminal # "invalid"
       => InOrder

VerdictFollows ==
    /\ pc \in {"events", "validate"} => summary = terminal
    /\ pc = "validate" => terminal # "invalid" /\ events = Len(marks)
    /\ verdict = "accepted" =>
         /\ pc = "exited" /\ summary = terminal /\ terminal # "invalid" /\ events = Len(marks)
         /\ health.final.started /\ health.final.ended
         /\ family # "none" => Published("injection_started") # {}

IInv == FaultInv /\ MarksInOrder /\ VerdictFollows

\* What a mark adds comes last.
LEMMA MarkStays ==
  ASSUME marks \in Seq(Event), now \in Nat, NEW types \in Seq(Words), Mark(types)
  PROVE  /\ marks' \in Seq(Event)
         /\ \A type \in Words : Marked(type) \subseteq Marked(type)'
         /\ \A type \in Words : \A i \in Marked(type) : i \in 1..Len(marks)
  <1>1. marks' = marks \o Stamped(types, now)
    BY DEF Mark, Stamped
  <1>2. /\ marks' \in Seq(Event) /\ DOMAIN marks = 1..Len(marks) /\ Len(marks) \in Nat
        /\ DOMAIN marks' = 1..(Len(marks) + Len(types)) /\ Len(types) \in Nat
        /\ \A i \in 1..Len(marks) : marks'[i] = marks[i]
    BY <1>1, AppendStamped
  <1>3. \A i \in DOMAIN marks : i \in DOMAIN marks' /\ marks'[i] = marks[i]
    BY <1>2
  <1>4. QED
    BY <1>2, <1>3 DEF Marked

LEMMA MarkLast ==
  ASSUME marks \in Seq(Event), now \in Nat, NEW types \in Seq(Words), Mark(types),
         NEW type \in Words, Len(types) # 0, types[Len(types)] = type
  PROVE  \E n \in Marked(type)' : \A i \in 1..Len(marks) : i < n
  <1> DEFINE m == Len(types)
             n == Len(marks) + m
  <1>1. marks' = marks \o Stamped(types, now)
    BY DEF Mark, Stamped
  <1>2. m \in 1..Len(types) /\ Len(types) \in Nat
    BY LenProperties
  <1>3. /\ Len(marks) \in Nat /\ DOMAIN marks' = 1..(Len(marks) + Len(types))
        /\ marks'[Len(marks) + m] = [type |-> types[m], time |-> now]
    BY <1>1, <1>2, AppendStamped
  <1>4. types[m] = type
    OBVIOUS
  <1>5. n \in DOMAIN marks' /\ \A i \in 1..Len(marks) : i < n
    BY <1>2, <1>3
  <1> HIDE DEF m
  <1>6. marks'[n].type = type
    BY <1>3, <1>4
  <1>7. n \in Marked(type)'
    BY <1>5, <1>6 DEF Marked
  <1>8. QED
    BY <1>5, <1>7

LEMMA MarkOne ==
  ASSUME marks \in Seq(Event), now \in Nat, NEW type \in Words, Mark(<<type>>)
  PROVE  /\ marks' \in Seq(Event)
         /\ \A t \in Words : Marked(t) \subseteq Marked(t)'
         /\ \A t \in Words : \A i \in Marked(t) : i \in 1..Len(marks)
         /\ \E n \in Marked(type)' : \A i \in 1..Len(marks) : i < n
  <1> DEFINE types == <<type>>
  <1>1. types \in Seq(Words) /\ Mark(types)
    BY ShortSeqs
  <1>2. Len(types) # 0 /\ types[Len(types)] = type
    OBVIOUS
  <1> HIDE DEF types
  <1>3. QED
    BY <1>1, <1>2, MarkStays, MarkLast

LEMMA RunnerMarks ==
  ASSUME FaultInv, MarksInOrder, Runner
  PROVE  MarksInOrder'
  <1> USE DEF MarksInOrder
  <1>1. now \in Nat /\ marks \in Seq(Event)
    BY DEF FaultInv, FaultTypes
  <1>2. {"recording_window_started", "recording_window_ended", "episode_started",
         "no_injection_control", "goal_dispatched", "terminal_event"} \subseteq Words
    BY DEF Words
  <1>3. Preparation = <<"preflight", "nav2", "amcl", "perception", "fresh_tf", "record">>
    BY DEF Preparation
  <1>4. \A i \in 1..6 : Preparation[i] \in {"preflight", "nav2", "amcl", "perception",
                                            "fresh_tf", "record"}
    BY <1>3
  <1>5. Len(Preparation) = 6
    BY <1>3
  <1>6. CASE Start
    <2>1. marks' = marks /\ terminal' = terminal /\ pc' \in {"exited", "preflight"}
      BY <1>3, <1>6 DEF Start
    <2>2. QED
      BY <1>1, <1>6, <2>1 DEF Start
  <1>7. CASE Prepare
    <2>1. /\ marks' = marks
          /\ \/ pc' \in {"preflight", "nav2", "amcl", "perception", "fresh_tf", "record"}
             \/ pc' = "teardown" /\ terminal' = "invalid"
      BY <1>4, <1>5, <1>7 DEF Prepare, Fail
    <2>2. QED
      BY <1>1, <2>1
  <1>8. CASE Record
    <2>1. Mark(<<"recording_window_started">>) /\ pc' = "recheck"
      BY <1>8 DEF Record
    <2>2. marks' \in Seq(Event) /\ Marked("recording_window_started")' # {}
      BY <1>1, <1>2, <2>1, MarkOne
    <2>3. QED
      BY <2>1, <2>2
  <1>9. CASE Recheck
    <2>1. CASE pc' = "dispatch" /\ UNCHANGED <<terminal, raised, marks>>
      BY <1>1, <1>9, <2>1 DEF Recheck, Marked
    <2>2. CASE Fail /\ Mark(<<"recording_window_ended">>)
      <3>1. marks' \in Seq(Event)
        BY <1>1, <1>2, <2>2, MarkOne
      <3>2. QED
        BY <2>2, <3>1 DEF Fail
    <2>3. QED
      BY <1>9, <2>1, <2>2 DEF Recheck
  <1>10. CASE Dispatch
    <2> DEFINE types == (IF family = "none" THEN <<"episode_started", "no_injection_control">>
                         ELSE <<"episode_started">>) \o <<"goal_dispatched">>
    <2>1. Mark(types) /\ pc = "dispatch" /\ pc' \in {"mission", "verdict"}
      BY <1>10 DEF Dispatch
    <2>2. types \in Seq(Words) /\ Len(types) # 0 /\ types[Len(types)] = "goal_dispatched"
      <3> DEFINE start == IF family = "none" THEN <<"episode_started", "no_injection_control">>
                          ELSE <<"episode_started">>
      <3>1. start \in Seq(Words) /\ Len(start) \in Nat
        BY <1>2, ShortSeqs
      <3>2. /\ <<"goal_dispatched">> \in Seq(Words) /\ Len(<<"goal_dispatched">>) = 1
            /\ <<"goal_dispatched">>[1] = "goal_dispatched"
        BY <1>2, ShortSeqs
      <3> HIDE DEF start
      <3>3. /\ start \o <<"goal_dispatched">> \in Seq(Words)
            /\ Len(start \o <<"goal_dispatched">>) = Len(start) + 1
            /\ (start \o <<"goal_dispatched">>)[Len(start) + 1] = <<"goal_dispatched">>[1]
        <4> DEFINE goal == <<"goal_dispatched">>
        <4>1. goal \in Seq(Words) /\ Len(goal) = 1
          BY <3>2
        <4> HIDE DEF goal
        <4>2. /\ start \o goal \in Seq(Words) /\ Len(start \o goal) = Len(start) + 1
              /\ (start \o goal)[Len(start) + 1] = goal[1]
          <5> DEFINE k == Len(start) + 1
          <5>1. k \in 1..(Len(start) + Len(goal)) /\ ~(k <= Len(start)) /\ k - Len(start) = 1
            BY <3>1, <4>1
          <5> HIDE DEF k
          <5>2. (start \o goal)[k] = goal[1]
            BY <3>1, <4>1, <5>1, ConcatProperties
          <5>3. start \o goal \in Seq(Words) /\ Len(start \o goal) = Len(start) + Len(goal)
            BY <3>1, <4>1, ConcatProperties
          <5>4. QED
            BY <4>1, <5>2, <5>3 DEF k
        <4>3. QED
          BY <4>2 DEF goal
      <3>4. types = start \o <<"goal_dispatched">>
        BY DEF start
      <3> HIDE DEF types
      <3>5. QED
        BY <3>1, <3>2, <3>3, <3>4
    <2> HIDE DEF types
    <2>3. PICK n \in Marked("goal_dispatched")' : \A i \in 1..Len(marks) : i < n
      BY <1>1, <1>2, <2>1, <2>2, MarkLast
    <2>4. /\ marks' \in Seq(Event)
          /\ Marked("recording_window_started") \subseteq Marked("recording_window_started")'
          /\ \A i \in Marked("recording_window_started") : i \in 1..Len(marks)
      BY <1>1, <1>2, <2>1, <2>2, MarkStays
    <2>5. QED
      BY <2>1, <2>3, <2>4
  <1>11. CASE Mission
    BY <1>1, <1>11 DEF Mission, Fail, Marked
  <1>12. CASE Verdict
    <2>1. Mark(<<"terminal_event">>) /\ pc = "verdict" /\ pc' = "terminal"
      BY <1>12 DEF Verdict
    <2>2. PICK n \in Marked("terminal_event")' : \A i \in 1..Len(marks) : i < n
      BY <1>1, <1>2, <2>1, MarkOne
    <2>3. /\ marks' \in Seq(Event)
          /\ \A t \in Words : Marked(t) \subseteq Marked(t)'
          /\ \A t \in Words : \A i \in Marked(t) : i \in 1..Len(marks)
      BY <1>1, <1>2, <2>1, MarkOne
    <2>4. PICK i \in Marked("recording_window_started"), j \in Marked("goal_dispatched") : i < j
      BY <2>1
    <2>5. i \in Marked("recording_window_started")' /\ j \in Marked("goal_dispatched")' /\ j < n
      BY <1>2, <2>2, <2>3
    <2>6. QED
      BY <2>1, <2>3, <2>4, <2>5
  <1>13. CASE EndWindow
    <2>1. /\ Mark(<<"recording_window_ended">>) /\ pc = "terminal" /\ pc' = "teardown"
      BY <1>13 DEF EndWindow
    <2>2. PICK n \in Marked("recording_window_ended")' : \A i \in 1..Len(marks) : i < n
      BY <1>1, <1>2, <2>1, MarkOne
    <2>3. /\ marks' \in Seq(Event)
          /\ \A t \in Words : Marked(t) \subseteq Marked(t)'
          /\ \A t \in Words : \A i \in Marked(t) : i \in 1..Len(marks)
      BY <1>1, <1>2, <2>1, MarkOne
    <2>4. PICK i \in Marked("recording_window_started"), j \in Marked("goal_dispatched"),
               k \in Marked("terminal_event") : i < j /\ j < k
      BY <2>1
    <2>5. /\ i \in Marked("recording_window_started")' /\ j \in Marked("goal_dispatched")'
          /\ k \in Marked("terminal_event")' /\ k < n
      BY <1>2, <2>2, <2>3
    <2>6. InOrder'
      BY <2>4, <2>5 DEF InOrder
    <2>7. QED
      BY <2>1, <2>3, <2>6
  <1>14. ASSUME pc \in {"teardown", "promote", "summary", "events", "validate"},
                pc' \in {"promote", "summary", "events", "validate", "exited"},
                marks' = marks, terminal' \in {terminal, "invalid"}
         PROVE  MarksInOrder'
    <2>1. InOrder => InOrder'
      BY <1>14 DEF InOrder, Marked
    <2>2. QED
      BY <1>1, <1>14, <2>1
  <1>15. CASE Teardown
    BY <1>14, <1>15 DEF Teardown
  <1>16. CASE Promote
    BY <1>14, <1>16 DEF Promote
  <1>17. CASE PublishSummary \/ PublishEvents
    BY <1>14, <1>17 DEF PublishSummary, PublishEvents
  <1>18. CASE Validate
    BY <1>14, <1>18 DEF Validate
  <1>19. QED
    BY <1>6, <1>7, <1>8, <1>9, <1>10, <1>11, <1>12, <1>13, <1>15, <1>16, <1>17, <1>18
       DEF Runner

\* An accepted verdict is given in the step that validates, and ends the run.
LEMMA RunnerVerdict ==
  ASSUME FaultInv, MarksInOrder, VerdictFollows, Runner
  PROVE  VerdictFollows'
  <1> USE DEF VerdictFollows
  <1>1. family' = family /\ Published("injection_started")' = Published("injection_started")
    BY DEF Runner, faultVars, Published
  <1>2. Preparation = <<"preflight", "nav2", "amcl", "perception", "fresh_tf", "record">>
    BY DEF Preparation
  <1>3. Len(Preparation) = 6 /\ \A i \in 1..6 :
             Preparation[i] \in {"preflight", "nav2", "amcl", "perception", "fresh_tf", "record"}
    BY <1>2
  <1>4. CASE verdict = "accepted"
    BY <1>3, <1>4 DEF Runner, Start, Prepare, Record, Recheck, Dispatch, Mission, Verdict,
                      EndWindow, Teardown, Promote, PublishSummary, PublishEvents, Validate
  <1>5. ASSUME verdict # "accepted", verdict' \in {verdict, "rejected"},
               pc' \notin {"events", "validate"}
        PROVE  VerdictFollows'
    BY <1>5
  <1>6. CASE verdict # "accepted" /\ Start
    BY <1>2, <1>5, <1>6 DEF Start
  <1>7. CASE verdict # "accepted" /\ Prepare
    <2>1. pc' \notin {"events", "validate"}
      BY <1>3, <1>7 DEF Prepare, Fail
    <2>2. QED
      BY <1>5, <1>7, <2>1 DEF Prepare
  <1>8. CASE verdict # "accepted" /\ (Record \/ Recheck \/ Dispatch \/ Mission)
    BY <1>5, <1>8 DEF Record, Recheck, Dispatch, Mission, Fail
  <1>9. CASE verdict # "accepted" /\ (Verdict \/ EndWindow \/ Teardown \/ Promote)
    BY <1>5, <1>9 DEF Verdict, EndWindow, Teardown, Promote
  <1>10. CASE verdict # "accepted" /\ PublishSummary
    BY <1>10 DEF PublishSummary
  <1>11. CASE verdict # "accepted" /\ PublishEvents
    BY <1>11 DEF PublishEvents
  <1>12. CASE verdict # "accepted" /\ Validate
    <2>1. /\ pc = "validate" /\ pc' = "exited"
          /\ UNCHANGED <<marks, terminal, health, summary, events>>
          /\ verdict' = "accepted" => Valid
      BY <1>12 DEF Validate
    <2>2. Valid => /\ health.final.started /\ health.final.ended
                   /\ family # "none" => Published("injection_started") # {}
      BY DEF Valid, Recorded
    <2>3. QED
      BY <1>1, <2>1, <2>2
  <1>13. QED
    BY <1>4, <1>6, <1>7, <1>8, <1>9, <1>10, <1>11, <1>12 DEF Runner

\* The nodes leave the runner alone, and what they published stays.
LEMMA NodesInv ==
  ASSUME IInv, DeliverGoal \/ Nodes
  PROVE  IInv'
  <1> USE DEF IInv
  <1>1. now \in Nat /\ wire \in Seq(Event)
    BY DEF FaultInv, FaultTypes
  <1>2. FaultInv'
    <2>1. CASE DeliverGoal
      <3>1. PICK i \in Marked("goal_dispatched") : GoalMarker(marks[i].time)
        BY <2>1 DEF DeliverGoal
      <3>2. marks[i].time \in Nat
        <4>1. i \in 1..Len(marks)
          BY LenProperties DEF Marked, MarksInOrder
        <4>2. marks[i] \in Event
          BY <4>1, ElementOfSeq DEF MarksInOrder
        <4>3. QED
          BY <4>2 DEF Event
      <3>3. UNCHANGED <<now, family, readable, stamps, corrupted, entities>>
        BY <2>1 DEF DeliverGoal, proxyVars, worldVars
      <3>4. CASE Arm(marks[i].time)
        BY <3>2, <3>3, <3>4, ArmInv
      <3>5. CASE UNCHANGED <<schedule, wire>>
        BY <1>1, <3>3, <3>5, IdleInv DEF FaultIdle
      <3>6. QED
        BY <3>1, <3>4, <3>5 DEF GoalMarker
    <2>2. CASE BehaviorTreeLog
      <3>1. Arm(now) /\ UNCHANGED <<now, family, readable, stamps, corrupted, entities>>
        BY <2>2 DEF BehaviorTreeLog, proxyVars, worldVars
      <3>2. QED
        BY <1>1, <3>1, ArmInv
    <2>3. CASE Eligibility
      BY <1>1, <2>3, IdleInv DEF Eligibility, FaultIdle, proxyVars, worldVars
    <2>4. CASE FaultClock
      BY <1>1, <2>4, IdleInv DEF FaultClock, FaultIdle, proxyVars, worldVars
    <2>5. CASE Sensor
      <3>1. PICK s \in Streams, lag \in 0..MaxLag : lag <= now /\ Message(s, now - lag)
        BY <2>5 DEF Sensor
      <3>2. now - lag \in Nat /\ now - lag <= now /\ now - (now - lag) <= MaxLag
        BY <1>1, <3>1, ScheduleOK
      <3>3. QED
        BY <3>1, <3>2, MessageInv
    <2>6. CASE EnvironmentTick
      BY <2>6, TickInv
    <2>7. QED
      BY <2>1, <2>2, <2>3, <2>4, <2>5, <2>6 DEF Nodes
  <1>3. UNCHANGED <<pc, marks, terminal, health, summary, events, verdict>>
    BY DEF DeliverGoal, Nodes, runnerVars
  <1>4. MarksInOrder'
    <2>1. InOrder => InOrder'
      BY <1>3 DEF InOrder, Marked
    <2>2. QED
      BY <1>3, <2>1 DEF MarksInOrder, Marked
  <1>5. VerdictFollows'
    <2>1. verdict # "accepted"
      BY DEF DeliverGoal, Nodes, Live, VerdictFollows
    <2>2. QED
      BY <1>3, <2>1 DEF VerdictFollows
  <1>6. QED
    BY <1>2, <1>4, <1>5

LEMMA InitInv == Init => IInv
  <1> SUFFICES ASSUME Init PROVE IInv
    OBVIOUS
  <1>1. FaultTypes
    BY DEF Init, FaultInit, FaultTypes, Time, Never
  <1>2. \A type : Published(type) = {}
    BY DEF Init, FaultInit, Published
  <1>3. OnsetAfterPrefix /\ WireFollowsSchedule /\ CorruptionBounded /\ StartedIsTreated
    BY <1>2 DEF Init, FaultInit, OnsetAfterPrefix, WireFollowsSchedule, CorruptionBounded,
                StartedIsTreated
  <1>4. MarksInOrder
    BY DEF Init, MarksInOrder
  <1>5. VerdictFollows
    BY DEF Init, VerdictFollows
  <1>6. QED
    BY <1>1, <1>3, <1>4, <1>5 DEF IInv, FaultInv

LEMMA StepInv == IInv /\ [Next]_vars => IInv'
  <1> SUFFICES ASSUME IInv, [Next]_vars
               PROVE  IInv'
    OBVIOUS
  <1>1. ASSUME UNCHANGED faultVars
        PROVE  FaultInv'
    BY <1>1, IdleInv DEF IInv, FaultInv, FaultTypes, FaultIdle, faultVars
  <1>2. CASE Runner
    BY <1>1, <1>2, RunnerMarks, RunnerVerdict DEF IInv, Runner
  <1>3. CASE Crash
    <2>1. MarksInOrder'
      BY <1>3 DEF IInv, Crash, Kill, MarksInOrder
    <2>2. VerdictFollows'
      BY <1>3 DEF Crash, Kill, VerdictFollows
    <2>3. QED
      BY <1>1, <1>3, <2>1, <2>2 DEF IInv, Crash
  <1>4. CASE DeliverGoal \/ Nodes
    BY <1>4, NodesInv
  <1>5. CASE UNCHANGED vars
    <2>1. MarksInOrder'
      <3>1. InOrder => InOrder'
        BY <1>5 DEF InOrder, Marked, vars, runnerVars
      <3>2. QED
        BY <1>5, <3>1 DEF IInv, MarksInOrder, Marked, vars, runnerVars
    <2>2. VerdictFollows'
      BY <1>5 DEF IInv, VerdictFollows, Published, vars, runnerVars, faultVars
    <2>3. QED
      BY <1>1, <1>5, <2>1, <2>2 DEF IInv, vars
  <1>6. QED
    BY <1>2, <1>3, <1>4, <1>5 DEF Next

LEMMA AlwaysInv == Spec => []IInv
  BY InitInv, StepInv, PTL DEF Spec
-----------------------------------------------------------------------------
(* What the runs check, for every schedule.                                *)

LEMMA AtMostOne ==
  ASSUME NEW S, \A i, j \in S : i = j
  PROVE  Cardinality(S) <= 1
  <1>1. CASE S = {}
    <2>1. Cardinality(S) = 0
      BY <1>1, FS_EmptySet
    <2>2. QED
      BY <2>1
  <1>2. CASE S # {}
    <2>1. PICK i \in S : TRUE
      BY <1>2
    <2>2. S = {i}
      BY <2>1
    <2>3. Cardinality(S) = 1
      BY <2>2, FS_Singleton
    <2>4. QED
      BY <2>3
  <1>3. QED
    BY <1>1, <1>2

\* Whatever order goal signals, behaviour-tree logs, sensor messages and timer
\* ticks come in, the nodes announce at most one planned and one started
\* injection, and the clean prefix of schedule.py lies between the two.
THEOREM StartsAfterPrefix == Spec => []StartedAfterPrefix
  <1>1. IInv => StartedAfterPrefix
    <2> SUFFICES ASSUME IInv PROVE StartedAfterPrefix
      OBVIOUS
    <2>1. /\ Cardinality(Published("injection_planned")) <= 1
          /\ Cardinality(Published("injection_started")) <= 1
      BY AtMostOne DEF IInv, FaultInv, WireFollowsSchedule
    <2>2. ASSUME NEW i \in Published("injection_started")
          PROVE  \E j \in Published("injection_planned") :
                    j < i /\ wire[i].time - wire[j].time >= CleanPrefix
      <3>1. PICK j \in Published("injection_planned") : j < i
        BY <2>2 DEF IInv, FaultInv, WireFollowsSchedule
      <3>2. /\ schedule.onset # Never /\ wire[i].time = schedule.onset
            /\ schedule.armed # Never /\ wire[j].time = schedule.armed
        BY <2>2, <3>1 DEF IInv, FaultInv, WireFollowsSchedule
      <3>3. schedule.onset - schedule.armed >= Onset
        BY <3>2 DEF IInv, FaultInv, OnsetAfterPrefix
      <3>4. schedule.onset \in Int /\ schedule.armed \in Int
        BY DEF IInv, FaultInv, FaultTypes, Time, Never
      <3>5. QED
        BY <3>1, <3>2, <3>3, <3>4, ScheduleOK
    <2>3. QED
      BY <2>1, <2>2 DEF StartedAfterPrefix
  <1>2. QED
    BY <1>1, AlwaysInv, PTL

\* ... and the proxy corrupts no message of the clean prefix, if the second
\* stream of semantic_corruption is not further behind than the time between
\* the clean prefix and the planned onset.  (The stream that is ahead starts
\* the fault; on_message corrupts what arrives then, whatever its stamp.)
THEOREM PrefixIsClean ==
  ASSUME "semantic" \in Families => MaxLag <= Onset - CleanPrefix
  PROVE  Spec => []CleanPrefixKept
  <1>1. IInv => OnlyFaultCorrupts
    <2> SUFFICES ASSUME IInv, NEW t \in corrupted
                 PROVE  /\ t - schedule.armed >= CleanPrefix
                        /\ t <= schedule.onset + Duration
      BY DEF OnlyFaultCorrupts
    <2>1. /\ schedule.onset \in Int /\ schedule.armed \in Int /\ t \in Nat
          /\ family \in Families
      BY DEF IInv, FaultInv, FaultTypes, Time, Never
    <2>2. schedule.onset - schedule.armed >= Onset
      BY DEF IInv, FaultInv, OnsetAfterPrefix, CorruptionBounded
    <2>3. /\ t >= schedule.onset - MaxLag /\ t <= schedule.onset + Duration
          /\ family # "semantic" => t >= schedule.onset
      BY DEF IInv, FaultInv, CorruptionBounded
    <2>4. CASE family = "semantic"
      BY <2>1, <2>2, <2>3, <2>4, ScheduleOK
    <2>5. CASE family # "semantic"
      BY <2>1, <2>2, <2>3, <2>5, ScheduleOK
    <2>6. QED
      BY <2>4, <2>5
  <1>2. QED
    BY <1>1, StartsAfterPrefix, AlwaysInv, PTL DEF CleanPrefixKept

\* An episode the campaign runner accepts has its summary and its events, the
\* announced terminal state, and a window that was opened before the goal and
\* closed after the terminal event, however the teardown truncates the bag and
\* the health file (run_research2_episode.py, episode_artifacts.py).
THEOREM AcceptedIsComplete == Spec => []AcceptedComplete
  <1>1. IInv => AcceptedComplete
    <2> SUFFICES ASSUME IInv, verdict = "accepted"
                 PROVE  /\ summary = terminal /\ summary # "invalid" /\ events = Len(marks)
                        /\ health.final.started /\ health.final.ended
                        /\ InOrder
      BY DEF AcceptedComplete, InOrder
    <2>1. QED
      BY DEF IInv, MarksInOrder, VerdictFollows
  <1>2. QED
    BY <1>1, AlwaysInv, PTL

\* A faulted episode the campaign runner accepts was treated: every obstacle
\* was spawned, or a message was corrupted if the images could be.
THEOREM AcceptedIsTreated == Spec => []AcceptedTreated
  <1>1. IInv => AcceptedTreated
    <2> SUFFICES ASSUME IInv, verdict = "accepted", family # "none", readable
                 PROVE  IF family \in Environment THEN entities = Wanted ELSE corrupted # {}
      BY DEF AcceptedTreated
    <2>1. PICK i \in Published("injection_started") : TRUE
      BY DEF IInv, VerdictFollows
    <2>2. schedule.onset # Never
      BY <2>1 DEF IInv, FaultInv, WireFollowsSchedule
    <2>3. QED
      BY <2>1, <2>2 DEF IInv, FaultInv, StartedIsTreated
  <1>2. QED
    BY <1>1, AlwaysInv, PTL

-----------------------------------------------------------------------------
(* One pass over a sequence.                                               *)

\* A set of numbers has a least one.
LEMMA LeastNat ==
  ASSUME NEW T, T \subseteq Nat, T # {}
  PROVE  \E x \in T : \A y \in T : x <= y
  <1>1. \E x \in T : \A y \in T : ~(<<y, x>> \in OpToRel(<, Nat))
    BY NatLessThanWellFounded, WFMin
  <1>2. ASSUME NEW x \in Nat, NEW y \in Nat
        PROVE  <<y, x>> \in OpToRel(<, Nat) <=> y < x
    BY <1>2 DEF OpToRel
  <1>3. PICK x \in T : \A y \in T : ~(<<y, x>> \in OpToRel(<, Nat))
    BY <1>1
  <1>4. ASSUME NEW y \in T
        PROVE  x <= y
    <2>1. x \in Nat /\ y \in Nat
      OBVIOUS
    <2>2. ~(y < x)
      BY <1>2, <1>3, <2>1
    <2>3. QED
      BY <2>1, <2>2
  <1>5. QED
    BY <1>4

\* What holds before the first step, and after a step if before it, holds after all.
LEMMA EveryStep ==
  ASSUME NEW n \in Nat, NEW I, 0 \in I, \A i \in 1..n : i - 1 \in I => i \in I
  PROVE  \A i \in 0..n : i \in I
  <1> DEFINE T == {i \in 0..n : i \notin I}
  <1>1. SUFFICES ASSUME T # {} PROVE FALSE
    OBVIOUS
  <1>2. PICK m \in T : \A y \in T : m <= y
    <2>1. T \subseteq Nat
      OBVIOUS
    <2> HIDE DEF T
    <2>2. QED
      BY <1>1, <2>1, LeastNat
  <1>3. m \in 1..n /\ m - 1 \in 0..n /\ m \notin I
    BY <1>2
  <1>4. m - 1 \notin T
    BY <1>2, <1>3
  <1>5. m - 1 \in I
    BY <1>3, <1>4
  <1>6. QED
    BY <1>3, <1>5

\* The states of a pass of n steps.
IsPass(n, start, step, f) ==
    f[0] = start /\ \A i \in 1..n : f[i] = step[i][f[i - 1]]

LEMMA PassExists ==
  ASSUME NEW n \in Nat, NEW S, NEW start \in S, NEW step \in [1..n -> [S -> S]]
  PROVE  \E f \in [0..n -> S] : IsPass(n, start, step, f)
  <1> DEFINE I == {m \in 0..n : \E f \in [0..m -> S] : IsPass(m, start, step, f)}
  <1>1. 0 \in I
    <2> DEFINE f == [i \in 0..0 |-> start]
    <2>1. f \in [0..0 -> S] /\ f[0] = start
      OBVIOUS
    <2> HIDE DEF f
    <2>2. IsPass(0, start, step, f)
      BY <2>1 DEF IsPass
    <2>3. QED
      BY <2>1, <2>2
  <1>2. ASSUME NEW m \in 1..n, m - 1 \in I
        PROVE  m \in I
    <2>1. PICK g \in [0..(m - 1) -> S] : IsPass(m - 1, start, step, g)
      BY <1>2
    <2>2. g[0] = start /\ \A i \in 1..(m - 1) : g[i] = step[i][g[i - 1]]
      BY <2>1 DEF IsPass
    <2>3. step[m][g[m - 1]] \in S
      OBVIOUS
    <2> DEFINE newest == step[m][g[m - 1]]
               f == [i \in 0..m |-> IF i = m THEN newest ELSE g[i]]
    <2>4. f[m] = newest /\ (\A i \in 0..(m - 1) : f[i] = g[i]) /\ f \in [0..m -> S]
      <3> HIDE DEF newest
      <3>1. newest \in S
        BY <2>3 DEF newest
      <3>2. QED
        BY <3>1
    <2> HIDE DEF f, newest
    <2>5. f[0] = start
      BY <2>2, <2>4
    <2>6. ASSUME NEW i \in 1..m
          PROVE  f[i] = step[i][f[i - 1]]
      <3>1. i - 1 \in 0..(m - 1) /\ f[i - 1] = g[i - 1]
        BY <2>4
      <3>2. CASE i = m
        BY <2>4, <3>1, <3>2 DEF newest
      <3>3. CASE i # m
        <4>1. i \in 1..(m - 1) /\ i \in 0..(m - 1)
          BY <3>3
        <4>2. QED
          BY <2>2, <2>4, <3>1, <4>1
      <3>4. QED
        BY <3>2, <3>3
    <2>7. IsPass(m, start, step, f)
      BY <2>5, <2>6 DEF IsPass
    <2>8. QED
      BY <2>4, <2>7
  <1> HIDE DEF I
  <1>3. n \in I
    <2>1. \A i \in 0..n : i \in I
      BY <1>1, <1>2, EveryStep
    <2>2. QED
      BY <2>1
  <1>4. QED
    BY <1>3 DEF I

\* The same, as the recursive definition of a function.
IsScan(n, start, step, f) ==
    f = [i \in 0..n |-> IF i = 0 THEN start ELSE step[i][f[i - 1]]]

LEMMA PassEquation ==
  ASSUME NEW n \in Nat, NEW S, NEW start \in S, NEW step \in [1..n -> [S -> S]]
  PROVE  \E f \in [0..n -> S] : IsScan(n, start, step, f)
  <1>1. PICK f \in [0..n -> S] : IsPass(n, start, step, f)
    BY PassExists
  <1> DEFINE e(i) == IF i = 0 THEN start ELSE step[i][f[i - 1]]
  <1>2. ASSUME NEW i \in 0..n
        PROVE  f[i] = e(i)
    <2>1. i = 0 \/ i \in 1..n
      OBVIOUS
    <2>2. QED
      BY <1>1, <2>1 DEF IsPass
  <1>3. f = [i \in 0..n |-> e(i)]
    <2> HIDE DEF e
    <2>1. QED
      BY <1>2
  <1>4. QED
    BY <1>3 DEF IsScan

-----------------------------------------------------------------------------
(* The evidence is sorted.                                                 *)

\* A sequence of samples in the order of their times.
Timed(s) ==
    /\ Len(s) \in Nat /\ DOMAIN s = 1..Len(s)
    /\ \A i \in 1..Len(s) : s[i].t \in Nat
    /\ \A i, j \in 1..Len(s) : i < j => s[i].t < s[j].t

IsKept(s, positions, f) ==
    f = [n \in 0..Len(s) |->
           IF n = 0 THEN <<>>
           ELSE IF n \in positions THEN Append(f[n - 1], s[n]) ELSE f[n - 1]]

LEMMA KeptIsPass ==
  ASSUME NEW s, NEW positions
  PROVE  Kept(s, positions) = (CHOOSE f : IsKept(s, positions, f))[Len(s)]
  BY DEF Kept, IsKept

LEMMA KeptSteps ==
  ASSUME NEW s, NEW positions, NEW f, IsKept(s, positions, f), Len(s) \in Nat
  PROVE  /\ f[0] = <<>>
         /\ \A n \in 1..Len(s) :
              f[n] = IF n \in positions THEN Append(f[n - 1], s[n]) ELSE f[n - 1]
  <1> DEFINE g == [n \in 0..Len(s) |->
                     IF n = 0 THEN <<>>
                     ELSE IF n \in positions THEN Append(f[n - 1], s[n]) ELSE f[n - 1]]
  <1>1. f = g
    BY DEF IsKept
  <1>2. g[0] = <<>>
    OBVIOUS
  <1>3. \A n \in 1..Len(s) :
          g[n] = IF n \in positions THEN Append(f[n - 1], s[n]) ELSE f[n - 1]
    OBVIOUS
  <1> HIDE DEF g
  <1>4. QED
    BY <1>1, <1>2, <1>3

LEMMA KeptExists ==
  ASSUME NEW s, Samples(s), NEW positions
  PROVE  \E f : IsKept(s, positions, f)
  <1> DEFINE S == Seq(Range(s))
             n == Len(s)
             step == [i \in 1..n |-> [q \in S |-> IF i \in positions THEN Append(q, s[i]) ELSE q]]
  <1>1. n \in Nat /\ \A i \in 1..n : s[i] \in Range(s)
    BY DEF Samples, Range
  <1>2. <<>> \in S
    OBVIOUS
  <1>3. \A i \in 1..n, q \in S : Append(q, s[i]) \in S
    BY <1>1
  <1>4. step \in [1..n -> [S -> S]]
    <2> HIDE DEF S
    <2>1. QED
      BY <1>3
  <1>5. \A i \in 1..n, q \in S : step[i][q] = IF i \in positions THEN Append(q, s[i]) ELSE q
    <2> HIDE DEF S
    <2>1. QED
      OBVIOUS
  <1> HIDE DEF S, step
  <1>6. PICK f \in [0..n -> S] : IsScan(n, <<>>, step, f)
    <2> HIDE DEF n
    <2>1. QED
      BY <1>1, <1>2, <1>4, PassEquation
  <1>7. ASSUME NEW i \in 0..n, i # 0
        PROVE  step[i][f[i - 1]] = IF i \in positions THEN Append(f[i - 1], s[i]) ELSE f[i - 1]
    <2>1. i \in 1..n /\ f[i - 1] \in S
      BY <1>1, <1>6, <1>7
    <2>2. QED
      BY <1>5, <2>1
  <1>8. IsKept(s, positions, f)
    BY <1>6, <1>7 DEF IsKept, IsScan
  <1>9. QED
    BY <1>8

LEMMA KeptSorted ==
  ASSUME NEW s, Samples(s), NEW positions
  PROVE  /\ Kept(s, positions) \in Seq(Range(s)) /\ Timed(Kept(s, positions))
         /\ \A i \in DOMAIN Kept(s, positions) : Kept(s, positions)[i].x \in Int
  <1> DEFINE f == CHOOSE f : IsKept(s, positions, f)
             n == Len(s)
             Good(q, i) == /\ q \in Seq(Range(s))
                           /\ \A k \in 1..Len(q) : \E m \in 1..i : q[k] = s[m]
                           /\ \A j, k \in 1..Len(q) : j < k => q[j].t < q[k].t
             I == {i \in 0..n : Good(f[i], i)}
  <1>1. n \in Nat /\ \A i \in 1..n : s[i] \in Range(s) /\ s[i].t \in Nat /\ s[i].x \in Int
    BY DEF Samples, Range
  <1>2. \A i, j \in 1..n : i < j => s[i].t < s[j].t
    BY DEF Samples
  <1>3. IsKept(s, positions, f)
    <2>1. \E g : IsKept(s, positions, g)
      BY KeptExists
    <2>2. QED
      BY <2>1
  <1> HIDE DEF f
  <1>4. /\ f[0] = <<>>
        /\ \A i \in 1..n : f[i] = IF i \in positions THEN Append(f[i - 1], s[i]) ELSE f[i - 1]
    BY <1>1, <1>3, KeptSteps
  <1>5. 0 \in I
    <2>1. <<>> \in Seq(Range(s)) /\ Len(<<>>) = 0
      OBVIOUS
    <2>2. Good(<<>>, 0)
      BY <2>1
    <2> HIDE DEF Good
    <2>3. QED
      BY <1>1, <1>4, <2>2
  <1>6. ASSUME NEW i \in 1..n, i - 1 \in I
        PROVE  i \in I
    <2> DEFINE q == f[i - 1]
    <2>1. Good(q, i - 1)
      BY <1>6
    <2>2. q \in Seq(Range(s)) /\ Len(q) \in Nat
      BY <2>1
    <2> HIDE DEF q
    <2>3. ASSUME NEW k \in 1..Len(q)
          PROVE  \E m \in 1..(i - 1) : q[k] = s[m]
      BY <2>1
    <2>4. \A j, k \in 1..Len(q) : j < k => q[j].t < q[k].t
      BY <2>1
    <2>5. CASE i \notin positions
      <3>1. f[i] = q
        BY <1>4, <2>5 DEF q
      <3>2. \A k \in 1..Len(q) : \E m \in 1..i : q[k] = s[m]
        <4>1. \A m \in 1..(i - 1) : m \in 1..i
          BY <1>1
        <4>2. QED
          BY <2>3, <4>1
      <3>3. Good(q, i)
        BY <2>2, <2>4, <3>2
      <3> HIDE DEF Good
      <3>4. QED
        BY <1>1, <3>1, <3>3
    <2>6. CASE i \in positions
      <3> DEFINE r == Append(q, s[i])
      <3>1. f[i] = r
        BY <1>4, <2>6 DEF q
      <3>2. /\ r \in Seq(Range(s)) /\ Len(r) = Len(q) + 1 /\ r[Len(q) + 1] = s[i]
            /\ \A k \in 1..Len(q) : r[k] = q[k]
        BY <1>1, <2>2, AppendProperties
      <3> HIDE DEF r
      <3>3. ASSUME NEW k \in 1..Len(r)
            PROVE  \E m \in 1..i : r[k] = s[m]
        <4>1. CASE k = Len(q) + 1
          BY <1>1, <3>2, <4>1
        <4>2. CASE k # Len(q) + 1
          <5>1. k \in 1..Len(q)
            BY <2>2, <3>2, <4>2
          <5>2. PICK m \in 1..(i - 1) : q[k] = s[m]
            BY <2>3, <5>1
          <5>3. m \in 1..i
            BY <1>1
          <5>4. QED
            BY <3>2, <5>1, <5>2, <5>3
        <4>3. QED
          BY <4>1, <4>2
      <3>4. ASSUME NEW j \in 1..Len(r), NEW k \in 1..Len(r), j < k
            PROVE  r[j].t < r[k].t
        <4>1. j \in 1..Len(q) /\ r[j] = q[j]
          BY <2>2, <3>2, <3>4
        <4>2. CASE k = Len(q) + 1
          <5>1. PICK m \in 1..(i - 1) : q[j] = s[m]
            BY <2>3, <4>1
          <5>2. m \in 1..n /\ i \in 1..n /\ m < i
            BY <1>1
          <5>3. s[m].t < s[i].t
            BY <1>2, <5>2
          <5>4. QED
            BY <3>2, <4>1, <4>2, <5>1, <5>3
        <4>3. CASE k # Len(q) + 1
          <5>1. k \in 1..Len(q)
            BY <2>2, <3>2, <4>3
          <5>2. QED
            BY <2>4, <3>2, <3>4, <4>1, <5>1
        <4>4. QED
          BY <4>2, <4>3
      <3>5. Good(r, i)
        BY <3>2, <3>3, <3>4
      <3> HIDE DEF Good
      <3>6. QED
        BY <1>1, <3>1, <3>5
    <2>7. QED
      BY <2>5, <2>6
  <1>7. n \in I
    <2> HIDE DEF I
    <2>1. \A i \in 0..n : i \in I
      BY <1>1, <1>5, <1>6, EveryStep
    <2>2. QED
      BY <1>1, <2>1
  <1>8. Kept(s, positions) = f[n]
    BY KeptIsPass DEF f
  <1> DEFINE q == f[n]
  <1>9. Good(q, n)
    BY <1>7
  <1> HIDE DEF q
  <1>10. \A k \in 1..Len(q) : \E m \in 1..n : q[k] = s[m]
    BY <1>9
  <1>11. q \in Seq(Range(s)) /\ Len(q) \in Nat /\ DOMAIN q = 1..Len(q)
    BY <1>9
  <1>12. \A k \in 1..Len(q) : q[k].t \in Nat /\ q[k].x \in Int
    BY <1>1, <1>10
  <1>13. \A j, k \in 1..Len(q) : j < k => q[j].t < q[k].t
    BY <1>9
  <1>14. Timed(q)
    BY <1>11, <1>12, <1>13 DEF Timed
  <1>15. QED
    BY <1>8, <1>11, <1>12, <1>14 DEF q

LEMMA PoseErrorsTimed ==
  ASSUME NEW e, Recording(e)
  PROVE  Timed(PoseErrors(e))
  <1> DEFINE near == {i \in DOMAIN e.amcl : Nearest(e.truth, e.amcl[i].t) # None}
             q == Kept(e.amcl, near)
             v(i) == [t |-> q[i].t, x |-> Distance(q[i].x, e.truth[Nearest(e.truth, q[i].t)].x),
                      yaw |-> Distance(q[i].yaw, e.truth[Nearest(e.truth, q[i].t)].yaw)]
             s == [i \in DOMAIN q |-> v(i)]
  <1>1. PoseErrors(e) = s
    BY DEF PoseErrors
  <1>2. Timed(q)
    <2>1. Samples(e.amcl)
      BY DEF Recording
    <2> HIDE DEF near
    <2>2. QED
      BY <2>1, KeptSorted
  <1> HIDE DEF near, q
  <1>3. /\ Len(q) \in Nat /\ DOMAIN q = 1..Len(q)
        /\ \A i \in 1..Len(q) : q[i].t \in Nat
        /\ \A i, j \in 1..Len(q) : i < j => q[i].t < q[j].t
    BY <1>2 DEF Timed
  <1>4. \A i \in 1..Len(q) : v(i).t = q[i].t
    OBVIOUS
  <1> HIDE DEF v
  <1>5. DOMAIN s = 1..Len(q) /\ \A i \in 1..Len(q) : s[i] = v(i)
    BY <1>3
  <1>6. Len(s) = Len(q)
    BY <1>3
  <1> HIDE DEF s
  <1>7. Timed(s)
    BY <1>3, <1>4, <1>5, <1>6 DEF Timed
  <1>8. QED
    BY <1>1, <1>7

LEMMA MotionTimed ==
  ASSUME NEW e, Recording(e)
  PROVE  Timed(Motion(e)) /\ \A i \in 1..Len(Motion(e)) : Motion(e)[i].x \in Int
  <1> DEFINE fresh == {i \in DOMAIN e.odometry : CommandAt(e, e.odometry[i].t) # None}
             q == Kept(e.odometry, fresh)
             v(i) == [t |-> q[i].t, x |-> q[i].x, moving |-> e.commands[CommandAt(e, q[i].t)].moving]
             s == [i \in DOMAIN q |-> v(i)]
  <1>1. Motion(e) = s
    BY DEF Motion
  <1>2. Timed(q) /\ \A i \in DOMAIN q : q[i].x \in Int
    <2>1. Samples(e.odometry)
      BY DEF Recording
    <2> HIDE DEF fresh
    <2>2. QED
      BY <2>1, KeptSorted
  <1> HIDE DEF fresh, q
  <1>3. /\ Len(q) \in Nat /\ DOMAIN q = 1..Len(q)
        /\ \A i \in 1..Len(q) : q[i].t \in Nat
        /\ \A i, j \in 1..Len(q) : i < j => q[i].t < q[j].t
    BY <1>2 DEF Timed
  <1>4. \A i \in 1..Len(q) : v(i).t = q[i].t /\ v(i).x = q[i].x
    OBVIOUS
  <1> HIDE DEF v
  <1>5. DOMAIN s = 1..Len(q) /\ \A i \in 1..Len(q) : s[i] = v(i)
    BY <1>3
  <1>6. Len(s) = Len(q)
    BY <1>3
  <1> HIDE DEF s
  <1>7. Timed(s)
    BY <1>3, <1>4, <1>5, <1>6 DEF Timed
  <1>8. \A i \in 1..Len(s) : s[i].x \in Int
    BY <1>2, <1>3, <1>4, <1>5, <1>6
  <1>9. QED
    BY <1>1, <1>7, <1>8

-----------------------------------------------------------------------------
(* A clock is the start of the longest unbroken run.                       *)

\* The samples from i to j follow each other, and all are among H.
RunOf(s, H, gap, i, j) == Unbroken(s, i, j, gap) /\ i..j \subseteq H

ClockAt(s, H, gap, n, c) ==
    IF n = 0 \/ n \notin H THEN c = None
    ELSE \E i \in 1..n : /\ c = s[i].t /\ RunOf(s, H, gap, i, n)
                         /\ \A k \in 1..n : RunOf(s, H, gap, k, n) => i <= k

LEMMA RunGrows ==
  ASSUME NEW s, NEW H, NEW gap, NEW n \in Nat \ {0}
  PROVE  /\ RunOf(s, H, gap, n, n) <=> n \in H
         /\ \A k \in 1..(n - 1) :
              RunOf(s, H, gap, k, n) <=>
                RunOf(s, H, gap, k, n - 1) /\ s[n].t - s[n - 1].t <= gap /\ n \in H
  <1>1. RunOf(s, H, gap, n, n) <=> n \in H
    <2>1. n..n = {n} /\ (n + 1)..n = {}
      OBVIOUS
    <2>2. QED
      BY <2>1 DEF RunOf, Unbroken
  <1>2. ASSUME NEW k \in 1..(n - 1)
        PROVE  RunOf(s, H, gap, k, n) <=>
                 RunOf(s, H, gap, k, n - 1) /\ s[n].t - s[n - 1].t <= gap /\ n \in H
    <2>1. k..n = (k..(n - 1)) \cup {n} /\ (k + 1)..n = ((k + 1)..(n - 1)) \cup {n}
      OBVIOUS
    <2>2. Unbroken(s, k, n, gap) <=> Unbroken(s, k, n - 1, gap) /\ s[n].t - s[n - 1].t <= gap
      BY <2>1 DEF Unbroken
    <2>3. QED
      BY <2>1, <2>2 DEF RunOf
  <1>3. QED
    BY <1>1, <1>2

LEMMA ClockStep ==
  ASSUME NEW s, Timed(s), NEW H, NEW gap \in Nat, NEW n \in 1..Len(s), NEW c, NEW before,
         before = (IF n = 1 THEN None ELSE s[n - 1].t), ClockAt(s, H, gap, n - 1, c)
  PROVE  ClockAt(s, H, gap, n,
                 Since(IF Broken(before, s[n].t, gap) THEN None ELSE c, n \in H, s[n].t))
  <1> DEFINE d == IF Broken(before, s[n].t, gap) THEN None ELSE c
             r == Since(d, n \in H, s[n].t)
  <1>1. n \in Nat \ {0} /\ s[n].t \in Nat /\ \A i \in 1..n : s[i].t \in Nat /\ s[i].t # None
    BY DEF Timed, None
  <1>2. CASE n \notin H
    <2>1. r = None
      BY <1>2 DEF Since
    <2>2. QED
      BY <1>2, <2>1 DEF ClockAt
  <1>3. CASE n \in H /\ d = None
    <2>1. r = s[n].t
      BY <1>3 DEF Since
    <2>2. ASSUME NEW k \in 1..n, RunOf(s, H, gap, k, n)
          PROVE  n <= k
      <3>1. SUFFICES ASSUME k < n PROVE FALSE
        BY <1>1
      <3>2. k \in 1..(n - 1) /\ n # 1 /\ n - 1 # 0 /\ n - 1 \in 1..(n - 1)
        BY <1>1, <3>1
      <3>3. RunOf(s, H, gap, k, n - 1) /\ s[n].t - s[n - 1].t <= gap
        BY <1>1, <2>2, <3>2, RunGrows
      <3>4. n - 1 \in H
        BY <3>2, <3>3 DEF RunOf
      <3>5. PICK i \in 1..(n - 1) : c = s[i].t
        BY <3>2, <3>4 DEF ClockAt
      <3>6. c # None
        BY <1>1, <3>5
      <3>7. s[n - 1].t \in Nat
        BY <1>1, <3>2
      <3>8. ~Broken(before, s[n].t, gap)
        BY <1>1, <3>2, <3>3, <3>7 DEF Broken
      <3>9. QED
        BY <1>3, <3>6, <3>8
    <2>3. RunOf(s, H, gap, n, n)
      BY <1>1, <1>3, RunGrows
    <2>4. n \in 1..n
      BY <1>1
    <2>5. QED
      BY <1>1, <1>3, <2>1, <2>2, <2>3, <2>4 DEF ClockAt
  <1>4. CASE n \in H /\ d # None
    <2>1. c # None /\ d = c /\ ~Broken(before, s[n].t, gap)
      BY <1>4
    <2>2. r = c
      BY <1>4, <2>1 DEF Since
    <2>3. n - 1 # 0 /\ n - 1 \in H
      BY <2>1 DEF ClockAt
    <2>4. PICK i \in 1..(n - 1) : /\ c = s[i].t /\ RunOf(s, H, gap, i, n - 1)
                                  /\ \A k \in 1..(n - 1) : RunOf(s, H, gap, k, n - 1) => i <= k
      BY <2>3 DEF ClockAt
    <2>5. s[n].t - s[n - 1].t <= gap
      <3>1. n - 1 \in 1..n
        BY <1>1, <2>3
      <3>2. s[n - 1].t \in Nat /\ before = s[n - 1].t /\ before # None
        BY <1>1, <2>3, <3>1
      <3>3. QED
        BY <1>1, <2>1, <3>2 DEF Broken
    <2>6. RunOf(s, H, gap, i, n)
      BY <1>1, <1>4, <2>4, <2>5, RunGrows
    <2>7. ASSUME NEW k \in 1..n, RunOf(s, H, gap, k, n)
          PROVE  i <= k
      <3>1. CASE k = n
        BY <1>1, <3>1
      <3>2. CASE k # n
        <4>1. k \in 1..(n - 1)
          BY <1>1, <3>2
        <4>2. RunOf(s, H, gap, k, n - 1)
          BY <1>1, <2>7, <4>1, RunGrows
        <4>3. QED
          BY <2>4, <4>1, <4>2
      <3>3. QED
        BY <3>1, <3>2
    <2>8. i \in 1..n
      BY <1>1
    <2>9. QED
      BY <1>1, <1>4, <2>2, <2>4, <2>6, <2>7, <2>8 DEF ClockAt
  <1>5. QED
    BY <1>2, <1>3, <1>4

\* A clock has run for long enough exactly if some run has.
LEMMA ClockLasted ==
  ASSUME NEW s, Timed(s), NEW H, NEW gap, NEW n \in 1..Len(s), NEW c, ClockAt(s, H, gap, n, c),
         NEW seconds \in Nat
  PROVE  Lasted(c, s[n].t, seconds) <=>
           \E i \in 1..n : s[n].t - s[i].t >= seconds /\ RunOf(s, H, gap, i, n)
  <1>1. n \in Nat \ {0} /\ s[n].t \in Nat /\ \A i \in 1..n : s[i].t \in Nat /\ s[i].t # None
    BY DEF Timed, None
  <1>2. ASSUME Lasted(c, s[n].t, seconds)
        PROVE  \E i \in 1..n : s[n].t - s[i].t >= seconds /\ RunOf(s, H, gap, i, n)
    <2>1. c # None /\ s[n].t - c >= seconds
      BY <1>2 DEF Lasted
    <2>2. PICK i \in 1..n : c = s[i].t /\ RunOf(s, H, gap, i, n)
      BY <2>1 DEF ClockAt
    <2>3. QED
      BY <2>1, <2>2
  <1>3. ASSUME NEW k \in 1..n, s[n].t - s[k].t >= seconds, RunOf(s, H, gap, k, n)
        PROVE  Lasted(c, s[n].t, seconds)
    <2>1. n # 0 /\ n \in H
      BY <1>1, <1>3 DEF RunOf
    <2>2. PICK i \in 1..n : c = s[i].t /\ i <= k
      BY <1>3, <2>1 DEF ClockAt
    <2>3. s[i].t <= s[k].t
      <3>1. i \in 1..Len(s) /\ k \in 1..Len(s) /\ (i = k \/ i < k)
        BY <1>1, <2>2 DEF Timed
      <3>2. i < k => s[i].t < s[k].t
        BY <3>1 DEF Timed
      <3>3. s[i].t \in Nat /\ s[k].t \in Nat
        BY <1>1
      <3>4. QED
        BY <3>1, <3>2, <3>3
    <2>4. c # None /\ s[n].t - c >= seconds
      BY <1>1, <1>3, <2>2, <2>3
    <2>5. QED
      BY <2>4 DEF Lasted
  <1>4. QED
    BY <1>2, <1>3

-----------------------------------------------------------------------------
(* The first localisation loss is the first moment of one.                 *)

\* x is the earliest of the times in T, or None if there is none.
Earliest(x, T) == IF T = {} THEN x = None ELSE x \in T /\ \A y \in T : x <= y

OffX(s) == {k \in 1..Len(s) : s[k].x > Error}
OffYaw(s) == {k \in 1..Len(s) : s[k].yaw > Error}
LossAt(s, j) ==
    \E i \in 1..j : /\ s[j].t - s[i].t >= LossSeconds
                    /\ RunOf(s, OffX(s), LossGap, i, j) \/ RunOf(s, OffYaw(s), LossGap, i, j)

\* The state of the detector after n samples.
LossSoFar(s, n, r) ==
    IF r.at = None
    THEN /\ \A j \in 1..n : ~LossAt(s, j)
         /\ ClockAt(s, OffX(s), LossGap, n, r.x) /\ ClockAt(s, OffYaw(s), LossGap, n, r.yaw)
         /\ r.last = IF n = 0 THEN None ELSE s[n].t
    ELSE \E j \in 1..n : r.at = s[j].t /\ LossAt(s, j) /\ \A k \in 1..(j - 1) : ~LossAt(s, k)

LEMMA Constants ==
  /\ LossSeconds \in Nat \ {0} /\ LossGap \in Nat \ {0} /\ Progress \in Nat \ {0}
  /\ StuckSeconds \in Nat \ {0} /\ StuckGap \in Nat \ {0}
  /\ History \in Nat \ {0} /\ Stride \in Nat \ {0} /\ TooLate \in Nat \ {0}
  /\ Guard \in Nat \ {0} /\ Horizon \in Nat /\ Horizon > TooLate
  BY LabelsOK

LEMMA LossMomentsAre ==
  ASSUME NEW e, Recording(e), NEW s, s = PoseErrors(e)
  PROVE  LossMoments(e) = {s[j].t : j \in {j \in 1..Len(s) : LossAt(s, j)}}
  <1>1. DOMAIN s = 1..Len(s) /\ Len(s) \in Nat
    BY PoseErrorsTimed DEF Timed
  <1> DEFINE M(j) == \E i \in 1..j :
                       /\ s[j].t - s[i].t >= LossSeconds /\ Unbroken(s, i, j, LossGap)
                       /\ \/ \A k \in i..j : s[k].x > Error
                          \/ \A k \in i..j : s[k].yaw > Error
  <1>2. LossMoments(e) = {s[j].t : j \in {j \in 1..Len(s) : M(j)}}
    BY <1>1 DEF LossMoments
  <1>3. ASSUME NEW j \in 1..Len(s)
        PROVE  M(j) <=> LossAt(s, j)
    <2>1. ASSUME NEW i \in 1..j
          PROVE  /\ (i..j \subseteq OffX(s)) <=> \A k \in i..j : s[k].x > Error
                 /\ (i..j \subseteq OffYaw(s)) <=> \A k \in i..j : s[k].yaw > Error
      <3>1. \A k \in i..j : k \in 1..Len(s)
        BY <1>1
      <3>2. QED
        BY <3>1 DEF OffX, OffYaw
    <2>2. QED
      BY <2>1 DEF LossAt, RunOf
  <1> HIDE DEF M
  <1>4. QED
    BY <1>2, <1>3

LEMMA LossSoFarStep ==
  ASSUME NEW s, Timed(s), NEW n \in 1..Len(s), NEW r, LossSoFar(s, n - 1, r)
  PROVE  LossSoFar(s, n, LossStep(r, s[n]))
  <1> DEFINE cut == Broken(r.last, s[n].t, LossGap)
             x == Since(IF cut THEN None ELSE r.x, s[n].x > Error, s[n].t)
             yaw == Since(IF cut THEN None ELSE r.yaw, s[n].yaw > Error, s[n].t)
             lost == Lasted(x, s[n].t, LossSeconds) \/ Lasted(yaw, s[n].t, LossSeconds)
             q == [x |-> x, yaw |-> yaw, last |-> s[n].t, at |-> IF lost THEN s[n].t ELSE None]
  <1>1. LossStep(r, s[n]) = IF r.at # None THEN r ELSE q
    BY DEF LossStep
  <1>2. n \in Nat \ {0} /\ Len(s) \in Nat /\ s[n].t \in Nat /\ s[n].t # None
    BY DEF Timed, None
  <1>3. CASE r.at # None
    <2>1. \A j \in 1..(n - 1) : j \in 1..n
      BY <1>2
    <2>2. QED
      BY <1>1, <1>3, <2>1 DEF LossSoFar
  <1>4. CASE r.at = None
    <2>1. /\ \A j \in 1..(n - 1) : ~LossAt(s, j)
          /\ ClockAt(s, OffX(s), LossGap, n - 1, r.x)
          /\ ClockAt(s, OffYaw(s), LossGap, n - 1, r.yaw)
          /\ r.last = IF n = 1 THEN None ELSE s[n - 1].t
      BY <1>2, <1>4 DEF LossSoFar
    <2>2. (n \in OffX(s) <=> s[n].x > Error) /\ (n \in OffYaw(s) <=> s[n].yaw > Error)
      BY DEF OffX, OffYaw
    <2>3. ClockAt(s, OffX(s), LossGap, n, x)
      <3>1. x = Since(IF cut THEN None ELSE r.x, n \in OffX(s), s[n].t)
        BY <2>2 DEF Since
      <3> HIDE DEF x
      <3>2. QED
        BY <2>1, <3>1, Constants, ClockStep
    <2>4. ClockAt(s, OffYaw(s), LossGap, n, yaw)
      <3>1. yaw = Since(IF cut THEN None ELSE r.yaw, n \in OffYaw(s), s[n].t)
        BY <2>2 DEF Since
      <3> HIDE DEF yaw
      <3>2. QED
        BY <2>1, <3>1, Constants, ClockStep
    <2> HIDE DEF x, yaw
    <2>5. lost <=> LossAt(s, n)
      <3>1. Lasted(x, s[n].t, LossSeconds) <=>
              \E i \in 1..n : s[n].t - s[i].t >= LossSeconds /\ RunOf(s, OffX(s), LossGap, i, n)
        BY <2>3, Constants, ClockLasted
      <3>2. Lasted(yaw, s[n].t, LossSeconds) <=>
              \E i \in 1..n : s[n].t - s[i].t >= LossSeconds /\ RunOf(s, OffYaw(s), LossGap, i, n)
        BY <2>4, Constants, ClockLasted
      <3>3. QED
        BY <3>1, <3>2 DEF LossAt
    <2> HIDE DEF lost
    <2>6. /\ q.x = x /\ q.yaw = yaw /\ q.last = s[n].t
          /\ q.at = IF lost THEN s[n].t ELSE None
      OBVIOUS
    <2> HIDE DEF q
    <2>7. LossStep(r, s[n]) = q
      BY <1>1, <1>4
    <2>8. CASE lost
      <3>1. q.at = s[n].t /\ q.at # None /\ n \in 1..n
        BY <1>2, <2>6, <2>8
      <3>2. QED
        BY <2>1, <2>5, <2>7, <2>8, <3>1 DEF LossSoFar
    <2>9. CASE ~lost
      <3>1. q.at = None
        BY <2>6, <2>9
      <3>2. \A j \in 1..n : ~LossAt(s, j)
        <4>1. \A j \in 1..n : j = n \/ j \in 1..(n - 1)
          BY <1>2
        <4>2. QED
          BY <2>1, <2>5, <2>9, <4>1
      <3>3. q.last = IF n = 0 THEN None ELSE s[n].t
        BY <1>2, <2>6
      <3>4. QED
        BY <2>3, <2>4, <2>6, <2>7, <3>1, <3>2, <3>3 DEF LossSoFar
    <2>10. QED
      BY <2>8, <2>9
  <1>5. QED
    BY <1>3, <1>4

LossState == [x : Int, yaw : Int, last : Int, at : Int]
LossStart == [x |-> None, yaw |-> None, last |-> None, at |-> None]
IsLossPass(s, f) ==
    f = [n \in 0..Len(s) |-> IF n = 0 THEN LossStart ELSE LossStep(f[n - 1], s[n])]

LEMMA FirstLossIsPass ==
  ASSUME NEW e, NEW s, s = PoseErrors(e)
  PROVE  FirstLocalisationLoss(e) = (CHOOSE f : IsLossPass(s, f))[Len(s)].at
  BY DEF FirstLocalisationLoss, IsLossPass, LossStart

LEMMA LossStepType ==
  ASSUME NEW r \in LossState, NEW sample, sample.t \in Nat
  PROVE  LossStep(r, sample) \in LossState
  <1> DEFINE cut == Broken(r.last, sample.t, LossGap)
             x == Since(IF cut THEN None ELSE r.x, sample.x > Error, sample.t)
             yaw == Since(IF cut THEN None ELSE r.yaw, sample.yaw > Error, sample.t)
             lost == Lasted(x, sample.t, LossSeconds) \/ Lasted(yaw, sample.t, LossSeconds)
             q == [x |-> x, yaw |-> yaw, last |-> sample.t, at |-> IF lost THEN sample.t ELSE None]
  <1>1. LossStep(r, sample) = IF r.at # None THEN r ELSE q
    BY DEF LossStep
  <1>2. None \in Int /\ r.x \in Int /\ r.yaw \in Int /\ sample.t \in Int
    BY DEF None, LossState
  <1>3. x \in Int /\ yaw \in Int
    <2> HIDE DEF cut
    <2>1. QED
      BY <1>2 DEF Since
  <1> HIDE DEF x, yaw, lost
  <1>4. q \in LossState
    BY <1>2, <1>3 DEF LossState
  <1>5. QED
    BY <1>1, <1>4

LEMMA LossPassExists ==
  ASSUME NEW s, Timed(s)
  PROVE  \E f : IsLossPass(s, f)
  <1> DEFINE n == Len(s)
             step == [i \in 1..n |-> [r \in LossState |-> LossStep(r, s[i])]]
  <1>1. n \in Nat /\ \A i \in 1..n : s[i].t \in Nat
    BY DEF Timed
  <1>2. LossStart \in LossState
    BY DEF LossStart, LossState, None
  <1>3. \A i \in 1..n, r \in LossState : LossStep(r, s[i]) \in LossState
    BY <1>1, LossStepType
  <1>4. step \in [1..n -> [LossState -> LossState]]
    BY <1>3
  <1>5. \A i \in 1..n, r \in LossState : step[i][r] = LossStep(r, s[i])
    OBVIOUS
  <1> HIDE DEF step
  <1>6. PICK f \in [0..n -> LossState] : IsScan(n, LossStart, step, f)
    <2> HIDE DEF n
    <2>1. QED
      BY <1>1, <1>2, <1>4, PassEquation
  <1>7. ASSUME NEW i \in 0..n, i # 0
        PROVE  step[i][f[i - 1]] = LossStep(f[i - 1], s[i])
    <2>1. i \in 1..n /\ f[i - 1] \in LossState
      BY <1>1, <1>6, <1>7
    <2>2. QED
      BY <1>5, <2>1
  <1>8. IsLossPass(s, f)
    BY <1>6, <1>7 DEF IsLossPass, IsScan
  <1>9. QED
    BY <1>8

\* FirstLocalisationLoss is the earliest moment at which one of the two errors has been
\* above its threshold for long enough without a gap.
LEMMA FirstLossEarliest ==
  ASSUME NEW e, Recording(e)
  PROVE  LossMoments(e) \subseteq Nat /\ Earliest(FirstLocalisationLoss(e), LossMoments(e))
  <1> DEFINE s == PoseErrors(e)
             f == CHOOSE f : IsLossPass(s, f)
             n == Len(s)
             I == {i \in 0..n : LossSoFar(s, i, f[i])}
  <1>1. Timed(s)
    BY PoseErrorsTimed
  <1>2. n \in Nat /\ \A i \in 1..n : s[i].t \in Nat
    BY <1>1 DEF Timed
  <1>3. IsLossPass(s, f)
    <2>1. \E g : IsLossPass(s, g)
      BY <1>1, LossPassExists
    <2>2. QED
      BY <2>1
  <1>4. FirstLocalisationLoss(e) = f[n].at
    BY FirstLossIsPass
  <1>5. LossMoments(e) = {s[j].t : j \in {j \in 1..n : LossAt(s, j)}}
    BY LossMomentsAre
  <1>13. \A i, j \in 1..n : i < j => s[i].t < s[j].t
    BY <1>1 DEF Timed
  <1> HIDE DEF s, f
  <1>6. f[0] = LossStart /\ \A i \in 1..n : f[i] = LossStep(f[i - 1], s[i])
    <2> DEFINE g == [i \in 0..n |-> IF i = 0 THEN LossStart ELSE LossStep(f[i - 1], s[i])]
    <2>1. f = g
      BY <1>3 DEF IsLossPass
    <2>2. g[0] = LossStart /\ \A i \in 1..n : g[i] = LossStep(f[i - 1], s[i])
      BY <1>2
    <2> HIDE DEF g
    <2>3. QED
      BY <2>1, <2>2
  <1>7. 0 \in I
    <2>1. LossSoFar(s, 0, LossStart)
      BY DEF LossSoFar, LossStart, ClockAt
    <2>2. QED
      BY <1>2, <1>6, <2>1
  <1>8. ASSUME NEW i \in 1..n, i - 1 \in I
        PROVE  i \in I
    <2>1. LossSoFar(s, i, LossStep(f[i - 1], s[i]))
      BY <1>1, <1>8, LossSoFarStep
    <2>2. QED
      BY <1>2, <1>6, <2>1
  <1>9. LossSoFar(s, n, f[n])
    <2> HIDE DEF I
    <2>1. \A i \in 0..n : i \in I
      BY <1>2, <1>7, <1>8, EveryStep
    <2>2. QED
      BY <1>2, <2>1 DEF I
  <1>10. CASE f[n].at = None
    <2>1. \A j \in 1..n : ~LossAt(s, j)
      BY <1>9, <1>10 DEF LossSoFar
    <2>2. LossMoments(e) = {}
      BY <1>5, <2>1
    <2>3. QED
      BY <1>4, <1>10, <2>2 DEF Earliest
  <1>11. CASE f[n].at # None
    <2>1. PICK j \in 1..n : f[n].at = s[j].t /\ LossAt(s, j) /\ \A k \in 1..(j - 1) : ~LossAt(s, k)
      BY <1>9, <1>11 DEF LossSoFar
    <2>2. s[j].t \in LossMoments(e)
      BY <1>5, <2>1
    <2>3. ASSUME NEW k \in 1..n, LossAt(s, k)
          PROVE  s[j].t <= s[k].t
      <3>1. k = j \/ j < k
        BY <1>2, <2>1, <2>3
      <3>2. QED
        BY <1>2, <1>13, <3>1
    <2>4. \A y \in LossMoments(e) : s[j].t <= y
      BY <1>5, <2>3
    <2>5. LossMoments(e) \subseteq Nat
      BY <1>2, <1>5
    <2>6. QED
      BY <1>4, <2>1, <2>2, <2>4, <2>5 DEF Earliest
  <1>12. QED
    BY <1>10, <1>11

-----------------------------------------------------------------------------
(* The first immobilisation: never too early, and never after a robot has  *)
(* stood still for long enough.                                            *)

Near(s, reach, i, j) ==
    /\ Unbroken(s, i, j, StuckGap)
    /\ \A k \in i..j : s[k].moving /\ Distance(s[k].x, s[i].x) < reach
StuckAt(s, reach, j) ==
    \E i \in 1..j : s[j].t - s[i].t >= StuckSeconds /\ Near(s, reach, i, j)

\* The anchor is a sample that the robot is still near, and no later than any it is at.
Anchored(s, n, r) ==
    IF n = 0 \/ ~s[n].moving THEN r.since = None
    ELSE \E i \in 1..n : /\ r.since = s[i].t /\ r.anchor = s[i].x /\ Near(s, Progress, i, n)
                         /\ \A k \in 1..n : Near(s, 1, k, n) => i <= k

StuckSoFar(s, n, r) ==
    IF r.at = None
    THEN /\ \A j \in 1..n : ~StuckAt(s, 1, j)
         /\ Anchored(s, n, r)
         /\ r.last = IF n = 0 THEN None ELSE s[n].t
    ELSE \E j \in 1..n : /\ r.at = s[j].t /\ StuckAt(s, Progress, j)
                         /\ \A k \in 1..(j - 1) : ~StuckAt(s, 1, k)

LEMMA StuckMomentsAre ==
  ASSUME NEW e, Recording(e), NEW s, s = Motion(e), NEW reach
  PROVE  StuckMoments(e, reach) = {s[j].t : j \in {j \in 1..Len(s) : StuckAt(s, reach, j)}}
  <1>1. DOMAIN s = 1..Len(s) /\ Len(s) \in Nat
    BY MotionTimed DEF Timed
  <1>2. QED
    BY <1>1 DEF StuckMoments, StuckAt, Near

LEMMA NearGrows ==
  ASSUME NEW s, NEW reach, NEW n \in Nat \ {0}
  PROVE  /\ Near(s, reach, n, n) <=> s[n].moving /\ Distance(s[n].x, s[n].x) < reach
         /\ \A k \in 1..(n - 1) :
              Near(s, reach, k, n) <=>
                /\ Near(s, reach, k, n - 1) /\ s[n].t - s[n - 1].t <= StuckGap
                /\ s[n].moving /\ Distance(s[n].x, s[k].x) < reach
  <1>1. Near(s, reach, n, n) <=> s[n].moving /\ Distance(s[n].x, s[n].x) < reach
    <2>1. n..n = {n} /\ (n + 1)..n = {}
      OBVIOUS
    <2>2. QED
      BY <2>1 DEF Near, Unbroken
  <1>2. ASSUME NEW k \in 1..(n - 1)
        PROVE  Near(s, reach, k, n) <=>
                 /\ Near(s, reach, k, n - 1) /\ s[n].t - s[n - 1].t <= StuckGap
                 /\ s[n].moving /\ Distance(s[n].x, s[k].x) < reach
    <2>1. k..n = (k..(n - 1)) \cup {n} /\ (k + 1)..n = ((k + 1)..(n - 1)) \cup {n}
      OBVIOUS
    <2>2. Unbroken(s, k, n, StuckGap) <=>
            Unbroken(s, k, n - 1, StuckGap) /\ s[n].t - s[n - 1].t <= StuckGap
      BY <2>1 DEF Unbroken
    <2>3. QED
      BY <2>1, <2>2 DEF Near
  <1>3. QED
    BY <1>1, <1>2

StuckState == [since : Int, anchor : Int, last : Int, at : Int]
StuckStart == [since |-> None, anchor |-> 0, last |-> None, at |-> None]

\* The anchor is kept at a sample.
Stays(r, sample) ==
    /\ ~Broken(r.last, sample.t, StuckGap) /\ sample.moving /\ r.since # None
    /\ ~(Distance(sample.x, r.anchor) >= Progress)

LEMMA StuckStepIs ==
  ASSUME NEW r \in StuckState, NEW sample, sample.t \in Nat, sample.x \in Int,
         NEW q, q = StuckStep(r, sample)
  PROVE  /\ q \in StuckState
         /\ r.at # None => q = r
         /\ r.at = None /\ ~sample.moving => q.since = None /\ q.last = sample.t /\ q.at = None
         /\ r.at = None /\ sample.moving =>
              /\ q.since = IF Stays(r, sample) THEN r.since ELSE sample.t
              /\ q.anchor = IF Stays(r, sample) THEN r.anchor ELSE sample.x
              /\ q.last = sample.t
              /\ q.at = IF Stays(r, sample) /\ Lasted(r.since, sample.t, StuckSeconds) THEN sample.t ELSE None
  <1> DEFINE kept == ~Broken(r.last, sample.t, StuckGap) /\ sample.moving /\ r.since # None
             progressed == kept /\ Distance(sample.x, r.anchor) >= Progress
             a == [r EXCEPT !.since = None, !.last = sample.t]
             b == [since |-> IF kept /\ ~progressed THEN r.since ELSE sample.t,
                   anchor |-> IF kept /\ ~progressed THEN r.anchor ELSE sample.x,
                   last |-> sample.t,
                   at |-> IF kept /\ ~progressed /\ Lasted(r.since, sample.t, StuckSeconds)
                          THEN sample.t ELSE None]
  <1>1. q = IF r.at # None THEN r ELSE IF ~sample.moving THEN a ELSE b
    BY DEF StuckStep
  <1>2. None \in Int /\ r.since \in Int /\ r.anchor \in Int /\ sample.t \in Int
    BY DEF None, StuckState
  <1>3. (kept /\ ~progressed) <=> Stays(r, sample)
    BY DEF Stays
  <1>4. a \in StuckState /\ a.since = None /\ a.last = sample.t /\ a.at = r.at
    BY <1>2 DEF StuckState
  <1>5. /\ b \in StuckState
        /\ b.since = IF Stays(r, sample) THEN r.since ELSE sample.t
        /\ b.anchor = IF Stays(r, sample) THEN r.anchor ELSE sample.x
        /\ b.last = sample.t
        /\ b.at = IF Stays(r, sample) /\ Lasted(r.since, sample.t, StuckSeconds) THEN sample.t ELSE None
    <2> HIDE DEF progressed
    <2>1. QED
      BY <1>2, <1>3 DEF StuckState
  <1> HIDE DEF a, b
  <1>6. QED
    BY <1>1, <1>4, <1>5

LEMMA StuckSoFarStep ==
  ASSUME NEW s, Timed(s), \A i \in 1..Len(s) : s[i].x \in Int,
         NEW n \in 1..Len(s), NEW r \in StuckState, StuckSoFar(s, n - 1, r)
  PROVE  StuckSoFar(s, n, StuckStep(r, s[n]))
  <1> DEFINE q == StuckStep(r, s[n])
  <1>1. /\ n \in Nat \ {0} /\ Len(s) \in Nat
        /\ \A i \in 1..n : s[i].t \in Nat /\ s[i].t # None /\ s[i].x \in Int
    BY DEF Timed, None
  <1>2. s[n].t \in Nat /\ s[n].t # None /\ s[n].x \in Int
    BY <1>1
  <1>3. /\ r.at # None => q = r
        /\ r.at = None /\ ~s[n].moving => q.since = None /\ q.last = s[n].t /\ q.at = None
        /\ r.at = None /\ s[n].moving =>
             /\ q.since = IF Stays(r, s[n]) THEN r.since ELSE s[n].t
             /\ q.anchor = IF Stays(r, s[n]) THEN r.anchor ELSE s[n].x
             /\ q.last = s[n].t
             /\ q.at = IF Stays(r, s[n]) /\ Lasted(r.since, s[n].t, StuckSeconds) THEN s[n].t ELSE None
    <2> HIDE DEF q
    <2>1. QED
      BY <1>2, StuckStepIs DEF q
  <1> HIDE DEF q
  <1>4. CASE r.at # None
    <2>1. \A j \in 1..(n - 1) : j \in 1..n
      BY <1>1
    <2>2. QED
      BY <1>3, <1>4, <2>1 DEF StuckSoFar, q
  <1>5. CASE r.at = None
    <2>1. /\ \A j \in 1..(n - 1) : ~StuckAt(s, 1, j)
          /\ Anchored(s, n - 1, r)
          /\ r.last = IF n = 1 THEN None ELSE s[n - 1].t
      BY <1>1, <1>5 DEF StuckSoFar
    <2>2. q.last = IF n = 0 THEN None ELSE s[n].t
      BY <1>1, <1>3, <1>5
    <2>3. ASSUME ~StuckAt(s, 1, n), Anchored(s, n, q), q.at = None
          PROVE  StuckSoFar(s, n, q)
      <3>1. \A j \in 1..n : j = n \/ j \in 1..(n - 1)
        BY <1>1
      <3>2. QED
        BY <2>1, <2>2, <2>3, <3>1 DEF StuckSoFar
    <2>4. CASE ~s[n].moving
      <3>1. ~StuckAt(s, 1, n)
        <4>1. \A i \in 1..n : n \in i..n
          BY <1>1
        <4>2. QED
          BY <2>4, <4>1 DEF StuckAt, Near
      <3>2. Anchored(s, n, q)
        BY <1>3, <1>5, <2>4 DEF Anchored
      <3>3. QED
        BY <1>3, <1>5, <2>3, <2>4, <3>1, <3>2 DEF q
    <2>5. CASE s[n].moving /\ Stays(r, s[n])
      <3>1. n # 1 /\ s[n - 1].t \in Nat /\ s[n].t - s[n - 1].t <= StuckGap
        <4>1. n # 1
          BY <2>1, <2>5 DEF Anchored, Stays
        <4>2. n - 1 \in 1..n
          BY <1>1, <4>1
        <4>3. r.last = s[n - 1].t /\ r.last # None /\ s[n - 1].t \in Nat
          BY <1>1, <2>1, <4>1, <4>2
        <4>4. ~Broken(r.last, s[n].t, StuckGap)
          BY <2>5 DEF Stays
        <4>5. s[n].t - s[n - 1].t <= StuckGap
          <5>1. s[n].t \in Nat /\ StuckGap \in Nat
            BY <1>2, Constants
          <5>2. ~(s[n].t - r.last > StuckGap)
            BY <4>3, <4>4 DEF Broken
          <5>3. QED
            BY <4>3, <5>1, <5>2
        <4>6. QED
          BY <4>1, <4>3, <4>5
      <3>2. n - 1 # 0 /\ s[n - 1].moving
        BY <1>1, <2>1, <2>5, <3>1 DEF Anchored, Stays
      <3>3. PICK i \in 1..(n - 1) :
              /\ r.since = s[i].t /\ r.anchor = s[i].x /\ Near(s, Progress, i, n - 1)
              /\ \A k \in 1..(n - 1) : Near(s, 1, k, n - 1) => i <= k
        BY <2>1, <3>2 DEF Anchored
      <3>4. i \in 1..n /\ s[i].t \in Nat /\ s[i].x \in Int
        BY <1>1
      <3>5. Distance(s[n].x, s[i].x) < Progress
        <4>1. ~(Distance(s[n].x, s[i].x) >= Progress)
          BY <2>5, <3>3 DEF Stays
        <4>2. Distance(s[n].x, s[i].x) \in Int
          BY <1>2, <3>4 DEF Distance
        <4>3. QED
          BY <4>1, <4>2, Constants
      <3>6. Near(s, Progress, i, n)
        BY <1>1, <2>5, <3>1, <3>3, <3>5, NearGrows
      <3>7. ASSUME NEW k \in 1..n, Near(s, 1, k, n)
            PROVE  i <= k
        <4>1. k = n \/ k \in 1..(n - 1)
          BY <1>1
        <4>2. ASSUME k \in 1..(n - 1)
              PROVE  i <= k
          <5>1. Near(s, 1, k, n - 1)
            BY <1>1, <3>7, <4>2, NearGrows
          <5>2. QED
            BY <3>3, <4>2, <5>1
        <4>3. QED
          BY <1>1, <4>1, <4>2
      <3>8. /\ q.since = s[i].t /\ q.anchor = s[i].x
            /\ q.at = IF Lasted(s[i].t, s[n].t, StuckSeconds) THEN s[n].t ELSE None
        BY <1>3, <1>5, <2>5, <3>3
      <3>9. CASE Lasted(s[i].t, s[n].t, StuckSeconds)
        <4>1. StuckAt(s, Progress, n)
          BY <3>4, <3>6, <3>9 DEF StuckAt, Lasted
        <4>2. q.at = s[n].t /\ q.at # None /\ n \in 1..n
          BY <1>1, <1>2, <3>8, <3>9
        <4>3. QED
          BY <2>1, <4>1, <4>2 DEF StuckSoFar, q
      <3>10. CASE ~Lasted(s[i].t, s[n].t, StuckSeconds)
        <4>1. ASSUME NEW k \in 1..n, s[n].t - s[k].t >= StuckSeconds, Near(s, 1, k, n)
              PROVE  FALSE
          <5>1. i <= k /\ i \in 1..Len(s) /\ k \in 1..Len(s)
            BY <1>1, <3>4, <3>7, <4>1
          <5>2. s[i].t <= s[k].t
            <6>1. i = k \/ i < k
              BY <5>1
            <6>2. i < k => s[i].t < s[k].t
              BY <5>1 DEF Timed
            <6>3. s[i].t \in Nat /\ s[k].t \in Nat
              BY <1>1, <3>4
            <6>4. QED
              BY <6>1, <6>2, <6>3
          <5>3. s[i].t # None /\ s[n].t - s[i].t >= StuckSeconds
            BY <1>1, <1>2, <3>4, <4>1, <5>2, Constants
          <5>4. QED
            BY <3>10, <5>3 DEF Lasted
        <4>2. ~StuckAt(s, 1, n)
          BY <4>1 DEF StuckAt
        <4>3. Anchored(s, n, q)
          BY <1>1, <2>5, <3>4, <3>6, <3>7, <3>8 DEF Anchored
        <4>4. QED
          BY <2>3, <3>8, <3>10, <4>2, <4>3 DEF q
      <3>11. QED
        BY <3>9, <3>10
    <2>6. CASE s[n].moving /\ ~Stays(r, s[n])
      <3>1. ASSUME NEW k \in 1..n, Near(s, 1, k, n)
            PROVE  n <= k
        <4>1. SUFFICES ASSUME k < n PROVE FALSE
          BY <1>1
        <4>2. k \in 1..(n - 1) /\ n # 1 /\ n - 1 # 0 /\ n - 1 \in k..(n - 1) /\ n - 1 \in 1..n
          BY <1>1, <4>1
        <4>3. /\ Near(s, 1, k, n - 1) /\ s[n].t - s[n - 1].t <= StuckGap
              /\ Distance(s[n].x, s[k].x) < 1
          BY <1>1, <3>1, <4>2, NearGrows
        <4>4. s[n - 1].moving /\ Distance(s[n - 1].x, s[k].x) < 1
          BY <4>2, <4>3 DEF Near
        <4>5. s[n - 1].x = s[n].x
          <5>1. s[n - 1].x \in Int /\ s[n].x \in Int /\ s[k].x \in Int
            BY <1>1, <1>2, <4>2
          <5>2. s[n - 1].x = s[k].x /\ s[n].x = s[k].x
            BY <4>3, <4>4, <5>1 DEF Distance
          <5>3. QED
            BY <5>2
        <4>6. PICK i \in 1..(n - 1) :
                r.since = s[i].t /\ r.anchor = s[i].x /\ Near(s, Progress, i, n - 1)
          BY <2>1, <4>2, <4>4 DEF Anchored
        <4>7. i \in 1..n /\ r.since # None /\ s[i].x \in Int
          BY <1>1, <4>6
        <4>8. ~Broken(r.last, s[n].t, StuckGap)
          <5>1. r.last = s[n - 1].t /\ s[n - 1].t \in Nat
            BY <1>1, <2>1, <4>2
          <5>2. QED
            BY <1>2, <4>3, <5>1, Constants DEF Broken
        <4>9. Distance(s[n - 1].x, s[i].x) < Progress
          <5>1. n - 1 \in i..(n - 1)
            BY <1>1, <4>2
          <5>2. QED
            BY <4>6, <5>1 DEF Near
        <4>10. ~(Distance(s[n].x, r.anchor) >= Progress)
          <5>1. Distance(s[n].x, s[i].x) \in Int
            BY <1>2, <4>7 DEF Distance
          <5>2. QED
            BY <4>5, <4>6, <4>9, <5>1, Constants
        <4>11. QED
          BY <2>6, <4>7, <4>8, <4>10 DEF Stays
      <3>2. q.since = s[n].t /\ q.anchor = s[n].x /\ q.at = None
        BY <1>3, <1>5, <2>6
      <3>3. Near(s, Progress, n, n)
        <4>1. Distance(s[n].x, s[n].x) < Progress
          BY <1>2, Constants DEF Distance
        <4>2. QED
          BY <1>1, <2>6, <4>1, NearGrows
      <3>4. Anchored(s, n, q)
        <4>1. n \in 1..n
          BY <1>1
        <4>2. QED
          BY <1>1, <2>6, <3>1, <3>2, <3>3, <4>1 DEF Anchored
      <3>5. ~StuckAt(s, 1, n)
        <4>1. ASSUME NEW k \in 1..n, s[n].t - s[k].t >= StuckSeconds, Near(s, 1, k, n)
              PROVE  FALSE
          <5>1. k = n
            BY <1>1, <3>1, <4>1
          <5>2. s[n].t - s[n].t = 0
            BY <1>2
          <5>3. QED
            BY <4>1, <5>1, <5>2, Constants
        <4>2. QED
          BY <4>1 DEF StuckAt
      <3>6. QED
        BY <2>3, <3>2, <3>4, <3>5 DEF q
    <2>7. QED
      BY <2>4, <2>5, <2>6
  <1>6. QED
    BY <1>4, <1>5

IsStuckPass(s, f) ==
    f = [n \in 0..Len(s) |-> IF n = 0 THEN StuckStart ELSE StuckStep(f[n - 1], s[n])]

LEMMA FirstStuckIsPass ==
  ASSUME NEW e, NEW s, s = Motion(e)
  PROVE  FirstImmobilisation(e) = (CHOOSE f : IsStuckPass(s, f))[Len(s)].at
  BY DEF FirstImmobilisation, IsStuckPass, StuckStart

LEMMA StuckPassExists ==
  ASSUME NEW s, Timed(s), \A i \in 1..Len(s) : s[i].x \in Int
  PROVE  \E f : IsStuckPass(s, f)
  <1> DEFINE n == Len(s)
             step == [i \in 1..n |-> [r \in StuckState |-> StuckStep(r, s[i])]]
  <1>1. n \in Nat /\ \A i \in 1..n : s[i].t \in Nat /\ s[i].x \in Int
    BY DEF Timed
  <1>2. StuckStart \in StuckState
    BY DEF StuckStart, StuckState, None
  <1>3. \A i \in 1..n, r \in StuckState : StuckStep(r, s[i]) \in StuckState
    BY <1>1, StuckStepIs
  <1>4. step \in [1..n -> [StuckState -> StuckState]]
    BY <1>3
  <1>5. \A i \in 1..n, r \in StuckState : step[i][r] = StuckStep(r, s[i])
    OBVIOUS
  <1> HIDE DEF step
  <1>6. PICK f \in [0..n -> StuckState] : IsScan(n, StuckStart, step, f)
    <2> HIDE DEF n
    <2>1. QED
      BY <1>1, <1>2, <1>4, PassEquation
  <1>7. ASSUME NEW i \in 0..n, i # 0
        PROVE  step[i][f[i - 1]] = StuckStep(f[i - 1], s[i])
    <2>1. i \in 1..n /\ f[i - 1] \in StuckState
      BY <1>1, <1>6, <1>7
    <2>2. QED
      BY <1>5, <2>1
  <1>8. IsStuckPass(s, f)
    BY <1>6, <1>7 DEF IsStuckPass, IsScan
  <1>9. QED
    BY <1>8

\* FirstImmobilisation is a moment of standing still at the distance of Progress, and no
\* later than any moment at which the robot has not moved at all.
LEMMA FirstStuckBounded ==
  ASSUME NEW e, Recording(e), NEW x, x = FirstImmobilisation(e)
  PROVE  /\ StuckMoments(e, 1) \subseteq Nat /\ StuckMoments(e, Progress) \subseteq Nat
         /\ x = None => StuckMoments(e, 1) = {}
         /\ x # None => x \in StuckMoments(e, Progress) /\ \A y \in StuckMoments(e, 1) : x <= y
  <1> DEFINE s == Motion(e)
             f == CHOOSE f : IsStuckPass(s, f)
             n == Len(s)
             I == {i \in 0..n : f[i] \in StuckState /\ StuckSoFar(s, i, f[i])}
  <1>1. Timed(s) /\ \A i \in 1..n : s[i].x \in Int
    BY MotionTimed
  <1>2. n \in Nat /\ \A i \in 1..n : s[i].t \in Nat
    BY <1>1 DEF Timed
  <1>3. IsStuckPass(s, f)
    <2>1. \E g : IsStuckPass(s, g)
      BY <1>1, StuckPassExists
    <2>2. QED
      BY <2>1
  <1>4. x = f[n].at
    BY FirstStuckIsPass
  <1>5. \A reach : StuckMoments(e, reach) = {s[j].t : j \in {j \in 1..n : StuckAt(s, reach, j)}}
    BY StuckMomentsAre
  <1>13. \A i, j \in 1..n : i < j => s[i].t < s[j].t
    BY <1>1 DEF Timed
  <1>14. StuckMoments(e, 1) \subseteq Nat /\ StuckMoments(e, Progress) \subseteq Nat
    BY <1>2, <1>5
  <1> HIDE DEF s, f
  <1>6. f[0] = StuckStart /\ \A i \in 1..n : f[i] = StuckStep(f[i - 1], s[i])
    <2> DEFINE g == [i \in 0..n |-> IF i = 0 THEN StuckStart ELSE StuckStep(f[i - 1], s[i])]
    <2>1. f = g
      BY <1>3 DEF IsStuckPass
    <2>2. g[0] = StuckStart /\ \A i \in 1..n : g[i] = StuckStep(f[i - 1], s[i])
      BY <1>2
    <2> HIDE DEF g
    <2>3. QED
      BY <2>1, <2>2
  <1>7. 0 \in I
    <2>1. StuckSoFar(s, 0, StuckStart)
      BY DEF StuckSoFar, StuckStart, Anchored
    <2>2. StuckStart \in StuckState
      BY DEF StuckStart, StuckState, None
    <2>3. QED
      BY <1>2, <1>6, <2>1, <2>2
  <1>8. ASSUME NEW i \in 1..n, i - 1 \in I
        PROVE  i \in I
    <2>1. f[i - 1] \in StuckState /\ StuckSoFar(s, i - 1, f[i - 1])
      BY <1>8
    <2>2. StuckSoFar(s, i, StuckStep(f[i - 1], s[i]))
      BY <1>1, <2>1, StuckSoFarStep
    <2>3. StuckStep(f[i - 1], s[i]) \in StuckState
      BY <1>1, <1>2, <2>1, StuckStepIs
    <2>4. QED
      BY <1>2, <1>6, <2>2, <2>3
  <1>9. StuckSoFar(s, n, f[n])
    <2> HIDE DEF I
    <2>1. \A i \in 0..n : i \in I
      BY <1>2, <1>7, <1>8, EveryStep
    <2>2. QED
      BY <1>2, <2>1 DEF I
  <1>10. CASE x = None
    <2>1. \A j \in 1..n : ~StuckAt(s, 1, j)
      BY <1>4, <1>9, <1>10 DEF StuckSoFar
    <2>2. StuckMoments(e, 1) = {}
      BY <1>5, <2>1
    <2>3. QED
      BY <1>10, <1>14, <2>2
  <1>11. CASE x # None
    <2>1. PICK j \in 1..n : /\ x = s[j].t /\ StuckAt(s, Progress, j)
                            /\ \A k \in 1..(j - 1) : ~StuckAt(s, 1, k)
      BY <1>4, <1>9, <1>11 DEF StuckSoFar
    <2>2. x \in StuckMoments(e, Progress)
      BY <1>5, <2>1
    <2>3. ASSUME NEW k \in 1..n, StuckAt(s, 1, k)
          PROVE  s[j].t <= s[k].t
      <3>1. k = j \/ j < k
        BY <1>2, <2>1, <2>3
      <3>2. QED
        BY <1>2, <1>13, <3>1
    <2>4. \A y \in StuckMoments(e, 1) : x <= y
      BY <1>5, <2>1, <2>3
    <2>5. QED
      BY <1>11, <1>14, <2>2, <2>4
  <1>12. QED
    BY <1>10, <1>11

-----------------------------------------------------------------------------
(* The primary event.                                                      *)

LEMMA Ranks ==
  /\ Rank("collision") = 1 /\ Rank("localisation_loss") = 2
  /\ Rank("immobilisation") = 3 /\ Rank("mission_timeout") = 4
  <1>1. DOMAIN Precedence = {1, 2, 3, 4}
    BY DEF Precedence
  <1>2. /\ Precedence[1] = "collision" /\ Precedence[2] = "localisation_loss"
        /\ Precedence[3] = "immobilisation" /\ Precedence[4] = "mission_timeout"
    BY DEF Precedence
  <1>3. QED
    BY <1>1, <1>2 DEF Rank

Candidate == [class : {"collision", "localisation_loss", "immobilisation", "mission_timeout"},
              time : Nat]

\* Among candidates of different classes one comes first.
LEMMA FirstCandidate ==
  ASSUME NEW F, F \subseteq Candidate, F # {}, \A c, d \in F : c.class = d.class => c = d
  PROVE  \E c \in F : \A d \in F \ {c} :
           c.time < d.time \/ (c.time = d.time /\ Rank(c.class) < Rank(d.class))
  <1> DEFINE K(c) == 5 * c.time + Rank(c.class)
             T == {K(c) : c \in F}
  <1>1. ASSUME NEW c \in F
        PROVE  c.time \in Nat /\ Rank(c.class) \in 1..4 /\ K(c) \in Nat
    <2>1. c.time \in Nat /\ c.class \in {"collision", "localisation_loss", "immobilisation",
                                         "mission_timeout"}
      BY DEF Candidate
    <2>2. Rank(c.class) \in 1..4
      BY <2>1, Ranks
    <2>3. QED
      BY <2>1, <2>2
  <1>2. ASSUME NEW c \in F, NEW d \in F, Rank(c.class) = Rank(d.class)
        PROVE  c = d
    <2>1. /\ c.class \in {"collision", "localisation_loss", "immobilisation", "mission_timeout"}
          /\ d.class \in {"collision", "localisation_loss", "immobilisation", "mission_timeout"}
      BY DEF Candidate
    <2>2. c.class = d.class
      BY <1>2, <2>1, Ranks
    <2>3. QED
      BY <2>2
  <1>3. PICK k \in T : \A y \in T : k <= y
    <2>1. T \subseteq Nat /\ T # {}
      BY <1>1
    <2> HIDE DEF T
    <2>2. QED
      BY <2>1, LeastNat
  <1>4. PICK c \in F : k = K(c)
    BY <1>3
  <1>5. ASSUME NEW d \in F \ {c}
        PROVE  c.time < d.time \/ (c.time = d.time /\ Rank(c.class) < Rank(d.class))
    <2>1. K(c) <= K(d) /\ Rank(c.class) # Rank(d.class)
      BY <1>2, <1>3, <1>4, <1>5
    <2>2. /\ c.time \in Nat /\ d.time \in Nat
          /\ Rank(c.class) \in 1..4 /\ Rank(d.class) \in 1..4
      BY <1>1
    <2>3. QED
      BY <2>1, <2>2
  <1>6. QED
    BY <1>5

Certain(e) ==
    LossMoments(e) \cup StuckMoments(e, 1) \cup (IF e.terminal = "none" THEN {} ELSE {e.end})

\* PrimaryEvent is no later than any certain event, and never invented.
LEMMA PrimaryEventExact ==
  ASSUME NEW e, Recording(e), NEW time, time = PrimaryEvent(e).time
  PROVE  /\ time \in Nat \cup {None} /\ Certain(e) \subseteq Nat
         /\ time # None => time \in Certain(e) \cup StuckMoments(e, Progress)
         /\ Certain(e) # {} => time # None /\ \A y \in Certain(e) : time <= y
  <1> DEFINE A == [class |-> "localisation_loss", time |-> FirstLocalisationLoss(e)]
             B == [class |-> "immobilisation", time |-> FirstImmobilisation(e)]
             C == [class |-> e.terminal, time |-> e.end]
             F == {c \in {A, B, C} : c.time # None /\ c.class # "none"}
             Least(c) == \A d \in F \ {c} :
                c.time < d.time \/ (c.time = d.time /\ Rank(c.class) < Rank(d.class))
             p == IF F = {} THEN [class |-> "none", time |-> None] ELSE CHOOSE c \in F : Least(c)
  <1>1. PrimaryEvent(e) = p
    BY DEF PrimaryEvent
  <1>2. /\ A.class = "localisation_loss" /\ A.time = FirstLocalisationLoss(e)
        /\ B.class = "immobilisation" /\ B.time = FirstImmobilisation(e)
        /\ C.class = e.terminal /\ C.time = e.end
    OBVIOUS
  <1>3. /\ LossMoments(e) \subseteq Nat /\ Earliest(A.time, LossMoments(e))
        /\ StuckMoments(e, 1) \subseteq Nat /\ StuckMoments(e, Progress) \subseteq Nat
        /\ B.time = None => StuckMoments(e, 1) = {}
        /\ B.time # None => /\ B.time \in StuckMoments(e, Progress)
                            /\ \A y \in StuckMoments(e, 1) : B.time <= y
    BY FirstLossEarliest, FirstStuckBounded
  <1>4. /\ C.time \in Nat /\ C.time # None
        /\ C.class \in {"none", "collision", "mission_timeout"}
    BY <1>2 DEF Recording, None
  <1>5. A.time # None => A.time \in Nat
    BY <1>3 DEF Earliest
  <1>6. B.time # None => B.time \in Nat
    BY <1>3
  <1>7. A \in [class : {A.class}, time : {A.time}] /\ B \in [class : {B.class}, time : {B.time}]
          /\ C \in [class : {C.class}, time : {C.time}]
    OBVIOUS
  <1> HIDE DEF A, B, C
  <1>8. F \subseteq Candidate
    BY <1>2, <1>4, <1>5, <1>6, <1>7 DEF Candidate
  <1>9. \A c, d \in F : c.class = d.class => c = d
    BY <1>2, <1>4
  <1>10. F # {} => \E c \in F : Least(c)
    <2> HIDE DEF F
    <2>1. QED
      BY <1>8, <1>9, FirstCandidate
  <1>11. F # {} => p \in F /\ \A d \in F : p.time <= d.time
    <2>1. SUFFICES ASSUME F # {} PROVE p \in F /\ \A d \in F : p.time <= d.time
      OBVIOUS
    <2>2. p \in F /\ Least(p)
      <3> HIDE DEF F, Least
      <3>1. QED
        BY <1>10, <2>1
    <2>3. \A d \in F : d.time \in Nat
      BY <1>8 DEF Candidate
    <2>4. \A d \in F : d = p \/ p.time <= d.time
      <3> HIDE DEF F, p
      <3>1. QED
        BY <2>2, <2>3
    <2>5. p.time <= p.time
      <3> HIDE DEF F, p
      <3>1. QED
        BY <2>2, <2>3
    <2>6. QED
      <3> HIDE DEF F, p
      <3>1. QED
        BY <2>2, <2>4, <2>5
  <1>12. F = {} => p.time = None
    OBVIOUS
  <1> HIDE DEF p
  <1>13. /\ A.time # None => A \in F
         /\ B.time # None => B \in F
         /\ e.terminal # "none" => C \in F
    BY <1>2, <1>4
  <1>14. F # {} => \/ p = A /\ A.time # None
                   \/ p = B /\ B.time # None
                   \/ p = C /\ e.terminal # "none"
    BY <1>2, <1>11
  <1> HIDE DEF F
  <1>15. Certain(e) \subseteq Nat
    BY <1>2, <1>3, <1>4 DEF Certain
  <1>16. time = p.time
    BY <1>1
  <1>17. F # {} => p.time \in Nat
    BY <1>8, <1>11 DEF Candidate
  <1>18. time # None => time \in Certain(e) \cup StuckMoments(e, Progress)
    <2>1. SUFFICES ASSUME time # None PROVE time \in Certain(e) \cup StuckMoments(e, Progress)
      OBVIOUS
    <2>2. F # {}
      BY <1>12, <1>16, <2>1
    <2>3. CASE p = A /\ A.time # None
      BY <1>3, <1>16, <2>3 DEF Earliest, Certain
    <2>4. CASE p = B /\ B.time # None
      BY <1>3, <1>16, <2>4
    <2>5. CASE p = C /\ e.terminal # "none"
      BY <1>2, <1>16, <2>5 DEF Certain
    <2>6. QED
      BY <1>14, <2>2, <2>3, <2>4, <2>5
  <1>19. ASSUME NEW y \in Certain(e)
         PROVE  time # None /\ time <= y
    <2>1. CASE y \in LossMoments(e)
      <3>1. A.time # None /\ A.time <= y /\ A.time \in Nat
        BY <1>3, <1>5, <2>1 DEF Earliest, None
      <3>2. A \in F /\ p.time <= A.time /\ p.time \in Nat
        BY <1>11, <1>13, <1>17, <3>1
      <3>3. QED
        BY <1>15, <1>16, <3>1, <3>2 DEF None
    <2>2. CASE y \in StuckMoments(e, 1)
      <3>1. B.time # None /\ B.time <= y /\ B.time \in Nat
        BY <1>3, <1>6, <2>2
      <3>2. B \in F /\ p.time <= B.time /\ p.time \in Nat
        BY <1>11, <1>13, <1>17, <3>1
      <3>3. QED
        BY <1>15, <1>16, <3>1, <3>2 DEF None
    <2>3. CASE e.terminal # "none" /\ y = e.end
      <3>1. C \in F /\ p.time <= C.time /\ p.time \in Nat
        BY <1>11, <1>13, <1>17, <2>3
      <3>2. QED
        BY <1>2, <1>16, <2>3, <3>1 DEF None
    <2>4. QED
      BY <2>1, <2>2, <2>3 DEF Certain
  <1>20. QED
    BY <1>12, <1>15, <1>16, <1>17, <1>18, <1>19

-----------------------------------------------------------------------------
(* The labels.                                                             *)

LEMMA Division ==
  ASSUME NEW a \in Nat, NEW b \in Nat \ {0}
  PROVE  /\ a \div b \in Nat /\ a % b \in 0..(b - 1)
         /\ a = (b * (a \div b)) + (a % b)
  OBVIOUS

LEMMA Multiples ==
  ASSUME NEW q \in Nat, NEW b \in Nat \ {0}
  PROVE  (q * b) % b = 0 /\ (q * b) \div b = q
  OBVIOUS

LEMMA ProductOrder ==
  ASSUME NEW p \in Nat, NEW q \in Nat, NEW b \in Nat \ {0}
  PROVE  /\ p <= q => p * b <= q * b
         /\ p * b <= q * b + (b - 1) => p <= q
         /\ p * b = q * b => p = q
  OBVIOUS

\* The decisions are the full windows of the episode at the stride, each once.
LEMMA DecisionTimesCount ==
  ASSUME NEW e, Recording(e)
  PROVE  /\ Len(DecisionTimes(e)) \in Nat /\ DOMAIN DecisionTimes(e) = 1..Len(DecisionTimes(e))
         /\ \A i \in DOMAIN DecisionTimes(e) : DecisionTimes(e)[i] \in Nat
         /\ Cardinality({t \in FirstWindow(e)..e.end : (t - FirstWindow(e)) % Stride = 0})
              = Len(DecisionTimes(e))
  <1> DEFINE a == e.end - FirstWindow(e)
             m == IF e.end < FirstWindow(e) THEN 0 ELSE 1 + (a \div Stride)
             at(i) == FirstWindow(e) + ((i - 1) * Stride)
             T == {t \in FirstWindow(e)..e.end : (t - FirstWindow(e)) % Stride = 0}
  <1>1. DecisionTimes(e) = [i \in 1..m |-> at(i)]
    BY DEF DecisionTimes
  <1>2. e.end \in Nat /\ FirstWindow(e) \in Nat /\ Stride \in Nat \ {0}
    BY Constants DEF Recording, FirstWindow
  <1>3. ASSUME ~(e.end < FirstWindow(e))
        PROVE  a \in Nat /\ a \div Stride \in Nat /\ a % Stride \in 0..(Stride - 1)
               /\ a = (Stride * (a \div Stride)) + (a % Stride)
    <2>1. a \in Nat
      BY <1>2, <1>3
    <2> HIDE DEF a
    <2>2. QED
      BY <1>2, <2>1, Division
  <1>4. m \in Nat
    <2> HIDE DEF a
    <2>1. QED
      BY <1>3
  <1>5. \A i \in 1..m : (i - 1) * Stride \in Nat
    <2> HIDE DEF m
    <2>1. QED
      BY <1>2, <1>4
  <1>6. \A i \in 1..m : at(i) \in T
    <2>1. SUFFICES ASSUME NEW i \in 1..m PROVE at(i) \in T
      OBVIOUS
    <2>2. ~(e.end < FirstWindow(e)) /\ i - 1 \in Nat /\ i - 1 <= a \div Stride
      <3>1. ~(e.end < FirstWindow(e))
        OBVIOUS
      <3>2. a \div Stride \in Nat
        BY <1>3, <3>1
      <3> HIDE DEF a
      <3>3. QED
        BY <3>1, <3>2
    <2>3. /\ a \in Nat /\ a \div Stride \in Nat /\ a % Stride \in 0..(Stride - 1)
          /\ a = (Stride * (a \div Stride)) + (a % Stride)
      BY <1>3, <2>2
    <2> DEFINE q == a \div Stride
               w == (i - 1) * Stride
    <2>4. w <= q * Stride /\ w \in Nat /\ w % Stride = 0
      <3>1. i - 1 \in Nat /\ q \in Nat /\ i - 1 <= q
        BY <2>2, <2>3
      <3> HIDE DEF q
      <3>2. w <= q * Stride
        BY <1>2, <3>1, ProductOrder
      <3>3. w \in Nat
        BY <1>2, <3>1
      <3>4. w % Stride = 0
        BY <1>2, <3>1, Multiples
      <3>5. QED
        BY <3>2, <3>3, <3>4
    <2>5. q * Stride <= a
      <3>1. q * Stride = Stride * q
        BY <1>2, <2>3
      <3>2. a = (Stride * q) + (a % Stride) /\ a % Stride \in Nat
        BY <2>3
      <3>3. Stride * q \in Nat
        BY <1>2, <2>3
      <3> HIDE DEF q, a
      <3>4. QED
        BY <3>1, <3>2, <3>3
    <2>6. at(i) = FirstWindow(e) + w /\ at(i) - FirstWindow(e) = w
      <3>1. at(i) = FirstWindow(e) + w
        OBVIOUS
      <3> HIDE DEF w, at
      <3>2. QED
        BY <1>2, <2>4, <3>1
    <2>7. q * Stride \in Nat
      <3> HIDE DEF a
      <3>1. QED
        BY <1>2, <2>3
    <2> HIDE DEF q, w, at, m
    <2>8. w <= a /\ a \in Nat
      <3> HIDE DEF a
      <3>1. QED
        BY <2>3, <2>4, <2>5, <2>7
    <2>9. at(i) \in FirstWindow(e)..e.end
      BY <1>2, <2>4, <2>6, <2>8
    <2>10. QED
      BY <2>4, <2>6, <2>9
  <1>7. \A t \in T : \E i \in 1..m : t = at(i)
    <2>1. SUFFICES ASSUME NEW t \in T PROVE \E i \in 1..m : t = at(i)
      OBVIOUS
    <2> DEFINE d == t - FirstWindow(e)
               q == d \div Stride
    <2>2. t \in Nat /\ d \in Nat /\ d <= a /\ d % Stride = 0 /\ ~(e.end < FirstWindow(e))
      BY <1>2
    <2>3. q \in Nat /\ d = Stride * q
      <3>1. d \in Nat /\ d % Stride = 0
        BY <2>2
      <3> HIDE DEF d
      <3>2. d \div Stride \in Nat /\ d = (Stride * (d \div Stride)) + (d % Stride)
        BY <1>2, <3>1, Division
      <3>3. Stride * (d \div Stride) \in Nat
        BY <1>2, <3>2
      <3>4. QED
        BY <3>1, <3>2, <3>3
    <2>4. /\ a \in Nat /\ a \div Stride \in Nat /\ a % Stride \in 0..(Stride - 1)
          /\ a = (Stride * (a \div Stride)) + (a % Stride)
      BY <1>3, <2>2
    <2> HIDE DEF q, d
    <2>5. q <= a \div Stride
      <3> DEFINE b == a \div Stride
      <3>1. q * Stride = d /\ b * Stride = Stride * b /\ b \in Nat
        BY <1>2, <2>3, <2>4
      <3>2. d <= (Stride * b) + (Stride - 1)
        <4>1. d <= a /\ a = (Stride * b) + (a % Stride) /\ a % Stride \in 0..(Stride - 1)
          BY <2>2, <2>4
        <4>2. Stride * b \in Nat /\ d \in Nat
          BY <1>2, <2>2, <3>1
        <4> HIDE DEF a, b
        <4>3. QED
          BY <1>2, <4>1, <4>2
      <3> HIDE DEF b
      <3>3. q * Stride <= (b * Stride) + (Stride - 1)
        BY <3>1, <3>2
      <3>4. QED
        BY <1>2, <2>3, <3>1, <3>3, ProductOrder DEF b
    <2>6. q + 1 \in 1..m
      <3> HIDE DEF a
      <3>1. QED
        BY <2>2, <2>3, <2>4, <2>5
    <2>7. t = at(q + 1)
      <3> DEFINE i == q + 1
      <3>1. at(i) = FirstWindow(e) + ((i - 1) * Stride)
        <4> HIDE DEF i
        <4>1. QED
          OBVIOUS
      <3>2. i - 1 = q /\ q * Stride = d
        BY <1>2, <2>3
      <3>3. t = FirstWindow(e) + d
        BY <1>2, <2>2 DEF d
      <3> HIDE DEF at, i
      <3>4. t = at(i)
        BY <3>1, <3>2, <3>3
      <3>5. QED
        BY <3>4 DEF i
    <2>8. QED
      BY <2>6, <2>7
  <1>8. \A i, j \in 1..m : at(i) = at(j) => i = j
    <2>1. SUFFICES ASSUME NEW i \in 1..m, NEW j \in 1..m, at(i) = at(j) PROVE i = j
      OBVIOUS
    <2> HIDE DEF m
    <2>2. i - 1 \in Nat /\ j - 1 \in Nat
      BY <1>4
    <2>3. (i - 1) * Stride \in Nat /\ (j - 1) * Stride \in Nat
      BY <1>5
    <2>4. (i - 1) * Stride = (j - 1) * Stride
      BY <1>2, <2>1, <2>3
    <2>5. i - 1 = j - 1
      BY <1>2, <2>2, <2>4, ProductOrder
    <2>6. QED
      BY <1>4, <2>5
  <1>9. \A i \in 1..m : at(i) \in Nat
    BY <1>2, <1>6
  <1> HIDE DEF m, at, T
  <1> DEFINE f == [i \in 1..m |-> at(i)]
  <1>10. f \in Bijection(1..m, T)
    <2>1. f \in [1..m -> T]
      BY <1>6
    <2>2. \A i, j \in 1..m : f[i] = f[j] => i = j
      BY <1>8
    <2>3. \A t \in T : \E i \in 1..m : f[i] = t
      BY <1>7
    <2> HIDE DEF f
    <2>4. QED
      BY <2>1, <2>2, <2>3 DEF Bijection, Injection, Surjection, IsInjective
  <1>11. Cardinality(T) = m
    <2> HIDE DEF f
    <2>1. ExistsBijection(1..m, T)
      BY <1>10 DEF ExistsBijection
    <2>2. QED
      BY <1>4, <2>1, FS_CountingElements
  <1>12. /\ DOMAIN DecisionTimes(e) = 1..m /\ Len(DecisionTimes(e)) = m
         /\ \A i \in 1..m : DecisionTimes(e)[i] \in Nat
    BY <1>1, <1>4, <1>9
  <1>13. QED
    BY <1>4, <1>11, <1>12 DEF T

\* What a decision at time t must be labelled, if the event of the episode is at `event`.
LabelOf(e, event, t) ==
    LET clear == e.onset = None \/ Distance(t, e.onset) >= Guard
        lead == event - t
    IN IF event = None THEN IF clear THEN "negative" ELSE "excluded"
       ELSE IF lead \in TooLate..Horizon THEN "positive"
       ELSE IF lead > Horizon /\ lead >= Guard /\ clear THEN "negative"
       ELSE "excluded"

\* EligibilityAt gives the label that the distances to the event and the onset ask for.
LEMMA EligibilityExact ==
  ASSUME NEW e, Recording(e), NEW t \in Nat
  PROVE  EligibilityAt(e, t) = LabelOf(e, PrimaryEvent(e).time, t)
  <1> DEFINE event == PrimaryEvent(e).time
             clear == e.onset = None \/ Distance(t, e.onset) >= Guard
             lead == event - t
             guarded == {event, e.onset} \ {None}
             safe == \A g \in guarded : Distance(t, g) >= Guard
  <1>1. event \in Nat \cup {None}
    BY PrimaryEventExact
  <1>2. e.onset \in Nat \cup {None}
    BY DEF Recording
  <1>3. EligibilityAt(e, t) =
          IF event # None /\ t > event - TooLate THEN "excluded"
          ELSE IF event # None /\ t >= event - Horizon THEN "positive"
          ELSE IF safe THEN "negative" ELSE "excluded"
    BY DEF EligibilityAt
  <1>4. LabelOf(e, event, t) =
          IF event = None THEN IF clear THEN "negative" ELSE "excluded"
          ELSE IF lead \in TooLate..Horizon THEN "positive"
          ELSE IF lead > Horizon /\ lead >= Guard /\ clear THEN "negative"
          ELSE "excluded"
    BY DEF LabelOf
  <1> HIDE DEF event
  <1>5. CASE event = None
    <2>1. safe <=> clear
      BY <1>5
    <2> HIDE DEF safe, clear, lead
    <2>2. QED
      BY <1>3, <1>4, <1>5, <2>1 DEF event
  <1>6. CASE event # None
    <2>1. event \in Nat
      BY <1>1, <1>6
    <2>2. lead > Horizon => Distance(t, event) = lead
      BY <2>1, Constants DEF Distance
    <2>3. safe <=> Distance(t, event) >= Guard /\ clear
      BY <1>6
    <2>4. /\ t > event - TooLate <=> lead < TooLate
          /\ t >= event - Horizon <=> lead <= Horizon
          /\ lead \in Int
      BY <2>1, Constants
    <2>5. lead \in TooLate..Horizon <=> ~(lead < TooLate) /\ lead <= Horizon
      BY <2>4, Constants
    <2>6. lead > Horizon <=> ~(lead <= Horizon)
      BY <2>4, Constants
    <2>7. lead < TooLate => lead <= Horizon
      BY <2>4, Constants
    <2> HIDE DEF safe, clear, lead
    <2>8. QED
      BY <1>3, <1>4, <1>6, <2>2, <2>3, <2>4, <2>5, <2>6, <2>7 DEF event
  <1>7. QED
    BY <1>5, <1>6

\* The rows of a table are labelled as they must be.
RowsExact(e, entry) ==
    /\ Len(entry.rows) = Cardinality({t \in FirstWindow(e)..e.end : (t - FirstWindow(e)) % Stride = 0})
    /\ \A i \in DOMAIN entry.rows :
         entry.rows[i].eligibility = LabelOf(e, entry.event, entry.rows[i].time)

Entry(e) ==
    [clean |-> e.family = "none", event |-> PrimaryEvent(e).time,
     rows |-> [i \in DOMAIN Labels(e) |->
                 [time |-> Labels(e)[i].time, raw |-> e.raw[i],
                  eligibility |-> Labels(e)[i].eligibility]]]

LEMMA EntryExact ==
  ASSUME NEW e, Recording(e)
  PROVE  Entry(e).event = PrimaryEvent(e).time /\ RowsExact(e, Entry(e))
  <1> DEFINE d == DecisionTimes(e)
             n == Len(d)
             row(i) == [time |-> Labels(e)[i].time, raw |-> e.raw[i],
                        eligibility |-> Labels(e)[i].eligibility]
             rows == [i \in DOMAIN Labels(e) |-> row(i)]
  <1>1. /\ n \in Nat /\ DOMAIN d = 1..n /\ \A i \in 1..n : d[i] \in Nat
        /\ Cardinality({t \in FirstWindow(e)..e.end : (t - FirstWindow(e)) % Stride = 0}) = n
    BY DecisionTimesCount
  <1>2. Labels(e) = [i \in DOMAIN d |-> [time |-> d[i], eligibility |-> EligibilityAt(e, d[i])]]
    BY DEF Labels
  <1> HIDE DEF d
  <1>3. /\ DOMAIN Labels(e) = 1..n
        /\ \A i \in 1..n : Labels(e)[i].time = d[i]
                           /\ Labels(e)[i].eligibility = EligibilityAt(e, d[i])
    BY <1>1, <1>2
  <1>4. \A i : row(i).time = Labels(e)[i].time /\ row(i).eligibility = Labels(e)[i].eligibility
    OBVIOUS
  <1>5. /\ Entry(e).event = PrimaryEvent(e).time /\ Entry(e).rows = rows
    BY DEF Entry
  <1> HIDE DEF row
  <1>6. DOMAIN rows = 1..n /\ Len(rows) = n /\ \A i \in 1..n : rows[i] = row(i)
    BY <1>1, <1>3
  <1> HIDE DEF rows, n
  <1>7. \A i \in 1..n : rows[i].eligibility = LabelOf(e, PrimaryEvent(e).time, rows[i].time)
    BY <1>1, <1>3, <1>4, <1>6, EligibilityExact
  <1>8. QED
    BY <1>1, <1>5, <1>6, <1>7 DEF RowsExact

-----------------------------------------------------------------------------
(* The extraction of a dataset.                                            *)

FileState == [whole : 0..Steps, torn : BOOLEAN]

\* The last of the seven files is never torn, so that seven files are the dataset's;
\* what a table holds then is what was recorded.
TuningInv ==
    /\ \A run \in DOMAIN dataset : Recording(dataset[run])
    /\ files \in [DOMAIN dataset -> FileState]
    /\ \A run \in DOMAIN dataset : /\ files[run].torn => files[run].whole <= Steps - 2
                                   /\ files[run].whole <= Possible(dataset[run])
    /\ stage # "extract" =>
         /\ \A run \in DOMAIN dataset : files[run] = Extracted
         /\ table = [run \in DOMAIN dataset |-> Entry(dataset[run])]

LEMMA PossibleSteps ==
  ASSUME NEW e
  PROVE  Possible(e) \in 1..Steps
  BY DEF Possible, Steps

\* Only an episode whose event and injection lie inside it has all seven files.
LEMMA WholeIsInside ==
  ASSUME NEW e, Recording(e), Steps <= Possible(e)
  PROVE  Inside(e)
  BY DEF Possible, Steps

LEMMA TuningInitially == TuningInit => TuningInv
  <1> SUFFICES ASSUME TuningInit PROVE TuningInv
    OBVIOUS
  <1>1. \A run \in DOMAIN dataset : Recording(dataset[run])
    BY LabelsOK DEF TuningInit, LabelsInit
  <1>2. files = [run \in DOMAIN dataset |-> Untouched] /\ stage = "extract"
    BY DEF TuningInit, LabelsInit
  <1>3. Untouched \in FileState /\ ~Untouched.torn /\ \A e : Untouched.whole <= Possible(e)
    <2>1. Untouched \in FileState /\ ~Untouched.torn /\ Untouched.whole = 0
      BY DEF Untouched, FileState, Steps
    <2>2. \A e : 0 <= Possible(e)
      BY PossibleSteps DEF Steps
    <2>3. QED
      BY <2>1, <2>2
  <1>4. QED
    BY <1>1, <1>2, <1>3 DEF TuningInv

LEMMA TuningSteps == TuningInv /\ [TuningNext]_tuningVars => TuningInv'
  <1> SUFFICES ASSUME TuningInv, [TuningNext]_tuningVars PROVE TuningInv'
    OBVIOUS
  <1>1. CASE ExtractDataset
    <2>1. stage = "extract" /\ stage' = "extract"
      BY <1>1 DEF ExtractDataset
    <2>2. PICK run \in DOMAIN dataset :
            ExtractEpisode(run) \/ KillExtraction(run) \/ MoveAside(run)
      BY <1>1 DEF ExtractDataset, Extract
    <2>3. dataset' = dataset
      BY <2>2 DEF ExtractEpisode, KillExtraction, MoveAside
    <2>4. \E f \in FileState :
            /\ files' = [files EXCEPT ![run] = f] /\ (f.torn => f.whole <= Steps - 2)
            /\ f.whole <= Possible(dataset[run])
      <3>1. CASE ExtractEpisode(run)
        <4> DEFINE n == Possible(dataset[run])
                   f == [whole |-> n, torn |-> FALSE]
        <4>1. files' = [files EXCEPT ![run] = f]
          BY <3>1 DEF ExtractEpisode
        <4>2. n \in 1..Steps
          BY PossibleSteps
        <4> HIDE DEF n
        <4>3. f \in FileState /\ ~f.torn /\ f.whole = n
          BY <4>2 DEF FileState, Steps
        <4>4. f.whole <= Possible(dataset[run])
          BY <4>2, <4>3 DEF n, Steps
        <4>5. QED
          BY <4>1, <4>3, <4>4
      <3>2. CASE KillExtraction(run)
        <4>1. PICK n \in 0..(Possible(dataset[run]) - 1), torn \in BOOLEAN :
                /\ n + 1 = Steps => ~torn
                /\ files' = [files EXCEPT ![run] = [whole |-> n, torn |-> torn]]
          BY <3>2 DEF KillExtraction
        <4>2. n \in 0..(Steps - 1) /\ n <= Possible(dataset[run])
          <5> DEFINE p == Possible(dataset[run])
          <5>1. p \in 1..Steps /\ n \in 0..(p - 1)
            BY <4>1, PossibleSteps
          <5> HIDE DEF p
          <5>2. n \in 0..(Steps - 1) /\ n <= p
            BY <5>1 DEF Steps
          <5>3. QED
            BY <5>2 DEF p
        <4> DEFINE f == [whole |-> n, torn |-> torn]
        <4>3. f \in FileState
          BY <4>2 DEF FileState, Steps
        <4>4. f.torn => f.whole <= Steps - 2
          BY <4>1, <4>2 DEF Steps
        <4>5. f.whole = n
          OBVIOUS
        <4>6. QED
          BY <4>1, <4>2, <4>3, <4>4, <4>5
      <3>3. CASE MoveAside(run)
        <4>1. files' = [files EXCEPT ![run] = Untouched]
          BY <3>3 DEF MoveAside
        <4>2. Untouched \in FileState /\ ~Untouched.torn /\ Untouched.whole = 0
          BY DEF Untouched, FileState, Steps
        <4>3. 0 <= Possible(dataset[run])
          BY PossibleSteps DEF Steps
        <4>4. QED
          BY <4>1, <4>2, <4>3
      <3>4. QED
        BY <2>2, <3>1, <3>2, <3>3
    <2>5. QED
      BY <2>1, <2>3, <2>4 DEF TuningInv
  <1>2. CASE PredictDecisions
    <2>1. /\ dataset' = dataset /\ files' = files /\ AllExtracted
          /\ table' = [run \in DOMAIN dataset |-> Entry(dataset[run])]
      BY <1>2 DEF PredictDecisions, Entry
    <2>2. ASSUME NEW run \in DOMAIN dataset
          PROVE  files[run] = Extracted
      <3>1. /\ files[run] \in FileState
            /\ (files[run].torn => files[run].whole <= Steps - 2)
            /\ files[run].whole + (IF files[run].torn THEN 1 ELSE 0) = Steps
        BY <2>1 DEF TuningInv, AllExtracted, Existing
      <3>2. PICK w \in 0..Steps, b \in {TRUE, FALSE} :
              files[run] = [whole |-> w, torn |-> b]
        BY <3>1 DEF FileState
      <3>3. Steps \in Nat
        BY DEF Steps
      <3>4. CASE b = TRUE
        <4>1. w <= Steps - 2 /\ w + 1 = Steps
          BY <3>1, <3>2, <3>4
        <4>2. QED
          BY <3>3, <4>1
      <3>5. CASE b = FALSE
        <4>1. w + 0 = Steps
          BY <3>1, <3>2, <3>5
        <4>2. w = Steps
          BY <3>2, <3>3, <4>1
        <4>3. QED
          BY <3>2, <3>5, <4>2 DEF Extracted
      <3>6. QED
        BY <3>2, <3>4, <3>5
    <2>3. QED
      BY <2>1, <2>2 DEF TuningInv
  <1>3. CASE Push \/ Merge \/ FitDone \/ SelectCalibration \/ SelectAlarmThreshold
              \/ ApplyAlarmPolicy \/ UNCHANGED tuningVars
    <2>1. /\ dataset' = dataset /\ files' = files /\ table' = table
          /\ stage' # "extract" => stage # "extract"
      BY <1>3 DEF Push, Merge, FitDone, SelectCalibration, SelectAlarmThreshold,
                  ApplyAlarmPolicy, tuningVars
    <2>2. QED
      BY <2>1 DEF TuningInv
  <1>4. QED
    BY <1>1, <1>2, <1>3 DEF TuningNext

\* Whatever kills and half-written outputs the extraction met, a table is only ever made
\* of episodes with all seven files of this dataset (extract_episode,
\* predict_decisions), and holds what was derived from the recordings.
THEOREM TableFromEvidence == TuningSpec => []TuningInv
  <1>1. TuningInit => TuningInv
    BY TuningInitially
  <1>2. TuningInv /\ [TuningNext]_tuningVars => TuningInv'
    BY TuningSteps
  <1>3. QED
    BY <1>1, <1>2, PTL DEF TuningSpec

LEMMA LeastOfTimes ==
  ASSUME NEW S, S \subseteq Nat, S # {}
  PROVE  Min(S) \in S
  <1>1. \E x \in S : \A y \in S : x <= y
    BY LeastNat
  <1>2. QED
    BY <1>1 DEF Min

\* The table of a dataset that was extracted whole is exact.
LEMMA TuningInvLabels == TuningInv => LabelsExact
  <1> SUFFICES ASSUME TuningInv, stage # "extract", NEW run \in DOMAIN table
               PROVE  LET e == dataset[run]  event == table[run].event
                          certain == LossMoments(e) \cup StuckMoments(e, 1)
                                       \cup (IF e.terminal = "none" THEN {} ELSE {e.end})
                      IN /\ files[run] = Extracted
                         /\ event # None => event \in certain \cup StuckMoments(e, Progress)
                         /\ certain # {} => event # None /\ event <= Min(certain)
                         /\ event # None => event \in e.start..e.end
                         /\ e.onset # None => e.onset \in e.start..e.end
                         /\ Len(table[run].rows)
                              = Cardinality({t \in FirstWindow(e)..e.end : (t - FirstWindow(e)) % Stride = 0})
                         /\ \A i \in DOMAIN table[run].rows :
                              LET row == table[run].rows[i]
                                  lead == event - row.time
                                  clear == e.onset = None \/ Distance(row.time, e.onset) >= Guard
                              IN row.eligibility =
                                   IF event = None THEN IF clear THEN "negative" ELSE "excluded"
                                   ELSE IF lead \in TooLate..Horizon THEN "positive"
                                   ELSE IF lead > Horizon /\ lead >= Guard /\ clear THEN "negative"
                                   ELSE "excluded"
    BY DEF LabelsExact
  <1> DEFINE e == dataset[run]
             event == table[run].event
  <1>1. /\ run \in DOMAIN dataset /\ Recording(e) /\ files[run] = Extracted
        /\ table[run] = Entry(e)
    BY DEF TuningInv
  <1>2. event = PrimaryEvent(e).time /\ RowsExact(e, table[run])
    BY <1>1, EntryExact
  <1> HIDE DEF e
  <1>3. /\ event # None => event \in Certain(e) \cup StuckMoments(e, Progress)
        /\ Certain(e) # {} => event # None /\ \A y \in Certain(e) : event <= y
        /\ Certain(e) \subseteq Nat
    BY <1>1, <1>2, PrimaryEventExact
  <1>4. Certain(e) # {} => event <= Min(Certain(e))
    BY <1>3, LeastOfTimes
  <1>5. /\ Len(table[run].rows)
             = Cardinality({t \in FirstWindow(e)..e.end : (t - FirstWindow(e)) % Stride = 0})
        /\ \A i \in DOMAIN table[run].rows :
             table[run].rows[i].eligibility = LabelOf(e, event, table[run].rows[i].time)
    BY <1>2 DEF RowsExact
  <1>6. Inside(e)
    <2>1. Steps <= Possible(e)
      BY <1>1 DEF TuningInv, Extracted, e
    <2>2. QED
      BY <1>1, <2>1, WholeIsInside
  <1>7. /\ event # None => event \in e.start..e.end
        /\ e.onset # None => e.onset \in e.start..e.end
    BY <1>2, <1>6 DEF Inside
  <1>8. QED
    BY <1>1, <1>3, <1>4, <1>5, <1>7 DEF Certain, LabelOf, e

\* For recordings of any length: every episode of the prediction table was extracted
\* whole, its event is the earliest of the moments that the definitions of the
\* events single out in the samples (derive_operational_events, operational_events),
\* the table has a row for every full window, and every row is labelled by its
\* distance to that event and to the onset (labels.py).
THEOREM LabelsFromEvidence == TuningSpec => []LabelsExact
  <1>1. TuningInv => LabelsExact
    BY TuningInvLabels
  <1>2. QED
    BY <1>1, TableFromEvidence, PTL

=============================================================================
