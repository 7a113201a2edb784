--------------------------- MODULE RunEventsProofs ---------------------------
(***************************************************************************)
(* Safety of the event stream of a run for every number of readers and of  *)
(* events and every page limit.                                            *)
(***************************************************************************)
EXTENDS RunEvents, TLAPS

(* A sequence of events without a gap or a repeat from the first one.      *)
Gapless(events) == \A i \in 1..Len(events) : events[i] = i

(* The stream holds what was emitted.  The mark is one event behind while  *)
(* the root is about to set it, and stays there if the root throws.        *)
StreamInv ==
    /\ Len(stream) = sequence
    /\ Gapless(stream)
    /\ highWater <= sequence
    /\ root \in {"emitting", "closed"} => highWater = sequence
    /\ root = "marking" => highWater + 1 = sequence

(* What a reader was given is a beginning of the stream.  A subscription   *)
(* has observed no more than it gave; a page in progress is short of the   *)
(* mark it was opened with and holds what it observed beyond its cursor.   *)
ReaderInv(r) ==
    /\ Gapless(got[r])
    /\ Len(got[r]) <= sequence
    /\ mode[r] # "failed"
    /\ mode[r] = "subscribed" => observed[r] <= Len(got[r])
    /\ mode[r] = "paging" =>
         /\ through[r] <= highWater
         /\ Len(got[r]) <= through[r]
         /\ observed[r] < through[r]
         /\ Len(page[r]) = IF observed[r] > Len(got[r]) THEN observed[r] - Len(got[r]) ELSE 0
         /\ \A i \in 1..Len(page[r]) : page[r][i] = Len(got[r]) + i

Inv == TypeOK /\ StreamInv /\ \A r \in Readers : ReaderInv(r)

-----------------------------------------------------------------------------
(* The cursor of a reader is the number of events it was given.            *)
LEMMA LastOfGapless ==
    ASSUME NEW events \in Seq(Events), Gapless(events)
    PROVE  LastOf(events) = Len(events)
<1>1. CASE events = << >>
  BY <1>1 DEF LastOf
<1>2. CASE events # << >>
  <2>1. Len(events) \in 1..Len(events)
    BY <1>2
  <2>. QED
    BY <1>2, <2>1 DEF LastOf, Gapless
<1>. QED
  BY <1>1, <1>2

LEMMA ConcatLen ==
    ASSUME NEW s \in Seq(Events), NEW t \in Seq(Events)
    PROVE  Len(s \o t) = Len(s) + Len(t)
  OBVIOUS

LEMMA AppendGapless ==
    ASSUME NEW events \in Seq(Events), Gapless(events), NEW e \in Events,
           e = Len(events) + 1
    PROVE  /\ Append(events, e) \in Seq(Events)
           /\ Gapless(Append(events, e))
           /\ Len(Append(events, e)) = e
  BY DEF Gapless

(* The items of a page are a beginning of the events it collected.         *)
LEMMA ItemsPrefix ==
    ASSUME NEW events \in Seq(Events)
    PROVE  /\ Items(events) \in Seq(Events)
           /\ Len(Items(events)) <= Len(events)
           /\ \A i \in 1..Len(Items(events)) : Items(events)[i] = events[i]
  BY EventsAssumption DEF Items

(* The next event of a read is the one it expects.                         *)
LEMMA NextIsExpected ==
    ASSUME TypeOK, StreamInv, NEW r \in Readers, HasNext(r)
    PROVE  NextEvent(r) = observed[r] + 1 /\ NextEvent(r) \in Events /\ NextEvent(r) <= sequence
<1>1. observed[r] + 1 \in 1..Len(stream)
  BY DEF TypeOK, HasNext
<1>. QED
  BY <1>1, EventsAssumption DEF TypeOK, StreamInv, Gapless, NextEvent, Events

-----------------------------------------------------------------------------
LEMMA RootStep ==
    ASSUME Inv, Root
    PROVE  Inv'
<1>. USE DEF Inv
<1>1. ASSUME NEW r \in Readers, UNCHANGED readerVars, TypeOK',
             sequence <= sequence', highWater <= highWater'
      PROVE  ReaderInv(r)'
  <2>1. /\ through[r] \in Nat /\ Len(got[r]) \in Nat /\ sequence \in Nat /\ highWater \in Nat
        /\ sequence' \in Nat /\ highWater' \in Nat
    BY <1>1, EventsAssumption DEF TypeOK
  <2>. QED
    BY <1>1, <2>1 DEF ReaderInv, Gapless, readerVars
<1>2. CASE WriteEvent
  <2>1. /\ stream' = Append(stream, sequence + 1) /\ sequence' = sequence + 1
        /\ sequence + 1 \in Events /\ UNCHANGED readerVars
    BY <1>2, EventsAssumption DEF TypeOK, WriteEvent, Events
  <2>2. /\ stream' \in Seq(Events) /\ Gapless(stream') /\ Len(stream') = sequence'
    BY <2>1, AppendGapless DEF TypeOK, StreamInv
  <2>3. TypeOK'
    BY <1>2, <2>1, <2>2, EventsAssumption DEF TypeOK, WriteEvent, Events, readerVars
  <2>4. StreamInv'
    BY <1>2, <2>1, <2>2 DEF TypeOK, StreamInv, WriteEvent
  <2>5. sequence <= sequence' /\ highWater <= highWater'
    BY <1>2, <2>1 DEF TypeOK, WriteEvent
  <2>. QED
    BY <1>1, <2>1, <2>3, <2>4, <2>5
<1>3. CASE SetHighWater \/ CloseStream \/ RootThrows
  <2>1. TypeOK'
    BY <1>3 DEF TypeOK, SetHighWater, CloseStream, RootThrows, Marked, readerVars
  <2>2. StreamInv'
    BY <1>3 DEF TypeOK, StreamInv, Gapless, SetHighWater, CloseStream, RootThrows, Marked
  <2>3. UNCHANGED readerVars /\ sequence <= sequence' /\ highWater <= highWater'
    BY <1>3 DEF TypeOK, StreamInv, SetHighWater, CloseStream, RootThrows, Marked
  <2>. QED
    BY <1>1, <2>1, <2>2, <2>3
<1>. QED
  BY <1>2, <1>3 DEF Root

(* A reader shares nothing it writes with the others.                      *)
LEMMA ReaderStepOf ==
    ASSUME Inv, NEW r \in Readers, UNCHANGED rootVars, TypeOK', ReaderInv(r)',
           \A q \in Readers \ {r} :
               /\ mode'[q] = mode[q] /\ observed'[q] = observed[q] /\ through'[q] = through[q]
               /\ page'[q] = page[q] /\ got'[q] = got[q]
    PROVE  Inv'
<1>1. StreamInv'
  BY DEF Inv, StreamInv, Gapless, rootVars
<1>2. ASSUME NEW q \in Readers \ {r}
      PROVE  ReaderInv(q)'
  BY <1>2 DEF Inv, ReaderInv, Gapless, rootVars
<1>. QED
  BY <1>1, <1>2 DEF Inv

LEMMA OpenPageStep ==
    ASSUME Inv, NEW r \in Readers, OpenPage(r)
    PROVE  Inv'
<1>. USE DEF Inv
<1>1. TypeOK'
  <2>1. /\ mode' \in [Readers -> {"idle", "paging", "subscribed", "rejected", "failed", "ended"}]
        /\ through' \in [Readers -> 0..MaxEvents]
    BY DEF TypeOK, OpenPage, Becomes
  <2>2. 0 \in 0..MaxEvents /\ << >> \in Seq(Events)
    BY EventsAssumption
  <2>. QED
    BY <2>1, <2>2 DEF TypeOK, OpenPage, rootVars
<1>2. LastOf(got[r]) = Len(got[r])
  BY LastOfGapless DEF TypeOK, ReaderInv
<1>3. ReaderInv(r)'
  BY <1>2 DEF TypeOK, StreamInv, ReaderInv, Gapless, OpenPage, Becomes, Ahead, Cursor, rootVars
<1>. QED
  BY <1>1, <1>3, ReaderStepOf DEF TypeOK, OpenPage, Becomes

LEMMA SubscribeStep ==
    ASSUME Inv, NEW r \in Readers, Subscribe(r)
    PROVE  Inv'
<1>. USE DEF Inv
<1>1. TypeOK'
  BY EventsAssumption DEF TypeOK, Subscribe, Becomes, rootVars
<1>2. ReaderInv(r)'
  BY DEF TypeOK, StreamInv, ReaderInv, Gapless, Subscribe, Becomes, rootVars
<1>. QED
  BY <1>1, <1>2, ReaderStepOf DEF TypeOK, Subscribe, Becomes

LEMMA LeaveStep ==
    ASSUME Inv, NEW r \in Readers, SubscriptionEnds(r) \/ Unsubscribe(r) \/ RetryCursor(r)
    PROVE  Inv'
<1>. USE DEF Inv
<1>1. TypeOK'
  BY DEF TypeOK, SubscriptionEnds, Unsubscribe, RetryCursor, Becomes, rootVars
<1>2. ReaderInv(r)'
  BY DEF TypeOK, ReaderInv, Gapless, SubscriptionEnds, Unsubscribe, RetryCursor, Becomes,
     rootVars
<1>. QED
  BY <1>1, <1>2, ReaderStepOf DEF TypeOK, SubscriptionEnds, Unsubscribe, RetryCursor, Becomes

LEMMA SubscriptionYieldsStep ==
    ASSUME Inv, NEW r \in Readers, SubscriptionYields(r)
    PROVE  Inv'
<1>. USE DEF Inv
<1>1. /\ NextEvent(r) = observed[r] + 1 /\ NextEvent(r) \in Events /\ NextEvent(r) <= sequence
      /\ LastOf(got[r]) = Len(got[r])
  BY NextIsExpected, LastOfGapless DEF TypeOK, ReaderInv, SubscriptionYields
<1>2. /\ mode' = mode /\ mode[r] = "subscribed"
      /\ observed' = [observed EXCEPT ![r] = observed[r] + 1]
      /\ got' = [got EXCEPT ![r] = IF observed[r] + 1 > Len(got[r])
                                  THEN Append(got[r], observed[r] + 1) ELSE got[r]]
      /\ UNCHANGED <<rootVars, through, page, more>>
  BY <1>1 DEF TypeOK, SubscriptionYields, Wanted
<1>3. observed[r] <= Len(got[r])
  BY <1>2 DEF ReaderInv
<1>4. /\ got'[r] \in Seq(Events) /\ Gapless(got'[r]) /\ Len(got'[r]) <= sequence
      /\ observed[r] + 1 <= Len(got'[r])
  <2>1. CASE observed[r] + 1 > Len(got[r])
    <3>1. observed[r] + 1 = Len(got[r]) + 1
      BY <1>3, <2>1 DEF TypeOK
    <3>2. got'[r] = Append(got[r], observed[r] + 1)
      BY <1>2, <2>1 DEF TypeOK
    <3>. QED
      BY <1>1, <3>1, <3>2, AppendGapless DEF TypeOK, ReaderInv, Events
  <2>2. CASE ~ (observed[r] + 1 > Len(got[r]))
    BY <1>2, <2>2 DEF TypeOK, ReaderInv
  <2>. QED
    BY <2>1, <2>2
<1>5. TypeOK'
  BY <1>1, <1>2, <1>4 DEF TypeOK, Events, rootVars
<1>6. ReaderInv(r)'
  BY <1>2, <1>4 DEF TypeOK, ReaderInv, rootVars
<1>. QED
  BY <1>2, <1>5, <1>6, ReaderStepOf DEF TypeOK

(* The read of a page takes the event it expects; it is given its items    *)
(* once the mark is reached.                                               *)
LEMMA PageReadsEffect ==
    ASSUME Inv, NEW r \in Readers, PageReads(r)
    PROVE  LET next == observed[r] + 1
               taken == IF next > Len(got[r]) THEN Append(page[r], next) ELSE page[r]
           IN /\ mode[r] = "paging" /\ next \in Events /\ next <= through[r]
              /\ observed' = [observed EXCEPT ![r] = next]
              /\ page' = [page EXCEPT ![r] = taken]
              /\ taken \in Seq(Events)
              /\ IF next < through[r] THEN UNCHANGED <<mode, more, got>>
                 ELSE /\ mode' = [mode EXCEPT ![r] = "idle"]
                      /\ more' = [more EXCEPT ![r] = HasMore(taken)]
                      /\ got' = [got EXCEPT ![r] = got[r] \o Items(taken)]
              /\ UNCHANGED <<rootVars, through>>
<1>. USE DEF Inv
<1>. DEFINE next == observed[r] + 1
            taken == IF next > Len(got[r]) THEN Append(page[r], next) ELSE page[r]
<1>1. mode[r] = "paging" /\ UNCHANGED <<rootVars, through>>
  BY DEF PageReads
<1>2. HasNext(r)
  BY <1>1 DEF TypeOK, StreamInv, ReaderInv, HasNext
<1>3. /\ NextEvent(r) = next /\ next \in Events /\ next <= through[r]
      /\ LastOf(got[r]) = Len(got[r])
  BY <1>1, <1>2, NextIsExpected, LastOfGapless DEF TypeOK, ReaderInv
<1>4. Collected(r) = taken
  BY <1>3 DEF Collected, Wanted
<1>5. taken \in Seq(Events)
  BY <1>3 DEF TypeOK
<1>6. ~ (~ HasNext(r) \/ NextEvent(r) # observed[r] + 1 \/ NextEvent(r) > through[r])
  BY <1>2, <1>3 DEF TypeOK, Events
<1>7. /\ observed' = [observed EXCEPT ![r] = next]
      /\ page' = [page EXCEPT ![r] = taken]
      /\ IF next < through[r] THEN UNCHANGED <<mode, more, got>>
         ELSE /\ mode' = [mode EXCEPT ![r] = "idle"]
              /\ more' = [more EXCEPT ![r] = HasMore(page'[r])]
              /\ got' = [got EXCEPT ![r] = got[r] \o Items(page'[r])]
  BY <1>3, <1>4, <1>6 DEF PageReads, Becomes
<1>8. page'[r] = taken
  BY <1>7 DEF TypeOK
<1>. QED
  BY <1>1, <1>3, <1>5, <1>7, <1>8

(* What a page in progress has collected once it took the next event.      *)
LEMMA PageCollects ==
    ASSUME Inv, NEW r \in Readers, mode[r] = "paging", NEW taken \in Seq(Events),
           taken = IF observed[r] + 1 > Len(got[r])
                   THEN Append(page[r], observed[r] + 1) ELSE page[r]
    PROVE  /\ Len(taken) = IF observed[r] + 1 > Len(got[r])
                           THEN observed[r] + 1 - Len(got[r]) ELSE 0
           /\ \A i \in 1..Len(taken) : taken[i] = Len(got[r]) + i
<1>. USE DEF Inv
<1>1. /\ observed[r] \in Nat /\ Len(got[r]) \in Nat
      /\ page[r] \in Seq(Events) /\ Len(page[r]) \in Nat
      /\ Len(page[r]) = IF observed[r] > Len(got[r]) THEN observed[r] - Len(got[r]) ELSE 0
      /\ \A i \in 1..Len(page[r]) : page[r][i] = Len(got[r]) + i
  BY DEF TypeOK, ReaderInv
<1>2. CASE observed[r] + 1 > Len(got[r])
  <2>1. Len(taken) = Len(page[r]) + 1
    BY <1>1, <1>2
  <2>2. Len(page[r]) = observed[r] - Len(got[r])
    BY <1>1, <1>2
  <2>3. \A i \in 1..Len(taken) : taken[i] = IF i <= Len(page[r]) THEN page[r][i] ELSE observed[r] + 1
    BY <1>1, <1>2, <2>1
  <2>4. ASSUME NEW i \in 1..Len(taken)
        PROVE  taken[i] = Len(got[r]) + i
    <3>1. CASE i <= Len(page[r])
      <4>1. i \in 1..Len(page[r])
        BY <1>1, <2>1, <3>1
      <4>. QED
        BY <1>1, <2>3, <3>1, <4>1
    <3>2. CASE ~ (i <= Len(page[r]))
      <4>1. i = Len(page[r]) + 1
        BY <1>1, <2>1, <3>2
      <4>2. taken[i] = observed[r] + 1
        BY <2>3, <3>2
      <4>. QED
        BY <1>1, <2>2, <4>1, <4>2
    <3>. QED
      BY <3>1, <3>2
  <2>5. Len(taken) = observed[r] + 1 - Len(got[r])
    <3>1. observed[r] \in Nat /\ Len(got[r]) \in Nat
      BY <1>1
    <3>. QED
      BY <2>1, <2>2, <3>1
  <2>. QED
    BY <1>2, <2>4, <2>5
<1>3. CASE ~ (observed[r] + 1 > Len(got[r]))
  BY <1>1, <1>3
<1>. QED
  BY <1>2, <1>3

LEMMA PageReadsStep ==
    ASSUME Inv, NEW r \in Readers, PageReads(r)
    PROVE  Inv'
<1>. USE DEF Inv
<1>1. PICK taken \in Seq(Events) :
        /\ taken = IF observed[r] + 1 > Len(got[r])
                   THEN Append(page[r], observed[r] + 1) ELSE page[r]
        /\ mode[r] = "paging" /\ observed[r] + 1 \in Events /\ observed[r] + 1 <= through[r]
        /\ observed' = [observed EXCEPT ![r] = observed[r] + 1]
        /\ page' = [page EXCEPT ![r] = taken]
        /\ IF observed[r] + 1 < through[r] THEN UNCHANGED <<mode, more, got>>
           ELSE /\ mode' = [mode EXCEPT ![r] = "idle"]
                /\ more' = [more EXCEPT ![r] = HasMore(taken)]
                /\ got' = [got EXCEPT ![r] = got[r] \o Items(taken)]
        /\ UNCHANGED <<rootVars, through>>
  BY PageReadsEffect
<1>2. /\ Len(taken) = IF observed[r] + 1 > Len(got[r])
                      THEN observed[r] + 1 - Len(got[r]) ELSE 0
      /\ \A i \in 1..Len(taken) : taken[i] = Len(got[r]) + i
  BY <1>1, PageCollects
<1>3. CASE observed[r] + 1 < through[r]
  <2>1. TypeOK'
    BY <1>1, <1>3 DEF TypeOK, Events, rootVars
  <2>2. ReaderInv(r)'
    BY <1>1, <1>2, <1>3 DEF TypeOK, ReaderInv, rootVars
  <2>. QED
    BY <1>1, <1>3, <2>1, <2>2, ReaderStepOf DEF TypeOK
<1>4. CASE ~ (observed[r] + 1 < through[r])
  <2>1. /\ Items(taken) \in Seq(Events)
        /\ Len(Items(taken)) <= Len(taken)
        /\ \A i \in 1..Len(Items(taken)) : Items(taken)[i] = Len(got[r]) + i
    BY <1>2, ItemsPrefix
  <2>2. got'[r] = got[r] \o Items(taken) /\ mode'[r] = "idle"
    BY <1>1, <1>4 DEF TypeOK
  <2>3. /\ got[r] \in Seq(Events) /\ Len(got[r]) \in Nat /\ observed[r] \in Nat
        /\ through[r] \in Nat /\ highWater \in Nat /\ sequence \in Nat
        /\ Gapless(got[r]) /\ Len(got[r]) <= through[r] /\ through[r] <= highWater
        /\ highWater <= sequence
    BY <1>1, EventsAssumption DEF TypeOK, StreamInv, ReaderInv
  <2>4. /\ got'[r] \in Seq(Events)
        /\ Len(got'[r]) = Len(got[r]) + Len(Items(taken))
        /\ \A i \in 1..Len(got'[r]) :
             got'[r][i] = IF i <= Len(got[r]) THEN got[r][i] ELSE Items(taken)[i - Len(got[r])]
    BY <2>1, <2>2, <2>3
  <2>5. Gapless(got'[r])
    <3>1. SUFFICES ASSUME NEW i \in 1..Len(got'[r])
                   PROVE  got'[r][i] = i
      BY DEF Gapless
    <3>2. CASE i <= Len(got[r])
      <4>1. i \in 1..Len(got[r])
        BY <2>3, <3>2
      <4>. QED
        BY <2>3, <2>4, <3>2, <4>1 DEF Gapless
    <3>3. CASE ~ (i <= Len(got[r]))
      <4>1. Len(Items(taken)) \in Nat
        BY <2>1
      <4>2. i - Len(got[r]) \in 1..Len(Items(taken))
        BY <2>3, <2>4, <3>3, <4>1
      <4>3. got'[r][i] = Items(taken)[i - Len(got[r])]
        BY <2>4, <3>3
      <4>4. Items(taken)[i - Len(got[r])] = Len(got[r]) + (i - Len(got[r]))
        BY <2>1, <4>2
      <4>. QED
        BY <2>3, <4>3, <4>4
    <3>. QED
      BY <3>2, <3>3
  <2>6. Len(got'[r]) <= sequence
    <3>1. Len(taken) <= through[r] - Len(got[r])
      BY <1>1, <1>2, <2>3
    <3>2. Len(Items(taken)) \in Nat /\ Len(taken) \in Nat
      BY <2>1
    <3>. QED
      BY <2>1, <2>3, <2>4, <3>1, <3>2
  <2>7. TypeOK'
    <3>1. more' \in [Readers -> BOOLEAN]
      <4>1. more' = [more EXCEPT ![r] = Len(taken) > Len(Items(taken))]
        BY <1>1, <1>4 DEF HasMore
      <4>2. (Len(taken) > Len(Items(taken))) \in BOOLEAN
        OBVIOUS
      <4>. QED
        BY <4>1, <4>2 DEF TypeOK
    <3>2. got' \in [Readers -> Seq(Events)]
      BY <1>1, <1>4, <2>2, <2>4 DEF TypeOK
    <3>3. mode' \in [Readers -> {"idle", "paging", "subscribed", "rejected", "failed", "ended"}]
      BY <1>1, <1>4 DEF TypeOK
    <3>4. observed' \in [Readers -> 0..MaxEvents]
      BY <1>1, EventsAssumption DEF TypeOK, Events
    <3>5. page' \in [Readers -> Seq(Events)]
      BY <1>1 DEF TypeOK
    <3>. QED
      BY <1>1, <3>1, <3>2, <3>3, <3>4, <3>5 DEF TypeOK, rootVars
  <2>8. ReaderInv(r)'
    BY <1>1, <2>2, <2>5, <2>6 DEF ReaderInv, rootVars
  <2>. QED
    BY <1>1, <1>4, <2>7, <2>8, ReaderStepOf DEF TypeOK
<1>. QED
  BY <1>3, <1>4

-----------------------------------------------------------------------------
LEMMA InvInit == Init => Inv
  BY EventsAssumption DEF Init, Inv, TypeOK, StreamInv, ReaderInv, Gapless

LEMMA InvStep == Inv /\ [Next]_vars => Inv'
<1>1. ASSUME Inv, UNCHANGED vars
      PROVE  Inv'
  BY <1>1 DEF Inv, TypeOK, StreamInv, ReaderInv, Gapless, vars, rootVars, readerVars
<1>. QED
  BY <1>1, RootStep, PageReadsStep, SubscriptionYieldsStep, LeaveStep, OpenPageStep,
     SubscribeStep DEF Next, Serves

LEMMA Invariance == Spec => []Inv
  BY InvInit, InvStep, PTL DEF Spec

-----------------------------------------------------------------------------
(* The stream, the mark and the reads keep to the values the program knows.*)
THEOREM TypeCorrect == Spec => []TypeOK
<1>1. Inv => TypeOK
  BY DEF Inv
<1>. QED
  BY <1>1, Invariance, PTL

(* However a reader mixes pages, subscriptions and cursors, it is given    *)
(* the events of the run in order, without a gap or a repeat.              *)
THEOREM NothingIsSkippedOrRepeated == Spec => []NothingSkippedOrRepeated
<1>1. Inv => NothingSkippedOrRepeated
  BY DEF Inv, ReaderInv, Gapless, NothingSkippedOrRepeated
<1>. QED
  BY <1>1, Invariance, PTL

(* No read of a page fails or waits for the root, and a cursor the manager *)
(* gave out is refused only while the mark is about to pass it, or after   *)
(* the root threw.                                                         *)
THEOREM ReadsAreBacked == Spec => []PagesAreBacked
<1>1. Inv => PagesAreBacked
  <2>. SUFFICES ASSUME Inv, NEW r \in Readers
                PROVE  /\ mode[r] # "failed"
                       /\ mode[r] = "paging" => HasNext(r)
                       /\ Ahead(r) => root \in {"marking", "threw"}
    BY DEF PagesAreBacked
  <2>1. Cursor(r) = Len(got[r])
    BY LastOfGapless DEF Inv, TypeOK, ReaderInv, Cursor
  <2>. QED
    BY <2>1 DEF Inv, TypeOK, StreamInv, ReaderInv, HasNext, Ahead
<1>. QED
  BY <1>1, Invariance, PTL

(* The end of a page that leaves nothing out takes its reader to the mark  *)
(* the page was opened with.                                               *)
LEMMA LastPageStep ==
    ASSUME Inv, Inv', Next, NEW r \in Readers,
           mode[r] = "paging", mode'[r] = "idle", ~ more'[r]
    PROVE  LastOf(got'[r]) >= through[r]
<1>. USE DEF Inv
<1>1. PageReads(r)
  <2>1. ~ Root
    BY DEF TypeOK, Root, WriteEvent, SetHighWater, CloseStream, RootThrows, readerVars
  <2>2. PICK q \in Readers : Serves(q) \/ OpenPage(q) \/ Subscribe(q) \/ Unsubscribe(q)
                             \/ RetryCursor(q)
    BY <2>1 DEF Next
  <2>3. mode[q] = "paging" => PageReads(q)
    BY <2>2 DEF Serves, SubscriptionYields, SubscriptionEnds, OpenPage, Subscribe, Unsubscribe,
       RetryCursor
  <2>4. \A p \in Readers \ {q} : mode'[p] = mode[p]
    BY <2>2 DEF TypeOK, Serves, PageReads, SubscriptionYields, SubscriptionEnds, OpenPage,
       Subscribe, Unsubscribe, RetryCursor, Becomes
  <2>. QED
    BY <2>3, <2>4
<1>2. PICK taken \in Seq(Events) :
        /\ taken = IF observed[r] + 1 > Len(got[r])
                   THEN Append(page[r], observed[r] + 1) ELSE page[r]
        /\ observed[r] + 1 <= through[r]
        /\ IF observed[r] + 1 < through[r] THEN UNCHANGED <<mode, more, got>>
           ELSE /\ mode' = [mode EXCEPT ![r] = "idle"]
                /\ more' = [more EXCEPT ![r] = HasMore(taken)]
                /\ got' = [got EXCEPT ![r] = got[r] \o Items(taken)]
  BY <1>1, PageReadsEffect
<1>3. /\ observed[r] \in Nat /\ through[r] \in Nat /\ observed[r] + 1 = through[r]
      /\ Len(got[r]) \in Nat /\ Len(got[r]) <= through[r] /\ got[r] \in Seq(Events)
  BY <1>2 DEF TypeOK, ReaderInv
<1>4. got'[r] = got[r] \o Items(taken) /\ ~ HasMore(taken)
  BY <1>2, <1>3 DEF TypeOK
<1>5. Len(Items(taken)) = Len(taken) /\ Items(taken) \in Seq(Events)
  BY <1>4, ItemsPrefix DEF HasMore
<1>6. Len(taken) = IF observed[r] + 1 > Len(got[r]) THEN observed[r] + 1 - Len(got[r]) ELSE 0
  BY <1>2, PageCollects
<1>7. Len(got'[r]) = Len(got[r]) + Len(taken)
  <2>1. Len(got[r] \o Items(taken)) = Len(got[r]) + Len(Items(taken))
    BY <1>3, <1>5, ConcatLen
  <2>. QED
    BY <1>4, <1>5, <2>1
<1>8. Len(got'[r]) >= through[r]
  BY <1>3, <1>6, <1>7
<1>9. LastOf(got'[r]) = Len(got'[r])
  BY LastOfGapless DEF TypeOK, ReaderInv
<1>. QED
  BY <1>8, <1>9

(* A page that says there is no more leaves the reader with every event    *)
(* that had been announced when the page was opened.                       *)
THEOREM LastPagesAreComplete == Spec => LastPageIsComplete
<1>1. Inv /\ Inv' /\ [Next]_vars =>
        [\A r \in Readers : mode[r] = "paging" /\ mode'[r] = "idle" /\ ~ more'[r]
                          => LastOf(got'[r]) >= through[r]]_vars
  BY LastPageStep
<1>. QED
  BY <1>1, Invariance, PTL DEF Spec, LastPageIsComplete

==============================================================================
