------------------------------ MODULE RunEvents -----------------------------
(***************************************************************************)
(* The public event stream of one run: the root appends to a durable       *)
(* stream and then advances a high-water mark (RunJournal.emit), and the   *)
(* readers of the run manager page through it (getRunEvents) or follow it  *)
(* (subscribeRunEvents), resuming at the cursor of the last event they     *)
(* were given.                                                             *)
(*                                                                         *)
(* Writing the stream and setting the mark are two durable steps, each     *)
(* executed once, so a crash of the host leaves the root between the same  *)
(* two steps.  An event is its sequence, a cursor the sequence it names.   *)
(***************************************************************************)
EXTENDS Naturals, Sequences

CONSTANTS
    Readers,
    MaxEvents,  \* bound: the events of the run
    Limit       \* the limit of a page

ASSUME EventsAssumption == MaxEvents \in Nat /\ Limit \in Nat \ {0}

VARIABLES
    sequence,   \* RunJournal.sequence
    stream,     \* the durable stream
    highWater,  \* runEventHighWaterKey; 0 while it is not set
    root,       \* "emitting", "marking", "closed", or "threw"
    mode,       \* mode[r]: "idle", "paging", "subscribed", "rejected", "failed", "ended"
    observed,   \* observed[r]: observedSequence of the read in progress
    through,    \* through[r]: the high water that the page was opened with
    page,       \* page[r]: events of the page in progress
    more,       \* more[r]: hasMore of the latest page
    got         \* got[r]: every event the reader was given, in order

rootVars == <<sequence, stream, highWater, root>>
readerVars == <<mode, observed, through, page, more, got>>
vars == <<rootVars, readerVars>>

Events == 1..MaxEvents

TypeOK ==
    /\ sequence \in 0..MaxEvents
    /\ stream \in Seq(Events)
    /\ highWater \in 0..MaxEvents
    /\ root \in {"emitting", "marking", "closed", "threw"}
    /\ mode \in [Readers -> {"idle", "paging", "subscribed", "rejected", "failed", "ended"}]
    /\ observed \in [Readers -> 0..MaxEvents]
    /\ through \in [Readers -> 0..MaxEvents]
    /\ page \in [Readers -> Seq(Events)]
    /\ more \in [Readers -> BOOLEAN]
    /\ got \in [Readers -> Seq(Events)]

Init ==
    /\ sequence = 0
    /\ stream = << >>
    /\ highWater = 0
    /\ root = "emitting"
    /\ mode = [r \in Readers |-> "idle"]
    /\ observed = [r \in Readers |-> 0]
    /\ through = [r \in Readers |-> 0]
    /\ page = [r \in Readers |-> << >>]
    /\ more = [r \in Readers |-> FALSE]
    /\ got = [r \in Readers |-> << >>]

(***************************************************************************)
(* The root workflow.                                                      *)
(***************************************************************************)
WriteEvent ==
    /\ root = "emitting"
    /\ sequence < MaxEvents
    /\ sequence' = sequence + 1
    /\ stream' = Append(stream, sequence')
    /\ root' = "marking"
    /\ UNCHANGED <<highWater, readerVars>>

(* Mutants of Marked: the mark names the event to come, or the one before. *)
MarkedAhead == sequence + 1
MarkedBehind == sequence - 1

Marked == sequence

SetHighWater ==
    /\ root = "marking"
    /\ highWater' = Marked
    /\ root' = "emitting"
    /\ UNCHANGED <<sequence, stream, readerVars>>

CloseStream ==
    /\ root = "emitting"
    /\ root' = "closed"
    /\ UNCHANGED <<sequence, stream, highWater, readerVars>>

(* The workflow throws: its stream is never closed, and DBOS ends the      *)
(* reads of a workflow that is not active.                                 *)
RootThrows ==
    /\ root \in {"emitting", "marking"}
    /\ root' = "threw"
    /\ UNCHANGED <<sequence, stream, highWater, readerVars>>

(***************************************************************************)
(* Readers.                                                                *)
(***************************************************************************)
LastOf(events) == IF events = << >> THEN 0 ELSE events[Len(events)]

(* The cursor a reader resumes at, 0 without one.                          *)
Cursor(r) == LastOf(got[r])

Becomes(r, m) == mode' = [mode EXCEPT ![r] = m]

(* getRunEvents and subscribeRunEvents refuse a cursor beyond the mark; a  *)
(* subscription is refused only once there is a mark.                      *)
Ahead(r) == Cursor(r) > highWater

OpenPage(r) ==
    /\ mode[r] = "idle"
    /\ IF highWater = 0 THEN UNCHANGED <<mode, through>>
       ELSE IF Ahead(r) THEN Becomes(r, "rejected") /\ UNCHANGED through
       ELSE Becomes(r, "paging") /\ through' = [through EXCEPT ![r] = highWater]
    /\ more' = [more EXCEPT ![r] = FALSE]
    /\ observed' = [observed EXCEPT ![r] = 0]
    /\ page' = [page EXCEPT ![r] = << >>]
    /\ UNCHANGED <<rootVars, got>>

Subscribe(r) ==
    /\ mode[r] = "idle"
    /\ Becomes(r, IF highWater # 0 /\ Ahead(r) THEN "rejected" ELSE "subscribed")
    /\ observed' = [observed EXCEPT ![r] = 0]
    /\ UNCHANGED <<rootVars, through, page, more, got>>

(* The next event of the stream a read of r has not seen.                  *)
HasNext(r) == observed[r] < Len(stream)
NextEvent(r) == stream[observed[r] + 1]

(* A mutant of StreamEnds: what is left in the stream is not read.         *)
StreamEndsEarly(r) == root \in {"closed", "threw"}

(* DBOS.readStream returns: nothing is left and nothing can follow.        *)
StreamEnds(r) == ~ HasNext(r) /\ root \in {"closed", "threw"}

(* A mutant of Wanted: the event of the cursor is given again.             *)
WantedAgain(e, given) == e >= LastOf(given)

Wanted(e, given) == e > LastOf(given)

Collected(r) ==
    IF Wanted(NextEvent(r), got[r]) THEN Append(page[r], NextEvent(r)) ELSE page[r]

(* events.slice(0, limit) *)
Items(events) == SubSeq(events, 1, IF Len(events) > Limit THEN Limit ELSE Len(events))

(* A mutant of HasMore: off by one.                                        *)
HasMoreBeyondOne(events) == Len(events) > Len(Items(events)) + 1

HasMore(events) == Len(events) > Len(Items(events))

(* A read of a page takes the next event, waits for one, or fails when the *)
(* event is not the one expected or the stream ends before the mark.       *)
PageReads(r) ==
    /\ mode[r] = "paging"
    /\ ~ HasNext(r) => StreamEnds(r)
    /\ IF ~ HasNext(r) \/ NextEvent(r) # observed[r] + 1 \/ NextEvent(r) > through[r]
       THEN Becomes(r, "failed") /\ UNCHANGED <<observed, page, more, got>>
       ELSE /\ observed' = [observed EXCEPT ![r] = NextEvent(r)]
            /\ page' = [page EXCEPT ![r] = Collected(r)]
            /\ IF NextEvent(r) < through[r] THEN UNCHANGED <<mode, more, got>>
               ELSE /\ Becomes(r, "idle")
                    /\ more' = [more EXCEPT ![r] = HasMore(page'[r])]
                    /\ got' = [got EXCEPT ![r] = @ \o Items(page'[r])]
    /\ UNCHANGED <<rootVars, through>>

SubscriptionYields(r) ==
    /\ mode[r] = "subscribed"
    /\ HasNext(r)
    /\ IF NextEvent(r) # observed[r] + 1
       THEN Becomes(r, "failed") /\ UNCHANGED <<observed, got>>
       ELSE /\ observed' = [observed EXCEPT ![r] = NextEvent(r)]
            /\ got' = [got EXCEPT ![r] =
                          IF Wanted(NextEvent(r), @) THEN Append(@, NextEvent(r)) ELSE @]
            /\ UNCHANGED mode
    /\ UNCHANGED <<rootVars, through, page, more>>

SubscriptionEnds(r) ==
    /\ mode[r] = "subscribed"
    /\ StreamEnds(r)
    /\ Becomes(r, "ended")
    /\ UNCHANGED <<rootVars, observed, through, page, more, got>>

(* The consumer leaves the iteration.                                      *)
Unsubscribe(r) ==
    /\ mode[r] = "subscribed"
    /\ Becomes(r, "idle")
    /\ UNCHANGED <<rootVars, observed, through, page, more, got>>

(* The consumer of a rejected cursor tries again later.                    *)
RetryCursor(r) ==
    /\ mode[r] = "rejected"
    /\ Becomes(r, "idle")
    /\ UNCHANGED <<rootVars, observed, through, page, more, got>>

Root == WriteEvent \/ SetHighWater \/ CloseStream \/ RootThrows

(* What the run manager does for a reader without being asked.             *)
Serves(r) == PageReads(r) \/ SubscriptionYields(r) \/ SubscriptionEnds(r)

Next ==
    \/ Root
    \/ \E r \in Readers : Serves(r) \/ OpenPage(r) \/ Subscribe(r) \/ Unsubscribe(r)
                                    \/ RetryCursor(r)

Spec == Init /\ [][Next]_vars

(* A read in progress goes on; the root need not.                          *)
FairSpec == Spec /\ \A r \in Readers : WF_vars(Serves(r))

(***************************************************************************)
(* Properties                                                              *)
(***************************************************************************)
(* However a reader mixes pages and subscriptions and wherever it resumes, *)
(* it is given the events of the run in order, without a gap or a repeat.  *)
NothingSkippedOrRepeated ==
    \A r \in Readers : \A i \in 1..Len(got[r]) : got[r][i] = i

(* No read of a page fails or has to wait for the root: every event up to  *)
(* the mark is in the stream when the mark is read.  And the mark does not *)
(* lag: a cursor the manager gave out is refused, if at all, only while    *)
(* the root is about to advance the mark past it, or after it threw.       *)
PagesAreBacked ==
    \A r \in Readers :
        /\ mode[r] # "failed"
        /\ mode[r] = "paging" => HasNext(r)
        /\ Ahead(r) => root \in {"marking", "threw"}

(* A page that says there is no more leaves the reader with every event    *)
(* that had been announced when the page was opened.                       *)
LastPageIsComplete ==
    [][\A r \in Readers : mode[r] = "paging" /\ mode'[r] = "idle" /\ ~ more'[r]
                          => LastOf(got'[r]) >= through[r]]_vars

(* A subscription of a stream that was closed ends, and not before its     *)
(* consumer has every event, unless the consumer leaves it.                *)
ClosedStreamsDeliver ==
    \A r \in Readers :
        mode[r] = "subscribed" /\ root = "closed"
        ~> \/ mode[r] = "ended" /\ Cursor(r) = Len(stream)
           \/ mode[r] = "idle"
=============================================================================
