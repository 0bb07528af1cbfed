------------------------------ MODULE JournalFile ------------------------------
(***************************************************************************)
(* journal.jsonl as a file of lines (src/src/persistence.rs): an append    *)
(* writes an event and then a newline and may stop after any part of it; a *)
(* power loss takes what was not synced; a start reads all of it or        *)
(* refuses it.  A hash is the number of the event it is of.                *)
(***************************************************************************)
EXTENDS Integers, SequencesExt

CONSTANT MaxAppends    \* bound

VARIABLES
    lines,          \* each [events, torn, ended]: what is on the line, whether a
                    \* part of an event is among it, whether it has its newline
    synced,         \* how many lines a power loss cannot take
    journal,        \* [state, sequence, hash]: "closed", "open" or "refused"
    appends,        \* the events ever tried, whose numbers tell them apart
    recorded,       \* history: the events append confirmed or a start read
    tears           \* history: whether an append or a power loss stopped inside a line

journalFile == <<lines, synced, journal, appends, recorded, tears>>

NoJournal == [state |-> "closed", sequence |-> 0, hash |-> 0]
NewLine == [events |-> <<>>, torn |-> FALSE, ended |-> FALSE]
TornLine == [events |-> <<>>, torn |-> TRUE, ended |-> FALSE]

JournalInit ==
    /\ lines = <<>> /\ synced = 0
    /\ journal = NoJournal
    /\ appends = 0 /\ recorded = {} /\ tears = FALSE

-----------------------------------------------------------------------------
(* Reading: read_events_with_key                                           *)

\* An empty line is skipped, any other must be one whole event.
Parses(line) == ~line.torn /\ Len(line.events) <= 1

\* Mutant: a line that does not parse is skipped.
ReadLinesSkipping ==
    [whole |-> TRUE,
     events |-> FoldLeft(LAMBDA all, line : IF Parses(line) THEN all \o line.events ELSE all,
                         <<>>, lines)]

Contents(those) == FoldLeft(LAMBDA all, line : all \o line.events, <<>>, those)
ReadLines ==
    [whole |-> \A i \in DOMAIN lines : Parses(lines[i]),
     events |-> Contents(lines)]
Written == ReadLines.events

\* expected_sequence, expected_previous_hash
ChainHolds ==
    \A i \in DOMAIN Written :
        /\ Written[i].sequence = i
        /\ Written[i].previous = IF i = 1 THEN 0 ELSE Written[i - 1].id

Readable == ReadLines.whole /\ ChainHolds
EventIds(events) == {events[i].id : i \in DOMAIN events}

OpenJournal ==
    /\ journal.state = "closed"
    /\ IF Readable
       THEN /\ journal' = [state |-> "open", sequence |-> Len(Written),
                           hash |-> IF Written = <<>> THEN 0 ELSE Last(Written).id]
            /\ recorded' = EventIds(Written)
       ELSE journal' = [NoJournal EXCEPT !.state = "refused"] /\ UNCHANGED recorded
    /\ UNCHANGED <<lines, synced, appends, tears>>

-----------------------------------------------------------------------------
(* Writing: Journal::append, sync                                          *)

\* What reached the file of the event, on the last line if that has no newline.
Parts == {"nothing", "part", "event", "line"}
Extended(event, part) ==
    LET fresh == lines = <<>> \/ Last(lines).ended
        line == IF fresh THEN NewLine ELSE Last(lines)
        new == [events |-> IF part = "part" THEN line.events ELSE Append(line.events, event),
                torn |-> line.torn \/ part = "part",
                ended |-> part = "line"]
    IN  IF part = "nothing" THEN lines
        ELSE Append(IF fresh THEN lines ELSE Front(lines), new)

NextEvent == [sequence |-> journal.sequence + 1, previous |-> journal.hash, id |-> appends + 1]

\* Mutant: the sequence counts the try, not the line.
AfterTrying(part) ==
    [journal EXCEPT !.sequence = @ + 1, !.hash = IF part = "line" THEN appends + 1 ELSE @]

\* last_sequence and last_hash follow a whole append only.
AfterAppend(part) ==
    IF part = "line" THEN [journal EXCEPT !.sequence = @ + 1, !.hash = appends + 1] ELSE journal

\* The process goes on after an append that failed.
AppendEvent ==
    /\ journal.state = "open" /\ appends < MaxAppends
    /\ appends' = appends + 1
    /\ \E part \in Parts :
        /\ lines' = Extended(NextEvent, part)
        /\ journal' = AfterAppend(part)
        /\ recorded' = IF part = "line" THEN recorded \union {appends + 1} ELSE recorded
        /\ tears' = (tears \/ part \in {"part", "event"})
    /\ UNCHANGED synced

SyncJournal ==
    /\ journal.state = "open"
    /\ synced' = Len(lines)
    /\ UNCHANGED <<lines, journal, appends, recorded, tears>>

-----------------------------------------------------------------------------

ProcessDies ==
    /\ journal.state = "open"
    /\ journal' = NoJournal
    /\ UNCHANGED <<lines, synced, appends, recorded, tears>>

\* Lines after the synced ones are lost, the first of them perhaps not whole.
PowerFails ==
    /\ journal.state = "open"
    /\ \E n \in synced..Len(lines) :
        \/ /\ lines' = SubSeq(lines, 1, n) /\ UNCHANGED tears
        \/ /\ n < Len(lines) /\ tears' = TRUE
           /\ lines' = Append(SubSeq(lines, 1, n), TornLine)
    /\ synced' = Len(lines')
    /\ journal' = NoJournal
    /\ recorded' = recorded \cap EventIds(Written')
    /\ UNCHANGED appends

JournalNext == OpenJournal \/ AppendEvent \/ SyncJournal \/ ProcessDies \/ PowerFails

-----------------------------------------------------------------------------

\* A start refuses the journal only after an append or a power loss stopped
\* inside a line: failed appends, restarts and lost lines alone never make the
\* sequence or the chain contradict itself.  And what a start accepts holds
\* every event append confirmed and the power loss left, each once and in the
\* order they were tried; the rest was written whole though append said it
\* failed.
JournalReadsBack ==
    /\ journal.state = "refused" => tears
    /\ Readable =>
        /\ recorded \subseteq EventIds(Written)
        /\ \A i, j \in DOMAIN Written : i < j => Written[i].id < Written[j].id
=============================================================================
