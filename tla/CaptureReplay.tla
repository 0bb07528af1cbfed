----------------------------- MODULE CaptureReplay -----------------------------
(***************************************************************************)
(* The frames of a day on disk: a live run appends each to the day's       *)
(* capture, and a replay reads them back, both through stops and crashes   *)
(* (capture_market_frame, step and new_with_source in src/src/app.rs;      *)
(* CapturedMarketFrame and ReplayMarket in src/src/market.rs).  A frame is  *)
(* its time; all else in it is what its hash is of.                        *)
(***************************************************************************)
EXTENDS Integers, SequencesExt

CONSTANTS
    Stamps,         \* bound: the times of frames
    MaxFrames,      \* bound
    MaxCaptures     \* lines the 256 MiB of a capture hold

ASSUME CaptureAssumption == Stamps \subseteq Nat /\ {MaxFrames, MaxCaptures} \subseteq Nat

VARIABLES
    captureState,      \* "live", "stopped", "replay", "crashed", "refused" or "completed"
    capture,    \* the lines: [stamp, state]; only the last may lack its newline
    lastTime,   \* last_market_timestamp, in memory
    savedTime,  \* and in the snapshot
    unread,      \* the frames the replay has not given out, as lines
    replayed,   \* the lines whose effects the replay's state holds
    kept,      \* and those the snapshot holds
    mishaps     \* history: [torn, lost, stepped]: a write was cut; the latest time a crash
                \* lost, and whether a frame of an earlier time came after it

captureReplay == <<captureState, capture, lastTime, savedTime, unread, replayed, kept, mishaps>>

Never == -1
CaptureInit ==
    /\ captureState = "live" /\ capture = <<>>
    /\ lastTime = Never /\ savedTime = Never
    /\ unread = <<>> /\ replayed = <<>> /\ kept = <<>>
    /\ mishaps = [torn |-> FALSE, lost |-> Never, stepped |-> FALSE]

-----------------------------------------------------------------------------
(* The live run                                                            *)

\* A line is "written", lacks its "newline", is "cut" short, or is what two
\* lines make without a newline between them.
Appended(stamp, state) ==
    IF capture = <<>> \/ Last(capture).state = "written"
    THEN Append(capture, [stamp |-> stamp, state |-> state])
    ELSE Append(Front(capture), [stamp |-> stamp, state |-> "joined"])

\* Mutant: the frame is captured before it is validated.
InOrderAlways(stamp) == TRUE

\* UnderlyingQuote::validate
InOrder(stamp) == lastTime <= stamp

Full == Len(capture) >= MaxCaptures

\* An error ends the run, and its shutdown saves a snapshot.
EndRun == captureState' = "stopped" /\ savedTime' = lastTime' /\ UNCHANGED <<unread, replayed, kept>>

\* The process dies: what its memory held is lost.
Forgotten == [mishaps EXCEPT !.lost = IF lastTime > savedTime /\ lastTime > @ THEN lastTime ELSE @]
Dies == captureState' = "crashed" /\ lastTime' = Never /\ UNCHANGED <<savedTime, unread, replayed, kept>>

CaptureFrame ==
    /\ captureState = "live" /\ Len(capture) < MaxFrames
    /\ \E stamp \in Stamps :
        /\ InOrder(stamp) /\ ~Full
        /\ capture' = Appended(stamp, "written")
        /\ lastTime' = stamp
        /\ mishaps' = [mishaps EXCEPT !.stepped = @ \/ stamp < mishaps.lost]
    /\ UNCHANGED <<captureState, savedTime, unread, replayed, kept>>

\* The frame is out of order, or the capture is full.
CaptureRefused ==
    /\ captureState = "live"
    /\ \E stamp \in Stamps : ~InOrder(stamp) \/ Full
    /\ UNCHANGED <<capture, lastTime, mishaps>>
    /\ EndRun

\* The write fails half way, or the process dies in it.
CaptureCut ==
    /\ captureState = "live" /\ Len(capture) < MaxFrames
    /\ \E stamp \in Stamps, state \in {"newline", "cut"} :
        /\ InOrder(stamp) /\ ~Full
        /\ capture' = Appended(stamp, state)
    /\ \/ /\ mishaps' = [mishaps EXCEPT !.torn = TRUE]
          /\ UNCHANGED lastTime
          /\ EndRun
       \/ /\ mishaps' = [Forgotten EXCEPT !.torn = TRUE]
          /\ Dies

\* The end of a step.
SaveLive ==
    /\ captureState = "live"
    /\ savedTime' = lastTime
    /\ UNCHANGED <<captureState, capture, lastTime, unread, replayed, kept, mishaps>>

StopLive ==
    /\ captureState = "live"
    /\ UNCHANGED <<capture, lastTime, mishaps>>
    /\ EndRun

CrashLive ==
    /\ captureState = "live"
    /\ mishaps' = Forgotten
    /\ UNCHANGED capture
    /\ Dies

\* The snapshot brings the time of its last frame back.
RestartLive ==
    /\ captureState \in {"stopped", "crashed"}
    /\ captureState' = "live" /\ lastTime' = savedTime
    /\ UNCHANGED <<capture, savedTime, unread, replayed, kept, mishaps>>

-----------------------------------------------------------------------------
(* The replay, in a data directory of its own                              *)

LineParses(line) == line.state \in {"written", "newline"}
Lines == [i \in DOMAIN capture |-> i]

\* from_jsonl_reader and ReplayMarket::new
Replayable ==
    /\ capture # <<>> /\ \A i \in DOMAIN capture : LineParses(capture[i])
    /\ \A i \in 2..Len(capture) : capture[i - 1].stamp <= capture[i].stamp

\* From the first of these lines.
FromFirst(later) == IF later = {} THEN <<>> ELSE SubSeq(Lines, Min(later), Len(Lines))

\* Mutant: what has the kept time is given out again.
AfterTimeFrom(time) == FromFirst({i \in DOMAIN capture : capture[i].stamp >= time})

\* resume_after: frames leave at the front until one is later.
AfterTime(time) == FromFirst({i \in DOMAIN capture : capture[i].stamp > time})

StartReplay ==
    /\ captureState \in {"stopped", "crashed"}
    /\ IF Replayable THEN captureState' = "replay" /\ unread' = Lines ELSE captureState' = "refused" /\ UNCHANGED unread
    /\ lastTime' = Never /\ savedTime' = Never
    /\ UNCHANGED <<capture, replayed, kept, mishaps>>

ReplayFrame ==
    /\ captureState = "replay" /\ unread # <<>>
    /\ unread' = Tail(unread)
    /\ lastTime' = capture[Head(unread)].stamp
    /\ replayed' = Append(replayed, Head(unread))
    /\ UNCHANGED <<captureState, capture, savedTime, kept, mishaps>>

SaveReplay ==
    /\ captureState = "replay"
    /\ kept' = replayed /\ savedTime' = lastTime
    /\ UNCHANGED <<captureState, capture, lastTime, unread, replayed, mishaps>>

\* The replay dies, and starts again from the file and the snapshot.
RestartReplay ==
    /\ captureState = "replay"
    /\ lastTime' = savedTime /\ replayed' = kept
    /\ unread' = IF savedTime = Never THEN Lines ELSE AfterTime(savedTime)
    /\ UNCHANGED <<captureState, capture, savedTime, kept, mishaps>>

CompleteReplay ==
    /\ captureState = "replay" /\ unread = <<>>
    /\ captureState' = "completed"
    /\ UNCHANGED <<capture, lastTime, savedTime, unread, replayed, kept, mishaps>>

CaptureNext ==
    \/ CaptureFrame \/ CaptureRefused \/ CaptureCut
    \/ SaveLive \/ StopLive \/ CrashLive \/ RestartLive
    \/ StartReplay \/ ReplayFrame \/ SaveReplay \/ RestartReplay \/ CompleteReplay

-----------------------------------------------------------------------------

\* What a live run captured can be replayed, unless a write was cut or frames
\* went back in time over a crash that lost the snapshot; and a replay that
\* completed went through the lines in order, none twice, whatever restarts it
\* had, and left out only frames of the same time as one it went through
\* (resume_after leaves out all that are not later than the snapshot).
ReplayRepeatsTheCapture ==
    /\ captureState = "refused" => capture = <<>> \/ mishaps.torn \/ mishaps.stepped
    /\ \A i \in 2..Len(replayed) : replayed[i - 1] < replayed[i]
    /\ captureState = "completed" =>
        \A i \in DOMAIN capture : \E j \in ToSet(replayed) :
            j = i \/ (j < i /\ capture[j].stamp = capture[i].stamp)
=============================================================================
