------------------------------- MODULE MCServices -------------------------------
(***************************************************************************)
(* The parts that only answer the loop, or stand beside it, and share no   *)
(* state among them, in one run: Init chooses which of them moves, the     *)
(* others stay as they start.                                              *)
(***************************************************************************)
EXTENDS IolConnection, MovementStream, AccountReading, ReferenceFeeds, LunchLiquidity,
        JournalFile, HoldoutRegistry, CaptureReplay, FrameAssembly, EntryFilters,
        EntrySizing, DynamicLimit, WalkForward, EvidenceGate, OrderTrackingProperties

VARIABLE focus

client == <<connection, streamVars, accountReading>>
readings == <<feeds, lunch>>
files == <<journalFile, registry, captureReplay>>
entering == <<assembly, filters>>
placing == <<sizing, dynamicLimit, vars>>
learnt == <<walk, evidence>>
services == <<client, readings, files, entering, placing, learnt, focus>>

Still(c) == c # focus

ServicesInit ==
    /\ focus \in {"connection", "stream", "account", "feeds", "lunch", "journal", "registry",
                  "capture", "assembly", "filters", "sizing", "dynamic", "order", "walk", "gate"}
    /\ ConnectionInit /\ StreamInit /\ ReadingInit /\ FeedsInit /\ LunchInit
    /\ JournalInit /\ RegistryInit /\ CaptureInit /\ AssemblyInit /\ FiltersInit
    /\ SizingInit /\ DynamicInit /\ Init /\ WalkInit /\ GateInit
    /\ Still("connection") => token = NoToken("empty")
    /\ Still("feeds") => offset = -1
    /\ Still("filters") => switches = [analytics |-> FALSE, rankFilter |-> FALSE]

IolNext ==
    \/ focus = "connection" /\ ConnectionNext /\ UNCHANGED <<streamVars, accountReading>>
    \/ focus = "stream" /\ StreamNext /\ UNCHANGED <<connection, accountReading>>
    \/ focus = "account" /\ ReadingNext /\ UNCHANGED <<connection, streamVars>>

ReadingsNext ==
    \/ focus = "feeds" /\ FeedsNext /\ UNCHANGED lunch
    \/ focus = "lunch" /\ LunchNext /\ UNCHANGED feeds

FilesNext ==
    \/ focus = "journal" /\ JournalNext /\ UNCHANGED <<registry, captureReplay>>
    \/ focus = "registry" /\ RegistryNext /\ UNCHANGED <<journalFile, captureReplay>>
    \/ focus = "capture" /\ CaptureNext /\ UNCHANGED <<journalFile, registry>>

EntryNext ==
    \/ focus = "assembly" /\ AssemblyNext /\ UNCHANGED filters
    \/ focus = "filters" /\ FiltersNext /\ UNCHANGED assembly

OrdersNext ==
    \/ focus = "sizing" /\ SizingNext /\ UNCHANGED <<dynamicLimit, vars>>
    \/ focus = "dynamic" /\ DynamicNext /\ UNCHANGED <<sizing, vars>>
    \/ focus = "order" /\ Next /\ UNCHANGED <<sizing, dynamicLimit>>

LearningNext ==
    \/ focus = "walk" /\ WalkNext /\ UNCHANGED evidence
    \/ focus = "gate" /\ GateNext /\ UNCHANGED walk

ServicesNext ==
    /\ UNCHANGED focus
    /\ \/ IolNext /\ UNCHANGED <<readings, files, entering, placing, learnt>>
       \/ ReadingsNext /\ UNCHANGED <<client, files, entering, placing, learnt>>
       \/ FilesNext /\ UNCHANGED <<client, readings, entering, placing, learnt>>
       \/ EntryNext /\ UNCHANGED <<client, readings, files, placing, learnt>>
       \/ OrdersNext /\ UNCHANGED <<client, readings, files, entering, learnt>>
       \/ LearningNext /\ UNCHANGED <<client, readings, files, entering, placing>>

\* Requests end: each has a timeout; and the deadlines of an order pass.
ServicesSpec ==
    /\ ServicesInit /\ [][ServicesNext]_services
    /\ WF_connection(focus = "connection" /\ CallStep)
    /\ WF_vars(focus = "order" /\ Client)
    /\ WF_vars(focus = "order" /\ Expire)

\* Tracking ends, whatever IOL answers (TrackingEnds), where it begins.
FollowedOrderEnds == focus = "order" => TrackingEnds

-----------------------------------------------------------------------------
(* Values of the constants                                                 *)

\* Behind by less than the limit, and by more than is ever let pass.
MCOffsets == {-3, -1}

MCResults == {-1, 6}

MCAges == {0, 3, 5}
\* Three series in the days of the strategy, and a put that expires too soon.
MCSeries == {[side |-> "call", days |-> 9], [side |-> "call", days |-> 15],
             [side |-> "put", days |-> 9], [side |-> "put", days |-> 1]}

Candidate(side, iv) == [side |-> side, iv |-> iv]
MCCandidates == {Candidate("call", 0), Candidate("call", 1), Candidate("call", 2), Candidate("put", 1)}

Part(role, from, to) == [role |-> role, from |-> from, to |-> to]
Manifest(dataset, instruments, partitions) ==
    [dataset |-> dataset, instruments |-> instruments, partitions |-> partitions]
\* Two splits of one dataset, and a dataset that selects where those validate.
MCManifests ==
    {Manifest("d1", {"GGAL"}, {Part("Selection", 1, 2), Part("SealedValidation", 3, 4)}),
     Manifest("d1", {"GGAL"}, {Part("Selection", 1, 3), Part("SealedValidation", 4, 4)}),
     Manifest("d2", {"GGAL", "YPF"}, {Part("Selection", 4, 5), Part("SealedValidation", 6, 6)})}
=============================================================================
